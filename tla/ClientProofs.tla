---------------------------- MODULE ClientProofs ----------------------------
(***************************************************************************)
(* Proofs about what runs in a client: ClientSession (which session a      *)
(* logout ends, and what a sync stream yields, for any number of tasks,    *)
(* accounts, calls and events) and PushRules (which rule decides, and what *)
(* the search for words finds, for any rules, events and texts).           *)
(***************************************************************************)
EXTENDS ClientSession, PushRules, FiniteSetTheorems, WellFoundedInduction, TLAPS

\* The homeserver numbers its tokens.
IssuedInOrder == \E n \in Nat : Issued = 1..n

\* Every token that a client or a request on the wire has was handed to the
\* application; what is on the wire without a caller is a request.
TokensKnown ==
    /\ valid \subseteq Issued
    /\ returned \subseteq Issued
    /\ token \in returned \cup {None}
    /\ \A t \in Tasks : call[t].st \in {"sent", "served"} => call[t].token \in returned \cup {None}
    /\ \A r \in orphans : r.st = "sent" /\ r.token \in returned \cup {None}

\* A request to log in or register is for an account.
RequestsNamed ==
    /\ \A t \in Tasks : call[t].st = "sent" /\ call[t].op \in Storing => call[t].account \in Accounts
    /\ \A r \in orphans : r.op \in Storing => r.account \in Accounts

\* Task t waits for an answer that holds a new token.
Fresh(t) ==
    /\ call[t].st = "served"
    /\ call[t].op \in Storing
    /\ call[t].ans.ok
    /\ call[t].ans.token # None

\* A new token is live, has not been handed out, and is in one answer only.
FreshUnshared ==
    \A t \in Tasks : Fresh(t) =>
        /\ call[t].ans.token \in valid \ returned
        /\ \A u \in Tasks : Fresh(u) /\ u # t => call[u].ans.token # call[t].ans.token

\* A sync request or answer that is under way has a token; a position never runs
\* ahead of the account, nor of the answer that is under way.
PositionsKnown ==
    \A t \in Tasks, a \in Accounts : Holders \subseteq {a} =>
        /\ since[t] <= pos[a]
        /\ call[t].st = "served" /\ call[t].op = "sync" /\ call[t].ans.ok =>
             call[t].token \in returned /\ since[t] <= call[t].ans.next /\ call[t].ans.next <= pos[a]

\* A logout under way was called on the token it carries, and a session ended by no
\* other.
LogoutsKnown ==
    /\ \A t \in Tasks : call[t].st = "sent" /\ call[t].op = "logout" => call[t].token \in doomed
    /\ \A r \in orphans : r.op = "logout" => r.token \in doomed
    /\ LogoutsHitTheirSession

SessionInv ==
    /\ TypeOK
    /\ IssuedInOrder
    /\ TokensKnown
    /\ RequestsNamed
    /\ FreshUnshared
    /\ PositionsKnown
    /\ OneAccountNoGap
    /\ LogoutsKnown

-----------------------------------------------------------------------------
\* What the records of requests and answers hold.
LEMMA RecordShapes ==
    /\ \A r \in CallRecord : r.st = "sent" =>
          r.op \in Op /\ r.account \in Accounts \cup {None} /\ r.token \in Token \cup {None}
    /\ \A r \in CallRecord : r.st = "served" =>
          r.op \in Op /\ r.token \in Token \cup {None} /\ r.ans \in Answers
    /\ \A ans \in Answers : ans.ok => ans.token \in Token \cup {None} /\ ans.next \in Position
    /\ \A tok, n : Ok(tok, n).ok /\ Ok(tok, n).token = tok /\ Ok(tok, n).next = n
    /\ ~Failed.ok
  BY DEF CallRecord, Idle, Answers, Ok, Failed

\* None is no token.
LEMMA NoneIsNoToken == None \notin Token
  BY SessionAssumption DEF Token

\* What the homeserver may do with a request: a token it issues is new, and only
\* the token of the request itself is ever logged out.
LEMMA HandleFacts ==
    ASSUME TypeOK, IssuedInOrder, TokensKnown,
           NEW r \in CallRecord, r.st = "sent", r.op \in Storing => r.account \in Accounts,
           NEW ans \in Answers, Handle(r, ans)
    PROVE  /\ IssuedInOrder'
           /\ Issued \subseteq Issued' /\ Issued' \subseteq Token
           /\ \A x \in Issued : owner'[x] = owner[x]
           /\ \A x \in Issued' : owner'[x] \in Accounts
           /\ valid' \subseteq Issued' /\ valid \ {r.token} \subseteq valid'
           /\ Issued' \ valid' \subseteq (Issued \ valid) \cup {x \in {r.token} : r.op = "logout"}
           /\ r.op \in Storing /\ ans.ok /\ ans.token # None => ans.token \in valid' \ Issued
           /\ r.op = "sync" /\ ans.ok => r.token \in valid /\ ans.next = pos[owner[r.token]]
<1> DEFINE tok == Cardinality(Issued) + 1
<1>1. PICK n \in Nat : Issued = 1..n
  BY DEF IssuedInOrder
<1>2. tok = n + 1 /\ tok \notin Issued /\ Issued \cup {tok} = 1..(n + 1)
  <2>1. Cardinality(1..n) = n
    BY FS_Interval
  <2>2. QED
    BY <1>1, <2>1
<1>3. CASE /\ r.op \in Storing
           /\ owner' = [x \in Issued \cup {tok} |-> IF x = tok THEN r.account ELSE owner[x]]
           /\ valid' = valid \cup {tok}
           /\ ans = Ok(tok, 0)
  <2>1. tok \in Token
    BY <1>2, <1>3, RecordShapes, SessionAssumption
  <2>2. Issued' = Issued \cup {tok}
    BY <1>3 DEF Issued
  <2>3. IssuedInOrder'
    <3>1. Issued' = 1..(n + 1) /\ n + 1 \in Nat
      BY <1>2, <2>2
    <3>2. QED
      BY <3>1 DEF IssuedInOrder
  <2>4. r.op # "sync"
    BY <1>3 DEF Storing
  <2>5. ans.token = tok
    BY <1>3, RecordShapes
  <2>6. Issued \subseteq Token /\ \A x \in Issued : owner[x] \in Accounts
    BY DEF TypeOK
  <2>7. valid \subseteq Issued
    BY DEF TokensKnown
  <2> HIDE DEF tok
  <2>8. QED
    BY <1>2, <1>3, <2>1, <2>2, <2>3, <2>4, <2>5, <2>6, <2>7
<1>4. CASE /\ UNCHANGED <<owner, valid>>
           /\ ans = Failed \/ (r.op \in Storing /\ ans = Ok(None, 0))
  <2>1. Issued' = Issued /\ IssuedInOrder'
    BY <1>4 DEF Issued, IssuedInOrder
  <2>2. QED
    BY <1>4, <2>1, RecordShapes DEF TypeOK, TokensKnown, Storing
<1>5. CASE /\ r.op \in Authenticated
           /\ r.token \in valid
           /\ valid' = IF r.op = "logout" THEN valid \ {r.token} ELSE valid
           /\ ans = Ok(None, IF r.op = "sync" THEN pos[owner[r.token]] ELSE 0)
           /\ UNCHANGED owner
  <2>1. Issued' = Issued /\ IssuedInOrder'
    BY <1>5 DEF Issued, IssuedInOrder
  <2>2. QED
    BY <1>5, <2>1, RecordShapes DEF TypeOK, TokensKnown, Storing, Authenticated
<1>6. QED
  BY <1>3, <1>4, <1>5 DEF Handle
-----------------------------------------------------------------------------
\* A step in which one task starts a call, drops one or ends one without an
\* effect, and may leave a request on the wire.
LEMMA CallChanges ==
    ASSUME SessionInv,
           NEW t \in Tasks, NEW c \in CallRecord, c.st # "served",
           c.st = "sent" => /\ c.token \in returned \cup {None}
                            /\ c.op \in Storing => c.account \in Accounts
                            /\ c.op = "logout" => c.token \in doomed',
           doomed \subseteq doomed', doomed' \subseteq doomed \cup {x \in {token} : x # None},
           call' = [call EXCEPT ![t] = c],
           orphans' \subseteq orphans \cup {r \in {call[t]} : r.st = "sent"},
           calls' \in 0..MaxCalls,
           UNCHANGED <<token, since, seen, returned, server>>
    PROVE  SessionInv'
<1> USE DEF SessionInv
<1>1. /\ Issued' = Issued /\ Holders' = Holders
      /\ UNCHANGED <<token, since, seen, returned, owner, valid, pos>>
  BY DEF Issued, Holders, server
<1>2. call \in [Tasks -> CallRecord] /\ call[t] \in CallRecord
  BY DEF TypeOK
<1>3. TypeOK'
  <2>1. doomed' \subseteq Issued'
    BY <1>1 DEF TypeOK, TokensKnown
  <2>2. QED
    BY <1>1, <1>2, <2>1 DEF TypeOK
<1>4. IssuedInOrder'
  BY <1>1 DEF IssuedInOrder
<1>5. TokensKnown'
  BY <1>1, <1>2 DEF TokensKnown
<1>6. RequestsNamed'
  BY <1>1, <1>2 DEF RequestsNamed
<1>7. FreshUnshared'
  <2>1. \A u \in Tasks : Fresh(u)' => Fresh(u) /\ u # t /\ call'[u] = call[u]
    BY <1>2 DEF Fresh
  <2>2. QED
    BY <1>1, <2>1 DEF FreshUnshared
<1>8. PositionsKnown'
  BY <1>1, <1>2 DEF PositionsKnown
<1>9. OneAccountNoGap'
  BY <1>1 DEF OneAccountNoGap
<1>10. LogoutsKnown'
  BY <1>1, <1>2 DEF LogoutsKnown, LogoutsHitTheirSession
<1>11. QED
  BY <1>3, <1>4, <1>5, <1>6, <1>7, <1>8, <1>9, <1>10

\* The requests that Call builds carry the token of the Mutex or none.
LEMMA CallKeeps ==
    ASSUME SessionInv, NEW t \in Tasks, NEW op \in Op, NEW a \in Accounts \cup {None},
           op \in Storing => a \in Accounts,
           Call(t, op, a), calls' \in 0..MaxCalls
    PROVE  SessionInv'
<1> DEFINE called == {x \in {token} : op = "logout" /\ ~Refused(op)}
<1>0. /\ doomed' = doomed \cup called
      /\ called \subseteq {x \in {token} : x # None}
  BY DEF Call, Refused, Authenticated
<1> HIDE DEF called
<1>1. CASE call' = [call EXCEPT ![t] = Idle]
  <2>1. Idle \in CallRecord /\ Idle.st = "idle"
    BY DEF CallRecord, Idle
  <2>2. QED
    BY <1>0, <1>1, <2>1, CallChanges DEF Call
<1>2. CASE ~Refused(op) /\ call' = [call EXCEPT ![t] = Request(op, a)]
  <2>1. SendAccessToken(op) \in returned \cup {None} /\ SendAccessToken(op) \in Token \cup {None}
    BY DEF SendAccessToken, SessionInv, TokensKnown, TypeOK
  <2>2. /\ Request(op, a) \in CallRecord
        /\ Request(op, a).st = "sent"
        /\ Request(op, a).token = SendAccessToken(op)
        /\ Request(op, a).op = op
        /\ Request(op, a).account = a
    BY <2>1 DEF Request, CallRecord
  <2>3. op = "logout" => SendAccessToken(op) \in called
    BY <1>2 DEF SendAccessToken, Authenticated, called
  <2>4. QED
    BY <1>0, <1>2, <2>1, <2>2, <2>3, CallChanges DEF Call
<1>3. QED
  BY <1>1, <1>2 DEF Call

\* Serving a request gives its task an answer; a new token is in that one only.
LEMMA ServeKeeps ==
    ASSUME SessionInv, NEW t \in Tasks, Serve(t)
    PROVE  SessionInv'
<1> DEFINE r == call[t]
<1> USE DEF SessionInv
<1>1. r \in CallRecord /\ r.st = "sent" /\ call \in [Tasks -> CallRecord]
  BY DEF TypeOK, Serve
<1>2. PICK ans \in Answers :
        /\ Handle(r, ans)
        /\ call' = [call EXCEPT ![t] = [st |-> "served", op |-> r.op, token |-> r.token, ans |-> ans]]
  BY DEF Serve
<1>3. UNCHANGED <<token, since, calls, pos, orphans, seen, returned, doomed>>
  BY DEF Serve
<1>4. r.op \in Op /\ r.token \in Token \cup {None} /\ (r.op \in Storing => r.account \in Accounts)
  BY <1>1, RecordShapes DEF RequestsNamed
<1> DEFINE c == [st |-> "served", op |-> r.op, token |-> r.token, ans |-> ans]
<1>5. c \in CallRecord /\ c.st = "served" /\ c.op = r.op /\ c.token = r.token /\ c.ans = ans
  BY <1>4 DEF CallRecord
<1>6. call'[t] = c /\ \A u \in Tasks : u # t => call'[u] = call[u]
  BY <1>1, <1>2
<1>7. /\ IssuedInOrder'
      /\ Issued \subseteq Issued' /\ Issued' \subseteq Token
      /\ \A x \in Issued : owner'[x] = owner[x]
      /\ \A x \in Issued' : owner'[x] \in Accounts
      /\ valid' \subseteq Issued' /\ valid \ {r.token} \subseteq valid'
      /\ Issued' \ valid' \subseteq (Issued \ valid) \cup {x \in {r.token} : r.op = "logout"}
      /\ r.op \in Storing /\ ans.ok /\ ans.token # None => ans.token \in valid' \ Issued
      /\ r.op = "sync" /\ ans.ok => r.token \in valid /\ ans.next = pos[owner[r.token]]
  BY <1>1, <1>2, <1>4, HandleFacts
<1>8. returned \subseteq Issued /\ Holders' = Holders
  BY <1>3, <1>7 DEF TokensKnown, Holders
<1> HIDE DEF c, r
<1>9. TypeOK'
  BY <1>2, <1>3, <1>5, <1>7, <1>1, <1>8 DEF TypeOK, c, r
<1>10. TokensKnown'
  <2>1. r.token \in returned \cup {None}
    BY <1>1 DEF TokensKnown, r
  <2>2. QED
    BY <1>3, <1>5, <1>6, <1>7, <1>8, <2>1 DEF TokensKnown
<1>11. RequestsNamed'
  BY <1>3, <1>5, <1>6 DEF RequestsNamed
<1>12. FreshUnshared'
  <2>1. r.token \in returned \cup {None}
    BY <1>1 DEF TokensKnown, r
  <2>2. \A u \in Tasks : u # t => (Fresh(u)' <=> Fresh(u))
    BY <1>6 DEF Fresh
  <2>3. \A u \in Tasks : Fresh(u) => call[u].ans.token \in valid \ returned /\ call[u].ans.token # None
    BY DEF FreshUnshared, Fresh
  <2>4. \A u \in Tasks : Fresh(u) => call[u].ans.token \in valid' \ returned'
    BY <1>3, <1>7, <2>1, <2>3
  <2>5. Fresh(t)' => ans.token \in valid' \ Issued
    BY <1>5, <1>6, <1>7 DEF Fresh
  <2>6. valid \subseteq Issued
    BY DEF TokensKnown
  <2>7. QED
    BY <1>3, <1>5, <1>6, <1>8, <2>2, <2>3, <2>4, <2>5, <2>6 DEF FreshUnshared
<1>13. PositionsKnown'
  <2> SUFFICES ASSUME NEW u \in Tasks, NEW a \in Accounts, Holders \subseteq {a}
               PROVE  /\ since[u] <= pos[a]
                      /\ call'[u].st = "served" /\ call'[u].op = "sync" /\ call'[u].ans.ok =>
                           /\ call'[u].token \in returned
                           /\ since[u] <= call'[u].ans.next
                           /\ call'[u].ans.next <= pos[a]
    BY <1>3, <1>8 DEF PositionsKnown
  <2>1. since[u] <= pos[a] /\ since[u] \in Nat /\ pos[a] \in Nat
    BY SessionAssumption DEF PositionsKnown, TypeOK, Position
  <2>2. CASE u # t
    BY <1>6, <2>1, <2>2 DEF PositionsKnown
  <2>3. CASE u = t
    <3> SUFFICES ASSUME r.op = "sync", ans.ok
                 PROVE  r.token \in returned /\ since[u] <= ans.next /\ ans.next <= pos[a]
      BY <1>5, <1>6, <2>1, <2>3
    <3>1. r.token \in returned
      <4>1. r.token \in valid /\ valid \subseteq Token
        BY <1>7 DEF TypeOK
      <4>2. r.token \in returned \cup {None}
        BY <1>1 DEF TokensKnown, r
      <4>3. QED
        BY <4>1, <4>2, NoneIsNoToken
    <3>2. owner[r.token] = a
      BY <3>1 DEF Holders
    <3>3. QED
      BY <1>7, <2>1, <3>1, <3>2
  <2>4. QED
    BY <2>2, <2>3
<1>14. OneAccountNoGap'
  BY <1>3, <1>8 DEF OneAccountNoGap
<1>15. LogoutsKnown'
  <2>1. r.op = "logout" => r.token \in doomed
    BY <1>1 DEF LogoutsKnown, r
  <2>2. QED
    BY <1>3, <1>5, <1>6, <1>7, <2>1 DEF LogoutsKnown, LogoutsHitTheirSession
<1>16. QED
  BY <1>7, <1>9, <1>10, <1>11, <1>12, <1>13, <1>14, <1>15

\* A request without a caller may issue a token, which nobody gets, or log its own out.
LEMMA ServeOrphanKeeps ==
    ASSUME SessionInv, NEW r \in orphans, ServeOrphan(r)
    PROVE  SessionInv'
<1> USE DEF SessionInv
<1>1. orphans' = orphans \ {r} /\ UNCHANGED <<pos, token, call, since, calls, seen, returned, doomed>>
  BY DEF ServeOrphan, client
<1>2. r \in CallRecord /\ r.st = "sent" /\ r.token \in returned \cup {None}
      /\ (r.op \in Storing => r.account \in Accounts)
  BY DEF TypeOK, TokensKnown, RequestsNamed
<1>3. /\ IssuedInOrder'
      /\ Issued \subseteq Issued' /\ Issued' \subseteq Token
      /\ \A x \in Issued : owner'[x] = owner[x]
      /\ \A x \in Issued' : owner'[x] \in Accounts
      /\ valid' \subseteq Issued' /\ valid \ {r.token} \subseteq valid'
      /\ Issued' \ valid' \subseteq (Issued \ valid) \cup {x \in {r.token} : r.op = "logout"}
  <2>1. CASE \E ans \in Answers : Handle(r, ans)
    BY <1>2, <2>1, HandleFacts
  <2>2. CASE UNCHANGED <<owner, valid>>
    BY <2>2 DEF Issued, IssuedInOrder, TypeOK
  <2>3. QED
    BY <2>1, <2>2 DEF ServeOrphan
<1>4. returned \subseteq Issued /\ Holders' = Holders
  BY <1>1, <1>3 DEF TokensKnown, Holders
<1>5. TypeOK'
  BY <1>1, <1>3, <1>4 DEF TypeOK
<1>6. TokensKnown'
  BY <1>1, <1>3, <1>4 DEF TokensKnown
<1>7. RequestsNamed'
  BY <1>1 DEF RequestsNamed
<1>8. FreshUnshared'
  <2>1. \A u \in Tasks : Fresh(u)' <=> Fresh(u)
    BY <1>1 DEF Fresh
  <2>2. \A u \in Tasks : Fresh(u) => call[u].ans.token # None
    BY DEF Fresh
  <2>3. QED
    BY <1>1, <1>2, <1>3, <2>1, <2>2 DEF FreshUnshared
<1>9. PositionsKnown'
  BY <1>1, <1>4 DEF PositionsKnown
<1>10. OneAccountNoGap'
  BY <1>1, <1>4 DEF OneAccountNoGap
<1>11. LogoutsKnown'
  BY <1>1, <1>3 DEF LogoutsKnown, LogoutsHitTheirSession
<1>12. QED
  BY <1>3, <1>5, <1>6, <1>7, <1>8, <1>9, <1>10, <1>11

\* An account's position only grows.
LEMMA NewEventKeeps ==
    ASSUME SessionInv, NEW b \in Accounts, NewEvent(b)
    PROVE  SessionInv'
<1> USE DEF SessionInv
<1>1. UNCHANGED <<token, call, since, calls, seen, returned, doomed, owner, valid, orphans>>
  BY DEF NewEvent, client
<1>2. Holders' = Holders /\ Issued' = Issued
  BY <1>1 DEF Holders, Issued
<1>3. /\ pos' \in [Accounts -> Position]
      /\ \A a \in Accounts : pos[a] \in Nat /\ pos'[a] \in Nat /\ pos[a] <= pos'[a]
  BY SessionAssumption DEF NewEvent, TypeOK, Position
<1>4. TypeOK'
  BY <1>1, <1>2, <1>3 DEF TypeOK
<1>5. IssuedInOrder' /\ TokensKnown' /\ RequestsNamed'
  BY <1>1, <1>2 DEF IssuedInOrder, TokensKnown, RequestsNamed
<1>6. FreshUnshared'
  BY <1>1 DEF FreshUnshared, Fresh
<1>7. PositionsKnown'
  <2> SUFFICES ASSUME NEW u \in Tasks, NEW a \in Accounts, Holders \subseteq {a}
               PROVE  /\ since[u] <= pos'[a]
                      /\ call[u].st = "served" /\ call[u].op = "sync" /\ call[u].ans.ok =>
                           /\ call[u].token \in returned
                           /\ since[u] <= call[u].ans.next
                           /\ call[u].ans.next <= pos'[a]
    BY <1>1, <1>2 DEF PositionsKnown
  <2>1. since[u] \in Nat
    BY SessionAssumption DEF TypeOK, Position
  <2>2. CASE call[u].st = "served" /\ call[u].op = "sync" /\ call[u].ans.ok
    <3>1. call[u].ans.next \in Nat
      BY <2>2, RecordShapes, SessionAssumption DEF TypeOK, Position
    <3>2. QED
      BY <1>3, <2>1, <2>2, <3>1 DEF PositionsKnown
  <2>3. CASE ~(call[u].st = "served" /\ call[u].op = "sync" /\ call[u].ans.ok)
    BY <1>3, <2>1, <2>3 DEF PositionsKnown
  <2>4. QED
    BY <2>2, <2>3
<1>8. OneAccountNoGap'
  BY <1>1, <1>2 DEF OneAccountNoGap
<1>9. LogoutsKnown'
  BY <1>1, <1>2 DEF LogoutsKnown, LogoutsHitTheirSession
<1>10. QED
  BY <1>4, <1>5, <1>6, <1>7, <1>8, <1>9

\* A token that is stored leaves the answer it was in.
LEMMA StoringKeeps ==
    ASSUME SessionInv, NEW t \in Tasks, FinishLogIn(t)
    PROVE  SessionInv'
<1> DEFINE tok == call[t].ans.token
<1> USE DEF SessionInv
<1>1. /\ call' = [call EXCEPT ![t] = Idle] /\ token' = tok
      /\ returned' = IF tok = None THEN returned ELSE returned \cup {tok}
      /\ UNCHANGED <<since, calls, orphans, seen, doomed, owner, valid, pos>>
  BY DEF FinishLogIn, Store, server
<1>2. call \in [Tasks -> CallRecord] /\ Idle \in CallRecord /\ Idle.st = "idle"
  BY DEF TypeOK, CallRecord, Idle
<1>3. tok \in Token \cup {None}
  BY RecordShapes DEF FinishLogIn, TypeOK
<1>4. tok # None => Fresh(t) /\ tok \in valid \ returned
  BY DEF FinishLogIn, Fresh, FreshUnshared
<1>5. Issued' = Issued /\ Holders \subseteq Holders' /\ returned \subseteq returned'
  BY <1>1 DEF Issued, Holders
<1>6. call'[t] = Idle /\ \A u \in Tasks : u # t => call'[u] = call[u]
  BY <1>1, <1>2
<1> HIDE DEF tok
<1>7. TypeOK'
  BY <1>1, <1>2, <1>3, <1>4, <1>5 DEF TypeOK
<1>8. IssuedInOrder'
  BY <1>5 DEF IssuedInOrder
<1>9. TokensKnown'
  BY <1>1, <1>2, <1>4, <1>5, <1>6 DEF TokensKnown
<1>10. RequestsNamed'
  BY <1>1, <1>2, <1>6 DEF RequestsNamed
<1>11. FreshUnshared'
  <2>1. \A u \in Tasks : Fresh(u)' => Fresh(u) /\ u # t /\ call'[u] = call[u]
    BY <1>2, <1>6 DEF Fresh
  <2>2. \A u \in Tasks : Fresh(u)' => call[u].ans.token \in valid \ returned /\ call[u].ans.token # tok
    BY <2>1, <1>4 DEF FreshUnshared, tok, Fresh
  <2>3. QED
    BY <1>1, <2>1, <2>2 DEF FreshUnshared
<1>12. PositionsKnown'
  BY <1>1, <1>2, <1>5, <1>6 DEF PositionsKnown
<1>13. OneAccountNoGap'
  BY <1>1, <1>5 DEF OneAccountNoGap
<1>14. LogoutsKnown'
  BY <1>1, <1>2, <1>5, <1>6 DEF LogoutsKnown, LogoutsHitTheirSession
<1>15. QED
  BY <1>7, <1>8, <1>9, <1>10, <1>11, <1>12, <1>13, <1>14

\* A stream that takes over an answer has seen the account up to that position.
LEMMA FinishSyncKeeps ==
    ASSUME SessionInv, NEW t \in Tasks, FinishSync(t)
    PROVE  SessionInv'
<1> DEFINE next == call[t].ans.next
           holder == owner[call[t].token]
           yielded == [st |-> "yielded"]
<1> USE DEF SessionInv
<1>1. /\ since' = [since EXCEPT ![t] = next]
      /\ seen' = [seen EXCEPT ![t][holder] = @ \cup ((since[t] + 1)..next)]
      /\ call' = [call EXCEPT ![t] = yielded]
      /\ UNCHANGED <<token, calls, orphans, returned, doomed, owner, valid, pos>>
  BY DEF FinishSync, Yields, server
<1>2. call \in [Tasks -> CallRecord] /\ yielded \in CallRecord /\ yielded.st = "yielded"
  BY DEF TypeOK, CallRecord
<1>3. next \in Position /\ since[t] \in Position /\ Position \subseteq Nat
  BY RecordShapes, SessionAssumption DEF FinishSync, TypeOK, Position
<1>4. Issued' = Issued /\ Holders' = Holders
  BY <1>1 DEF Issued, Holders
<1>5. call'[t] = yielded /\ \A u \in Tasks : u # t => call'[u] = call[u]
  BY <1>1, <1>2
<1>6. since'[t] = next /\ \A u \in Tasks : u # t => since'[u] = since[u]
  BY <1>1 DEF TypeOK
<1>7. ASSUME NEW a \in Accounts, Holders \subseteq {a}
      PROVE  /\ holder = a /\ since[t] <= next /\ next <= pos[a]
             /\ seen[t][a] = 1..since[t]
  BY <1>7 DEF FinishSync, PositionsKnown, OneAccountNoGap, Holders
<1> HIDE DEF next, holder, yielded
<1>8. (since[t] + 1)..next \subseteq Position
  BY <1>3, SessionAssumption DEF Position
<1>9. seen' \in [Tasks -> [Accounts -> SUBSET Position]]
  BY <1>1, <1>8 DEF TypeOK
<1>10. TypeOK'
  BY <1>1, <1>2, <1>3, <1>4, <1>9 DEF TypeOK
<1>11. IssuedInOrder'
  BY <1>4 DEF IssuedInOrder
<1>12. TokensKnown'
  BY <1>1, <1>2, <1>4, <1>5 DEF TokensKnown
<1>13. RequestsNamed'
  BY <1>1, <1>2, <1>5 DEF RequestsNamed
<1>14. FreshUnshared'
  <2>1. \A u \in Tasks : Fresh(u)' => Fresh(u) /\ u # t /\ call'[u] = call[u]
    BY <1>2, <1>5 DEF Fresh
  <2>2. QED
    BY <1>1, <2>1 DEF FreshUnshared
<1>15. PositionsKnown'
  BY <1>1, <1>2, <1>4, <1>5, <1>6, <1>7 DEF PositionsKnown
<1>16. OneAccountNoGap'
  <2> SUFFICES ASSUME NEW u \in Tasks, NEW a \in Accounts, Holders \subseteq {a}
               PROVE  seen'[u][a] = 1..since'[u]
    BY <1>4 DEF OneAccountNoGap
  <2>1. CASE u # t
    <3>1. seen'[u] = seen[u]
      BY <1>1, <2>1 DEF TypeOK
    <3>2. QED
      BY <1>6, <2>1, <3>1 DEF OneAccountNoGap
  <2>2. CASE u = t
    <3>1. seen'[t][a] = seen[t][a] \cup ((since[t] + 1)..next)
      <4>1. holder = a /\ seen \in [Tasks -> [Accounts -> SUBSET Position]]
        BY <1>7 DEF TypeOK
      <4>2. seen'[t] = [seen[t] EXCEPT ![a] = @ \cup ((since[t] + 1)..next)]
        BY <1>1, <4>1
      <4>3. QED
        BY <4>1, <4>2
    <3>2. (1..since[t]) \cup ((since[t] + 1)..next) = 1..next
      <4>1. since[t] \in Nat /\ next \in Nat /\ since[t] <= next
        BY <1>3, <1>7
      <4>2. \A m, n \in Nat : m <= n => (1..m) \cup ((m + 1)..n) = 1..n
        OBVIOUS
      <4>3. QED
        BY <4>1, <4>2
    <3>3. QED
      BY <1>6, <1>7, <2>2, <3>1, <3>2
  <2>3. QED
    BY <2>1, <2>2
<1>17. LogoutsKnown'
  BY <1>1, <1>2, <1>4, <1>5 DEF LogoutsKnown, LogoutsHitTheirSession
<1>18. QED
  BY <1>10, <1>11, <1>12, <1>13, <1>14, <1>15, <1>16, <1>17
-----------------------------------------------------------------------------
\* A client starts anonymous or with the token it was constructed with.
LEMMA SessionStarts == Init => SessionInv
<1> SUFFICES ASSUME Init PROVE SessionInv
  OBVIOUS
<1>1. PICK b \in Accounts, x \in {None, 1} :
        /\ token = x
        /\ owner = IF x = None THEN <<>> ELSE [y \in {x} |-> b]
        /\ returned = IF x = None THEN {} ELSE {x}
  BY DEF Init
<1>2. 1 # None /\ 1 \in Token /\ 0 \in Position
  BY SessionAssumption DEF Token, Position
<1>3. Issued = returned /\ valid = returned /\ \A y \in Issued : owner[y] = b
  <2>1. CASE x = None
    BY <1>1, <2>1 DEF Init, Issued
  <2>2. CASE x = 1
    BY <1>1, <1>2, <2>2 DEF Init, Issued
  <2>3. QED
    BY <2>1, <2>2
<1>4. IssuedInOrder
  <2>1. CASE x = None
    <3>1. Issued = 1..0
      BY <1>1, <1>3, <2>1
    <3>2. QED
      BY <3>1 DEF IssuedInOrder
  <2>2. CASE x = 1
    <3>1. Issued = 1..1
      BY <1>1, <1>2, <1>3, <2>2
    <3>2. QED
      BY <3>1 DEF IssuedInOrder
  <2>3. QED
    BY <2>1, <2>2
<1>5. Idle \in CallRecord /\ Idle.st = "idle" /\ \A t \in Tasks : call[t] = Idle
  BY DEF Init, CallRecord, Idle
<1>6. TypeOK
  BY <1>1, <1>2, <1>3, <1>5, SessionAssumption DEF Init, TypeOK
<1>7. TokensKnown /\ RequestsNamed /\ FreshUnshared
  BY <1>1, <1>3, <1>5 DEF Init, TokensKnown, RequestsNamed, FreshUnshared, Fresh
<1>8. PositionsKnown
  BY <1>5 DEF Init, PositionsKnown
<1>9. OneAccountNoGap
  BY DEF Init, OneAccountNoGap
<1>10. LogoutsKnown
  BY <1>3, <1>5 DEF Init, LogoutsKnown, LogoutsHitTheirSession
<1>11. QED
  BY <1>4, <1>6, <1>7, <1>8, <1>9, <1>10 DEF SessionInv

\* Every step of every task and of the homeserver keeps the invariant.
LEMMA SessionSteps == SessionInv /\ [Next]_vars => SessionInv'
<1> SUFFICES ASSUME SessionInv, [Next]_vars PROVE SessionInv'
  OBVIOUS
<1>1. Idle \in CallRecord /\ Idle.st = "idle"
  BY DEF CallRecord, Idle
<1>2. calls \in 0..MaxCalls /\ MaxCalls \in Nat
  BY SessionAssumption DEF SessionInv, TypeOK
<1>3. Counted => calls' \in 0..MaxCalls
  BY <1>2 DEF Counted
<1>4. ASSUME NEW t \in Tasks, LogIn(t) PROVE SessionInv'
  <2>1. PICK op \in Storing, a \in Accounts : Call(t, op, a)
    BY <1>4 DEF LogIn
  <2>2. calls' \in 0..MaxCalls
    BY <1>3, <1>4 DEF LogIn
  <2>3. op \in Op
    BY DEF Op
  <2>4. QED
    BY <2>1, <2>2, <2>3, CallKeeps
<1>5. ASSUME NEW t \in Tasks, SendRequest(t) PROVE SessionInv'
  <2>1. PICK op \in {"send_request", "logout"} : Call(t, op, None)
    BY <1>5 DEF SendRequest
  <2>2. calls' \in 0..MaxCalls
    BY <1>3, <1>5 DEF SendRequest
  <2>3. op \in Op /\ op \notin Storing
    BY DEF Op, Storing, Authenticated
  <2>4. QED
    BY <2>1, <2>2, <2>3, CallKeeps
<1>6. ASSUME NEW t \in Tasks, PollSync(t) PROVE SessionInv'
  <2>1. "sync" \in Op /\ "sync" \notin Storing
    BY DEF Op, Storing, Authenticated
  <2>2. Call(t, "sync", None) /\ calls' \in 0..MaxCalls
    BY <1>2, <1>6 DEF PollSync
  <2>3. QED
    BY <2>1, <2>2, CallKeeps
<1>7. ASSUME NEW t \in Tasks, DropStream(t) PROVE SessionInv'
  BY <1>1, <1>2, <1>7, CallChanges DEF DropStream
<1>8. ASSUME NEW t \in Tasks, GiveUp(t) PROVE SessionInv'
  <2>1. orphans' \subseteq orphans \cup {r \in {call[t]} : r.st = "sent"}
    BY <1>8 DEF GiveUp, Abandoned
  <2>2. QED
    BY <1>1, <1>2, <1>8, <2>1, CallChanges DEF GiveUp
<1>9. ASSUME NEW t \in Tasks, FinishErr(t) PROVE SessionInv'
  BY <1>1, <1>2, <1>9, CallChanges DEF FinishErr
<1>10. ASSUME NEW t \in Tasks, FinishRequest(t) PROVE SessionInv'
  BY <1>1, <1>2, <1>10, CallChanges DEF FinishRequest
<1>11. CASE UNCHANGED vars
  <2>1. TypeOK'
    BY <1>11 DEF vars, SessionInv, TypeOK, Issued
  <2>2. IssuedInOrder' /\ TokensKnown' /\ RequestsNamed'
    BY <1>11 DEF vars, SessionInv, IssuedInOrder, TokensKnown, RequestsNamed, Issued
  <2>3. FreshUnshared'
    BY <1>11 DEF vars, SessionInv, FreshUnshared, Fresh
  <2>4. PositionsKnown' /\ OneAccountNoGap'
    BY <1>11 DEF vars, SessionInv, PositionsKnown, OneAccountNoGap, Holders
  <2>5. LogoutsKnown'
    BY <1>11 DEF vars, SessionInv, LogoutsKnown, LogoutsHitTheirSession, Issued
  <2>6. QED
    BY <2>1, <2>2, <2>3, <2>4, <2>5 DEF SessionInv
<1>12. QED
  BY <1>4, <1>5, <1>6, <1>7, <1>8, <1>9, <1>10, <1>11, ServeKeeps, ServeOrphanKeeps, NewEventKeeps,
     StoringKeeps, FinishSyncKeeps DEF Next, TaskStep

\* The shapes of the client's and the homeserver's state are kept.
THEOREM SessionTypeCorrect == Spec => []TypeOK
<1>1. SessionInv => TypeOK
  BY DEF SessionInv
<1>2. QED
  BY <1>1, SessionStarts, SessionSteps, PTL DEF Spec

\* However the calls of the clones interleave and whatever is lost, given up or
\* late: a session ends only by a logout that was called on it.
THEOREM SessionsEndWhenAsked == Spec => []LogoutsHitTheirSession
<1>1. SessionInv => LogoutsHitTheirSession
  BY DEF SessionInv, LogoutsKnown
<1>2. QED
  BY <1>1, SessionStarts, SessionSteps, PTL DEF Spec

\* While the client holds tokens of one account only, the sync streams of a task
\* have yielded every event up to the position they go on from.
THEOREM StreamsHaveNoGap == Spec => []OneAccountNoGap
<1>1. SessionInv => OneAccountNoGap
  BY DEF SessionInv
<1>2. QED
  BY <1>1, SessionStarts, SessionSteps, PTL DEF Spec

\* And they yield none of these events again.
THEOREM StreamsNeverRepeat == Spec => NoEventTwice
<1>1. SessionInv => [\A t \in Tasks, a \in Accounts :
          FinishSync(t) /\ Holders \subseteq {a} => seen[t][a] \cap Yields(t) = {}]_vars
  <2> SUFFICES ASSUME SessionInv, NEW t \in Tasks, NEW a \in Accounts, FinishSync(t), Holders \subseteq {a}
               PROVE  seen[t][a] \cap Yields(t) = {}
    OBVIOUS
  <2>1. seen[t][a] = 1..since[t] /\ since[t] \in Nat
    BY SessionAssumption DEF SessionInv, OneAccountNoGap, TypeOK, Position
  <2>2. QED
    BY <2>1 DEF Yields
<1>2. QED
  BY <1>1, SessionStarts, SessionSteps, PTL DEF Spec, NoEventTwice

-----------------------------------------------------------------------------
(***************************************************************************)
(* PushRules: the search for words                                         *)
(***************************************************************************)
(* A non-empty set of natural numbers has a least element.                 *)
LEMMA LeastNat ==
  ASSUME NEW T, T \subseteq Nat, T # {}
  PROVE  \E n \in T : \A m \in T : n <= m
<1>. DEFINE R == OpToRel(<, Nat)
<1>1. \A m, n \in Nat : <<m, n>> \in R <=> m < n
  BY DEF OpToRel
<1>2. IsWellFoundedOn(R, Nat)
  BY NatLessThanWellFounded
<1>. HIDE DEF R
<1>3. PICK n \in T : \A m \in T : ~(<<m, n>> \in R)
  BY <1>2, WFMin
<1>4. \A m \in T : m \in Nat /\ n \in Nat /\ ~(m < n)
  BY <1>1, <1>3, Zenon
<1>5. \A m \in T : n <= m
  BY <1>4
<1>6. QED
  BY <1>5

(* It is its minimum.                                                      *)
LEMMA MinIsLeast ==
  ASSUME NEW T, T \subseteq Nat, T # {}
  PROVE  Min(T) \in T /\ \A m \in T : Min(T) <= m
<1>1. \E n \in T : \A m \in T : n <= m
  BY LeastNat
<1>2. QED
  BY <1>1 DEF Min

(* A non-empty set of numbers up to n has a maximum.                       *)
LEMMA MaxIsGreatest ==
  ASSUME NEW n \in Nat, NEW T, T \subseteq 0 .. n, T # {}
  PROVE  Max(T) \in T /\ \A m \in T : Max(T) >= m
<1>. DEFINE U == {n - m : m \in T}
<1>1. U \subseteq Nat /\ U # {}
  <2>1. \A m \in T : n - m \in Nat
    OBVIOUS
  <2>2. QED
    BY <2>1
<1>2. PICK u \in U : \A v \in U : u <= v
  BY <1>1, LeastNat
<1>3. \E k \in T : \A m \in T : k >= m
  <2>1. PICK k \in T : u = n - k
    BY <1>2
  <2>2. \A m \in T : n - k <= n - m
    BY <1>2, <2>1
  <2>3. QED
    BY <2>2
<1>4. QED
  BY <1>3 DEF Max

-----------------------------------------------------------------------------
(* Sequences with the same elements are the same.                          *)
LEMMA SameSeq ==
  ASSUME NEW C, NEW a \in Seq(C), NEW b \in Seq(C), Len(a) = Len(b), \A k \in 1 .. Len(a) : a[k] = b[k]
  PROVE  a = b
  OBVIOUS

(* p is in s from place i on.                                              *)
Occurs(s, p, i) ==
  /\ i \in 1 .. Len(s) /\ i + Len(p) - 1 <= Len(s)
  /\ \A k \in 1 .. Len(p) : s[i + k - 1] = p[k]

(* These are the places where p is found.                                  *)
LEMMA FindIs ==
  ASSUME NEW C, NEW s \in Seq(C), NEW p \in Seq(C), NEW i \in Nat
  PROVE  i \in Find(s, p) <=> Occurs(s, p, i)
<1>1. CASE ~(i \in 1 .. Len(s) /\ i + Len(p) - 1 <= Len(s))
  <2>1. i \in DOMAIN s <=> i \in 1 .. Len(s)
    OBVIOUS
  <2>2. QED
    BY <1>1, <2>1, Zenon DEF Find, Occurs
<1>2. CASE i \in 1 .. Len(s) /\ i + Len(p) - 1 <= Len(s)
  <2>. DEFINE q == SubSeq(s, i, i + Len(p) - 1)
  <2>1. /\ q \in Seq(C) /\ Len(q) = Len(p)
        /\ \A k \in 1 .. Len(p) : q[k] = s[i + k - 1]
    BY <1>2
  <2>2. i \in Find(s, p) <=> q = p
    <3>1. i \in DOMAIN s
      BY <1>2
    <3>2. QED
      BY <1>2, <3>1, Zenon DEF Find
  <2>. HIDE DEF q
  <2>3. q = p <=> \A k \in 1 .. Len(p) : q[k] = p[k]
    BY <2>1, SameSeq
  <2>4. QED
    BY <1>2, <2>1, <2>2, <2>3 DEF Occurs
<1>3. QED
  BY <1>1, <1>2

(* Place i of s holds p with no word going on at either end.               *)
Stands(s, p, i) == i \in Find(s, p) /\ BoundaryStart(s, i) /\ BoundaryEnd(s, i + Len(p) - 1)

(* The reference asks for a place where p stands.                         *)
LEMMA HasWordsIs ==
  ASSUME NEW C, NEW s \in Seq(C), NEW p \in Seq(C), p # <<>>
  PROVE  HasWords(s, p) <=> \E i \in Nat : Stands(s, p, i)
<1>1. Find(s, p) \subseteq Nat
  BY DEF Find
<1>2. ASSUME s = p PROVE Stands(s, p, 1)
  <2>1. 1 \in 1 .. Len(s)
    BY <1>2
  <2>2. 1 \in Find(s, p)
    BY <1>2, <2>1, FindIs DEF Occurs
  <2>3. QED
    BY <1>2, <2>2 DEF Stands, BoundaryStart, BoundaryEnd
<1>3. QED
  BY <1>1, <1>2 DEF HasWords, Stands

-----------------------------------------------------------------------------
(* The words that NextWord looks for after a match at `start', and the     *)
(* gaps before them.                                                       *)
Gaps(s, start)  == {i \in start .. Len(s) : ~IsWordChar(s[i])}
Words(s, start) == {i \in start .. Len(s) : IsWordChar(s[i]) /\ \E g \in Gaps(s, start) : g < i}

(* The next word begins behind a gap.                                      *)
LEMMA NextWordBegins ==
  ASSUME NEW C, NEW s \in Seq(C), NEW start \in 1 .. Len(s), Words(s, start) # {}
  PROVE  LET w == Min(Words(s, start))
         IN  /\ w \in start + 1 .. Len(s)
             /\ IsWordChar(s[w]) /\ ~IsWordChar(s[w - 1])
             /\ \A i \in Words(s, start) : w <= i
             /\ NextWord(s, start) = SubSeq(s, w, Len(s))
<1>. DEFINE w == Min(Words(s, start))
<1>0. Words(s, start) \subseteq Nat /\ Gaps(s, start) \subseteq Nat
  BY DEF Words, Gaps
<1>1. w \in Words(s, start) /\ \A i \in Words(s, start) : w <= i
  BY <1>0, MinIsLeast
<1>2. NextWord(s, start) = SubSeq(s, w, Len(s))
  BY DEF NextWord, Words, Gaps
<1>. HIDE DEF w
<1>3. PICK g \in Gaps(s, start) : g < w
  BY <1>1 DEF Words
<1>4. w \in start .. Len(s) /\ g \in start .. Len(s) /\ IsWordChar(s[w]) /\ ~IsWordChar(s[g])
  BY <1>1, <1>3 DEF Words, Gaps
<1>5. ~IsWordChar(s[w - 1])
  <2>. SUFFICES ASSUME IsWordChar(s[w - 1]) PROVE FALSE
    OBVIOUS
  <2>1. g < w - 1
    <3>1. g # w - 1
      BY <1>4
    <3>2. QED
      BY <1>3, <1>4, <3>1
  <2>2. w - 1 \in Words(s, start)
    BY <1>3, <1>4, <2>1 DEF Words
  <2>3. QED
    BY <1>1, <1>4, <2>2
<1>6. QED
  BY <1>1, <1>2, <1>3, <1>4, <1>5 DEF w

(* A place where p stands is not skipped when the first place where it     *)
(* occurs was none.                                                        *)
LEMMA NothingSkipped ==
  ASSUME NEW C, NEW s \in Seq(C), NEW p \in Seq(C), p # <<>>,
         NEW start \in Find(s, p), \A i \in Find(s, p) : start <= i,
         ~Stands(s, p, start),
         NEW j \in Nat, Stands(s, p, j)
  PROVE  \E w \in Words(s, start) : w <= j
<1>1. /\ start \in 1 .. Len(s) /\ start + Len(p) - 1 <= Len(s)
      /\ \A k \in 1 .. Len(p) : s[start + k - 1] = p[k]
  <2>1. start \in Nat
    BY DEF Find
  <2>2. QED
    BY <2>1, FindIs DEF Occurs
<1>2. /\ j \in 1 .. Len(s) /\ j + Len(p) - 1 <= Len(s)
      /\ \A k \in 1 .. Len(p) : s[j + k - 1] = p[k]
  BY FindIs DEF Stands, Occurs
<1>3. start < j
  <2>1. j \in Find(s, p) /\ j # start
    BY DEF Stands
  <2>2. QED
    BY <1>1, <1>2, <2>1
<1>4. Len(p) \in Nat /\ Len(p) >= 1
  OBVIOUS
<1>5. s[start] = p[1] /\ s[j] = p[1]
  BY <1>1, <1>2, <1>4
<1>6. CASE IsWordChar(p[1])
  <2>1. ~IsWordChar(s[j - 1])
    BY <1>1, <1>2, <1>3, <1>5, <1>6 DEF Stands, BoundaryStart
  <2>2. j - 1 \in Gaps(s, start)
    BY <1>1, <1>2, <1>3, <2>1 DEF Gaps
  <2>3. j \in Words(s, start)
    BY <1>1, <1>2, <1>3, <1>5, <1>6, <2>2 DEF Words
  <2>4. QED
    BY <1>2, <2>3
<1>7. CASE ~IsWordChar(p[1])
  <2>. DEFINE e == start + Len(p) - 1
  <2>1. BoundaryStart(s, start)
    BY <1>5, <1>7 DEF BoundaryStart
  <2>2. IsWordChar(s[e])
    BY <2>1 DEF Stands, BoundaryEnd
  <2>3. e \in Words(s, start)
    <3>1. start \in Gaps(s, start)
      BY <1>1, <1>5, <1>7 DEF Gaps
    <3>2. e # start
      BY <1>5, <1>7, <2>2
    <3>3. QED
      BY <1>1, <1>4, <2>2, <3>1, <3>2 DEF Words
  <2>. DEFINE w == Min(Words(s, start))
  <2>4. /\ w \in start + 1 .. Len(s) /\ IsWordChar(s[w]) /\ w \in Words(s, start)
        /\ \A i \in Words(s, start) : w <= i
    <3>1. Words(s, start) \subseteq Nat
      BY <1>1 DEF Words
    <3>2. QED
      BY <1>1, <2>3, <3>1, NextWordBegins, MinIsLeast
  <2>. HIDE DEF w
  <2>5. SUFFICES ASSUME j < w PROVE FALSE
    BY <1>2, <2>4
  <2>6. w <= e
    BY <2>3, <2>4
  <2>7. s[w] = p[w - j + 1] /\ w - j + 1 \in 1 .. Len(p)
    <3>1. w - j + 1 \in 1 .. Len(p)
      BY <1>1, <1>2, <1>3, <1>4, <2>4, <2>5, <2>6
    <3>2. j + (w - j + 1) - 1 = w
      BY <1>2, <2>4
    <3>3. QED
      BY <1>2, <3>1, <3>2
  <2>. DEFINE x == start + (w - j + 1) - 1
  <2>8. s[x] = p[w - j + 1] /\ x \in start + 1 .. w - 1
    BY <1>1, <1>2, <1>3, <2>4, <2>5, <2>7
  <2>9. IsWordChar(s[x])
    BY <2>4, <2>7, <2>8
  <2>10. x \in Words(s, start)
    <3>1. start \in Gaps(s, start)
      BY <1>1, <1>5, <1>7 DEF Gaps
    <3>2. QED
      BY <1>1, <2>4, <2>8, <2>9, <3>1 DEF Words
  <2>11. QED
    BY <1>1, <2>4, <2>8, <2>10
<1>8. QED
  BY <1>6, <1>7

(* In the rest of a text that begins behind a gap, p stands where it       *)
(* stands in the text.                                                     *)
LEMMA StandsInRest ==
  ASSUME NEW C, NEW s \in Seq(C), NEW p \in Seq(C), p # <<>>,
         NEW w \in 2 .. Len(s), ~IsWordChar(s[w - 1]), NEW j \in Nat \ {0}
  PROVE  Stands(SubSeq(s, w, Len(s)), p, j) <=> Stands(s, p, w + j - 1)
<1>. DEFINE r == SubSeq(s, w, Len(s))
            i == w + j - 1
<1>1. r \in Seq(C) /\ Len(r) = Len(s) - w + 1 /\ \A k \in 1 .. Len(r) : r[k] = s[w + k - 1]
  OBVIOUS
<1>2. Len(p) \in Nat /\ Len(p) >= 1 /\ i \in Nat /\ Len(s) \in Nat /\ i = w + j - 1
  OBVIOUS
<1>. HIDE DEF r, i
<1>3. j \in Find(r, p) <=> i \in Find(s, p)
  <2>1. j \in 1 .. Len(r) /\ j + Len(p) - 1 <= Len(r) <=> i \in 1 .. Len(s) /\ i + Len(p) - 1 <= Len(s)
    BY <1>1, <1>2
  <2>2. ASSUME j \in 1 .. Len(r), j + Len(p) - 1 <= Len(r), NEW k \in 1 .. Len(p)
        PROVE  r[j + k - 1] = s[i + k - 1]
    <3>1. j + k - 1 \in 1 .. Len(r) /\ w + (j + k - 1) - 1 = i + k - 1
      BY <1>1, <1>2, <2>2
    <3>2. QED
      BY <1>1, <3>1
  <2>3. j \in Find(r, p) <=> Occurs(r, p, j)
    BY <1>1, FindIs
  <2>4. i \in Find(s, p) <=> Occurs(s, p, i)
    BY <1>2, FindIs
  <2>5. j \in 1 .. Len(r) /\ j + Len(p) - 1 <= Len(r) =>
          ((\A k \in 1 .. Len(p) : r[j + k - 1] = p[k]) <=> \A k \in 1 .. Len(p) : s[i + k - 1] = p[k])
    BY <2>2, Zenon
  <2>6. QED
    BY <2>1, <2>3, <2>4, <2>5, Zenon DEF Occurs
<1>4. SUFFICES ASSUME j \in Find(r, p)
               PROVE  /\ BoundaryStart(r, j) <=> BoundaryStart(s, i)
                      /\ BoundaryEnd(r, j + Len(p) - 1) <=> BoundaryEnd(s, i + Len(p) - 1)
  BY <1>3 DEF Stands, r, i
<1>5. j \in 1 .. Len(r) /\ j + Len(p) - 1 <= Len(r)
  BY <1>1, <1>4, FindIs DEF Occurs
<1>6. BoundaryStart(r, j) <=> BoundaryStart(s, i)
  <2>1. r[j] = s[i]
    BY <1>1, <1>2, <1>5
  <2>2. CASE j = 1
    BY <1>2, <2>1, <2>2 DEF BoundaryStart
  <2>3. CASE j # 1
    <3>1. j - 1 \in 1 .. Len(r) /\ w + (j - 1) - 1 = i - 1 /\ i # 1
      BY <1>2, <1>5, <2>3
    <3>2. r[j - 1] = s[i - 1]
      BY <1>1, <3>1
    <3>3. QED
      BY <2>1, <2>3, <3>1, <3>2 DEF BoundaryStart
  <2>4. QED
    BY <2>2, <2>3
<1>7. BoundaryEnd(r, j + Len(p) - 1) <=> BoundaryEnd(s, i + Len(p) - 1)
  <2>. DEFINE e == j + Len(p) - 1
              f == i + Len(p) - 1
  <2>1. e \in 1 .. Len(r) /\ w + e - 1 = f /\ (e = Len(r) <=> f = Len(s))
    BY <1>1, <1>2, <1>5
  <2>2. r[e] = s[f]
    BY <1>1, <2>1
  <2>3. e # Len(r) => r[e + 1] = s[f + 1]
    <3>1. e # Len(r) => e + 1 \in 1 .. Len(r) /\ w + (e + 1) - 1 = f + 1
      BY <1>1, <2>1
    <3>2. QED
      BY <1>1, <3>1, SMTT(20)
  <2>. HIDE DEF e, f
  <2>4. BoundaryEnd(r, e) <=> BoundaryEnd(s, f)
    BY <2>1, <2>2, <2>3 DEF BoundaryEnd
  <2>5. QED
    BY <2>4 DEF e, f
<1>8. QED
  BY <1>6, <1>7

(* Where the first occurrence of p does not stand by itself, the search may*)
(* go on with the next word.                                               *)
LEMMA SearchGoesOn ==
  ASSUME NEW C, NEW s \in Seq(C), NEW p \in Seq(C), p # <<>>, Find(s, p) # {},
         ~Stands(s, p, Min(Find(s, p)))
  PROVE  LET r == NextWord(s, Min(Find(s, p)))
         IN  /\ r = <<>> \/ \E w \in 2 .. Len(s) : r = SubSeq(s, w, Len(s))
             /\ HasWords(r, p) <=> HasWords(s, p)
<1>. DEFINE start == Min(Find(s, p))
            r == NextWord(s, start)
<1>1. start \in Find(s, p) /\ \A i \in Find(s, p) : start <= i
  <2>1. Find(s, p) \subseteq Nat
    BY DEF Find
  <2>2. QED
    BY <2>1, MinIsLeast
<1>2. ~Stands(s, p, start)
  OBVIOUS
<1>. HIDE DEF start
<1>3. start \in 1 .. Len(s)
  BY <1>1, FindIs DEF Find, Occurs
<1>4. CASE Words(s, start) = {}
  <2>1. r = <<>>
    BY <1>4 DEF NextWord, Words, Gaps
  <2>2. ~HasWords(s, p)
    <3>1. \A j \in Nat : ~Stands(s, p, j)
      BY <1>1, <1>2, <1>4, NothingSkipped
    <3>2. QED
      BY <3>1, HasWordsIs
  <2>3. ~HasWords(<<>>, p)
    BY DEF HasWords, Find
  <2>4. QED
    BY <2>1, <2>2, <2>3 DEF start
<1>5. CASE Words(s, start) # {}
  <2>. DEFINE w == Min(Words(s, start))
  <2>1. /\ w \in start + 1 .. Len(s) /\ ~IsWordChar(s[w - 1])
        /\ \A i \in Words(s, start) : w <= i
        /\ r = SubSeq(s, w, Len(s))
    BY <1>3, <1>5, NextWordBegins
  <2>. HIDE DEF w, r
  <2>2. w \in 2 .. Len(s)
    BY <1>3, <2>1
  <2>3. r \in Seq(C)
    BY <2>1, <2>2
  <2>4. ASSUME HasWords(r, p) PROVE HasWords(s, p)
    <3>1. PICK j \in Nat : Stands(r, p, j)
      BY <2>3, <2>4, HasWordsIs
    <3>2. j # 0
      BY <2>3, <3>1, FindIs DEF Stands, Occurs
    <3>3. Stands(s, p, w + j - 1)
      BY <2>1, <2>2, <3>1, <3>2, StandsInRest
    <3>4. w + j - 1 \in Nat
      BY <2>2, <3>2
    <3>5. QED
      BY <3>3, <3>4, HasWordsIs
  <2>5. ASSUME HasWords(s, p) PROVE HasWords(r, p)
    <3>1. PICK i \in Nat : Stands(s, p, i)
      BY <2>5, HasWordsIs
    <3>2. PICK x \in Words(s, start) : x <= i
      BY <1>1, <1>2, <3>1, NothingSkipped
    <3>3. w <= i
      <4>1. x \in Nat /\ w <= x
        BY <1>3, <2>1, <3>2 DEF Words
      <4>2. QED
        BY <2>2, <3>2, <4>1
    <3>4. i - w + 1 \in Nat \ {0} /\ w + (i - w + 1) - 1 = i
      BY <2>2, <3>3
    <3>5. Stands(r, p, i - w + 1)
      BY <2>1, <2>2, <3>1, <3>4, StandsInRest
    <3>6. QED
      BY <2>3, <3>4, <3>5, HasWordsIs
  <2>6. QED
    BY <2>1, <2>2, <2>4, <2>5 DEF start, r
<1>6. QED
  BY <1>4, <1>5

-----------------------------------------------------------------------------
(* The recursion of matches_word: what a call on the text t answers, if    *)
(* `rest' holds the answers of the calls on its suffixes by their length.  *)
Search(t, p, rest) ==
  \/ t = p
  \/ /\ p # <<>> /\ Find(t, p) # {}
     /\ LET start == Min(Find(t, p))
        IN  \/ BoundaryStart(t, start) /\ BoundaryEnd(t, start + Len(p) - 1)
            \/ rest[Len(NextWord(t, start))]

LastOf(s, n) == SubSeq(s, Len(s) - n + 1, Len(s))

(* The rest of a suffix is a shorter suffix.                               *)
LEMMA RestIsSuffix ==
  ASSUME NEW C, NEW s \in Seq(C), NEW n \in 0 .. Len(s), NEW w \in 2 .. n
  PROVE  LET r == SubSeq(LastOf(s, n), w, n)
         IN  Len(r) \in 0 .. n - 1 /\ r = LastOf(s, Len(r))
<1>. DEFINE t == LastOf(s, n)
            r == SubSeq(t, w, n)
            q == LastOf(s, n - w + 1)
<1>1. t \in Seq(C) /\ Len(t) = n /\ \A k \in 1 .. n : t[k] = s[Len(s) - n + k]
  BY SMTT(20) DEF LastOf
<1>2. q \in Seq(C) /\ Len(q) = n - w + 1 /\ \A k \in 1 .. n - w + 1 : q[k] = s[Len(s) - n + w - 1 + k]
  BY SMTT(20) DEF LastOf
<1>. HIDE DEF t, q
<1>3. r \in Seq(C) /\ Len(r) = n - w + 1 /\ \A k \in 1 .. n - w + 1 : r[k] = t[w + k - 1]
  BY <1>1
<1>. HIDE DEF r
<1>4. \A k \in 1 .. n - w + 1 : r[k] = q[k]
  <2>. SUFFICES ASSUME NEW k \in 1 .. n - w + 1 PROVE r[k] = q[k]
    OBVIOUS
  <2>1. w + k - 1 \in 1 .. n /\ Len(s) - n + (w + k - 1) = Len(s) - n + w - 1 + k
    OBVIOUS
  <2>2. r[k] = t[w + k - 1] /\ q[k] = s[Len(s) - n + w - 1 + k]
    BY <1>2, <1>3, Zenon
  <2>3. t[w + k - 1] = s[Len(s) - n + (w + k - 1)]
    BY <1>1, <2>1, Zenon
  <2>4. QED
    BY <2>1, <2>2, <2>3, Zenon
<1>5. r = q
  <2>1. Len(r) = Len(q) /\ \A k \in 1 .. Len(r) : r[k] = q[k]
    BY <1>2, <1>3, <1>4, Zenon
  <2>2. QED
    BY <1>2, <1>3, <2>1, SameSeq
<1>6. QED
  BY <1>3, <1>5 DEF r, t, q

(* The answers of the reference fit the recursion, ...                     *)
LEMMA SearchByReference ==
  ASSUME NEW C, NEW s \in Seq(C), NEW p \in Seq(C), NEW n \in 0 .. Len(s), NEW rest,
         \A m \in 0 .. n - 1 : rest[m] <=> HasWords(LastOf(s, m), p)
  PROVE  Search(LastOf(s, n), p, rest) <=> HasWords(LastOf(s, n), p)
<1>. DEFINE t == LastOf(s, n)
<1>1. t \in Seq(C) /\ Len(t) = n
  BY DEF LastOf
<1>. HIDE DEF t
<1>2. CASE p = <<>> \/ Find(t, p) = {} \/ t = p
  BY <1>2 DEF Search, HasWords, t
<1>3. CASE p # <<>> /\ Find(t, p) # {} /\ t # p
  <2>. DEFINE start == Min(Find(t, p))
              r == NextWord(t, start)
  <2>1. start \in Find(t, p)
    <3>1. Find(t, p) \subseteq Nat
      BY <1>1 DEF Find
    <3>2. QED
      BY <1>3, <3>1, MinIsLeast
  <2>2. CASE Stands(t, p, start)
    <3>1. HasWords(t, p)
      BY <1>3, <2>2 DEF HasWords, Stands
    <3>2. Search(t, p, rest)
      BY <1>3, <2>2 DEF Search, Stands
    <3>3. QED
      BY <3>1, <3>2 DEF t, Search, HasWords
  <2>3. CASE ~Stands(t, p, start)
    <3>1. /\ r = <<>> \/ \E w \in 2 .. n : r = SubSeq(t, w, n)
          /\ HasWords(r, p) <=> HasWords(t, p)
      BY <1>1, <1>3, <2>3, SearchGoesOn
    <3>2. Find(t, p) # {} => n >= 1
      BY <1>1 DEF Find
    <3>3. Len(r) \in 0 .. n - 1 /\ r = LastOf(s, Len(r))
      <4>1. CASE r = <<>>
        BY <1>3, <3>2, <4>1 DEF LastOf
      <4>2. CASE \E w \in 2 .. n : r = SubSeq(t, w, n)
        BY <4>2, RestIsSuffix DEF t
      <4>3. QED
        BY <3>1, <4>1, <4>2
    <3>4. rest[Len(r)] <=> HasWords(r, p)
      BY <3>3
    <3>5. Search(t, p, rest) <=> rest[Len(r)]
      BY <1>3, <2>1, <2>3 DEF Search, Stands
    <3>6. QED
      BY <3>1, <3>4, <3>5 DEF t
  <2>4. QED
    BY <2>2, <2>3
<1>4. QED
  BY <1>2, <1>3

(* ... and no others do: matches_word finds p exactly where it stands with *)
(* no word going on at either end, in any text.                            *)
LEMMA MatchesWordIsHasWords ==
  ASSUME NEW C, NEW s \in Seq(C), NEW p \in Seq(C)
  PROVE  MatchesWord(s, p) <=> HasWords(s, p)
<1>. DEFINE Fits(f) == f = [n \in 0 .. Len(s) |-> Search(LastOf(s, n), p, f)]
            found == CHOOSE f : Fits(f)
            H == [n \in 0 .. Len(s) |-> HasWords(LastOf(s, n), p)]
<1>1. MatchesWord(s, p) = found[Len(s)]
  BY Zenon DEF MatchesWord, Search, LastOf
<1>2. Fits(H)
  <2>1. \A n \in 0 .. Len(s) : Search(LastOf(s, n), p, H) <=> HasWords(LastOf(s, n), p)
    <3>. SUFFICES ASSUME NEW n \in 0 .. Len(s)
                  PROVE  Search(LastOf(s, n), p, H) <=> HasWords(LastOf(s, n), p)
      OBVIOUS
    <3>1. \A m \in 0 .. n - 1 : H[m] <=> HasWords(LastOf(s, m), p)
      OBVIOUS
    <3>. HIDE DEF H
    <3>2. QED
      BY <3>1, SearchByReference
  <2>2. \A n \in 0 .. Len(s) : Search(LastOf(s, n), p, H) = HasWords(LastOf(s, n), p)
    BY <2>1 DEF Search, HasWords
  <2>3. QED
    BY <2>2
<1>3. Fits(found)
  BY <1>2, Zenon
<1>. HIDE DEF found
<1>4. \A n \in 0 .. Len(s) : found[n] <=> Search(LastOf(s, n), p, found)
  BY <1>3
<1>. HIDE DEF Fits, H
<1>5. \A n \in 0 .. Len(s) : found[n] <=> HasWords(LastOf(s, n), p)
  <2>. DEFINE Wrong == {n \in 0 .. Len(s) : ~(found[n] <=> HasWords(LastOf(s, n), p))}
  <2>. SUFFICES ASSUME Wrong # {} PROVE FALSE
    OBVIOUS
  <2>0. Wrong \subseteq Nat
    OBVIOUS
  <2>1. PICK n \in Wrong : \A m \in Wrong : n <= m
    <3>. HIDE DEF Wrong
    <3>1. QED
      BY <2>0, LeastNat
  <2>2. n \in 0 .. Len(s)
    OBVIOUS
  <2>3. \A m \in 0 .. n - 1 : found[m] <=> HasWords(LastOf(s, m), p)
    <3>. SUFFICES ASSUME NEW m \in 0 .. n - 1 PROVE found[m] <=> HasWords(LastOf(s, m), p)
      OBVIOUS
    <3>1. m \in 0 .. Len(s) /\ ~(n <= m)
      BY <2>2
    <3>2. QED
      BY <2>1, <3>1
  <2>4. Search(LastOf(s, n), p, found) <=> HasWords(LastOf(s, n), p)
    BY <2>2, <2>3, SearchByReference
  <2>5. QED
    BY <1>4, <2>2, <2>4
<1>6. LastOf(s, Len(s)) = s
  BY DEF LastOf
<1>7. QED
  BY <1>1, <1>5, <1>6

-----------------------------------------------------------------------------
(***************************************************************************)
(* PushRules: the rule that decides                                        *)
(***************************************************************************)
(* The rule of a list that decides about an event.                         *)
Matching(rules, flat, ctx) == {i \in DOMAIN rules : Applies(rules[i], flat, ctx)}
First(rules, flat, ctx) ==
  IF Matching(rules, flat, ctx) = {} THEN NoRule ELSE rules[Min(Matching(rules, flat, ctx))]

IsFirst(rules, i, flat, ctx) ==
  /\ i \in 1 .. Len(rules) /\ Applies(rules[i], flat, ctx)
  /\ \A j \in 1 .. i - 1 : ~Applies(rules[j], flat, ctx)

(* The rule at the first place that matches decides ...                    *)
LEMMA FirstIs ==
  ASSUME NEW S, NEW r \in Seq(S), NEW flat, NEW ctx, NEW i, IsFirst(r, i, flat, ctx)
  PROVE  Matching(r, flat, ctx) # {} /\ First(r, flat, ctx) = r[i]
<1>. DEFINE M == Matching(r, flat, ctx)
            n == Min(M)
<1>1. M \subseteq Nat /\ i \in M
  BY DEF Matching, IsFirst
<1>2. \A j \in M : i <= j
  BY DEF Matching, IsFirst
<1>. HIDE DEF M
<1>3. n \in M /\ \A j \in M : n <= j
  BY <1>1, MinIsLeast
<1>. HIDE DEF n
<1>4. n \in Nat /\ i \in Nat /\ n <= i /\ i <= n
  BY <1>1, <1>2, <1>3, Zenon
<1>5. n = i
  BY <1>4
<1>6. QED
  BY <1>1, <1>5, Zenon DEF First, M, n

(* ... and there is such a place if any rule matches.                      *)
LEMMA FirstExists ==
  ASSUME NEW S, NEW r \in Seq(S), NEW flat, NEW ctx, Matching(r, flat, ctx) # {}
  PROVE  \E i : IsFirst(r, i, flat, ctx) /\ First(r, flat, ctx) = r[i]
<1>. DEFINE M == Matching(r, flat, ctx)
<1>1. M \subseteq Nat
  BY DEF Matching
<1>2. Min(M) \in M /\ \A j \in M : Min(M) <= j
  BY <1>1, MinIsLeast
<1>3. Min(M) \in 1 .. Len(r) /\ Applies(r[Min(M)], flat, ctx)
  BY <1>2 DEF Matching
<1>4. ASSUME NEW j \in 1 .. Min(M) - 1 PROVE ~Applies(r[j], flat, ctx)
  <2>1. j \notin M /\ j \in 1 .. Len(r)
    BY <1>2, <1>3
  <2>2. QED
    BY <2>1 DEF Matching
<1>5. First(r, flat, ctx) = r[Min(M)]
  BY DEF First
<1>6. QED
  BY <1>3, <1>4, <1>5 DEF IsFirst

(* Two lists, one behind the other.  The operators Joined and Added keep   *)
(* concatenation out of the goals that do not need its definition.         *)
Joined(a, b) == a \o b
Precedes(a, b, c, flat, ctx) ==
  /\ Matching(c, flat, ctx) # {} <=> Matching(a, flat, ctx) # {} \/ Matching(b, flat, ctx) # {}
  /\ Matching(a, flat, ctx) # {} => First(c, flat, ctx) = First(a, flat, ctx)
  /\ Matching(a, flat, ctx) = {} => First(c, flat, ctx) = First(b, flat, ctx)

Continues(a, b, c) ==
  /\ Len(c) = Len(a) + Len(b)
  /\ \A i \in 1 .. Len(a) : c[i] = a[i]
  /\ \A i \in 1 .. Len(b) : c[Len(a) + i] = b[i]

(* The places of two lists in their concatenation.                         *)
LEMMA JoinedIs ==
  ASSUME NEW S, NEW a \in Seq(S), NEW b \in Seq(S)
  PROVE  Joined(a, b) \in Seq(S) /\ Continues(a, b, Joined(a, b))
  BY DEF Joined, Continues

(* Of two lists, the rules of the first one decide if one of them matches. *)
LEMMA FirstOfTwo ==
  ASSUME NEW S, NEW a \in Seq(S), NEW b \in Seq(S), NEW flat, NEW ctx
  PROVE  Joined(a, b) \in Seq(S) /\ Precedes(a, b, Joined(a, b), flat, ctx)
<1>. DEFINE c == Joined(a, b)
<1>1. /\ c \in Seq(S) /\ Len(c) = Len(a) + Len(b) /\ Len(a) \in Nat /\ Len(b) \in Nat
      /\ \A i \in 1 .. Len(a) : c[i] = a[i]
      /\ \A i \in 1 .. Len(b) : c[Len(a) + i] = b[i]
  <2>1. c \in Seq(S) /\ Continues(a, b, c)
    BY JoinedIs
  <2>2. QED
    BY <2>1 DEF Continues
<1>. HIDE DEF c
<1>2. CASE Matching(a, flat, ctx) # {}
  <2>1. PICK i : IsFirst(a, i, flat, ctx) /\ First(a, flat, ctx) = a[i]
    BY <1>2, FirstExists
  <2>2. IsFirst(c, i, flat, ctx) /\ c[i] = a[i]
    <3>1. i \in 1 .. Len(a) /\ i \in 1 .. Len(c)
      BY <1>1, <2>1 DEF IsFirst
    <3>2. \A j \in 1 .. i - 1 : c[j] = a[j]
      BY <1>1, <3>1
    <3>3. QED
      BY <1>1, <2>1, <3>1, <3>2 DEF IsFirst
  <2>3. Matching(c, flat, ctx) # {} /\ First(c, flat, ctx) = c[i]
    BY <1>1, <2>2, FirstIs
  <2>4. QED
    BY <1>1, <1>2, <2>1, <2>2, <2>3 DEF c, Precedes
<1>3. CASE Matching(a, flat, ctx) = {} /\ Matching(b, flat, ctx) # {}
  <2>1. PICK i : IsFirst(b, i, flat, ctx) /\ First(b, flat, ctx) = b[i]
    BY <1>3, FirstExists
  <2>2. \A j \in 1 .. Len(a) : ~Applies(c[j], flat, ctx)
    BY <1>1, <1>3 DEF Matching
  <2>3. ASSUME NEW j \in 1 .. Len(a) + i - 1 PROVE ~Applies(c[j], flat, ctx)
    <3>1. CASE j \in 1 .. Len(a)
      BY <2>2, <3>1
    <3>2. CASE j \notin 1 .. Len(a)
      <4>1. j - Len(a) \in 1 .. i - 1 /\ j - Len(a) \in 1 .. Len(b) /\ Len(a) + (j - Len(a)) = j
        BY <1>1, <2>1, <3>2 DEF IsFirst
      <4>2. c[j] = b[j - Len(a)]
        BY <1>1, <4>1
      <4>3. QED
        BY <2>1, <4>1, <4>2 DEF IsFirst
    <3>3. QED
      BY <3>1, <3>2
  <2>4. c[Len(a) + i] = b[i] /\ IsFirst(c, Len(a) + i, flat, ctx)
    BY <1>1, <2>1, <2>3 DEF IsFirst
  <2>5. Matching(c, flat, ctx) # {} /\ First(c, flat, ctx) = c[Len(a) + i]
    BY <1>1, <2>4, FirstIs
  <2>6. QED
    BY <1>1, <1>3, <2>1, <2>4, <2>5 DEF c, Precedes
<1>4. CASE Matching(a, flat, ctx) = {} /\ Matching(b, flat, ctx) = {}
  <2>1. Matching(c, flat, ctx) = {}
    <3>. SUFFICES ASSUME NEW j \in 1 .. Len(c) PROVE ~Applies(c[j], flat, ctx)
      BY <1>1 DEF Matching
    <3>1. CASE j \in 1 .. Len(a)
      BY <1>1, <1>4, <3>1 DEF Matching
    <3>2. CASE j \notin 1 .. Len(a)
      <4>1. j - Len(a) \in 1 .. Len(b) /\ Len(a) + (j - Len(a)) = j
        BY <1>1, <3>2
      <4>2. c[j] = b[j - Len(a)]
        BY <1>1, <4>1
      <4>3. QED
        BY <1>4, <4>1, <4>2 DEF Matching
    <3>3. QED
      BY <3>1, <3>2
  <2>2. QED
    BY <1>1, <1>4, <2>1 DEF First, c, Precedes
<1>5. QED
  BY <1>2, <1>3, <1>4

Added(a, rule) == Append(a, rule)

Extends(a, rule, c, flat, ctx) ==
  /\ Matching(c, flat, ctx) # {} <=> Matching(a, flat, ctx) # {} \/ Applies(rule, flat, ctx)
  /\ Matching(a, flat, ctx) # {} => First(c, flat, ctx) = First(a, flat, ctx)
  /\ Matching(a, flat, ctx) = {} /\ Applies(rule, flat, ctx) => First(c, flat, ctx) = rule

(* A rule at the end decides if no other one does.                         *)
LEMMA FirstOfAppend ==
  ASSUME NEW S, NEW a \in Seq(S), NEW rule \in S, NEW flat, NEW ctx
  PROVE  Added(a, rule) \in Seq(S) /\ Extends(a, rule, Added(a, rule), flat, ctx)
<1>. DEFINE b == <<rule>>
<1>1. b \in Seq(S) /\ Len(b) = 1 /\ b[1] = rule /\ Added(a, rule) = Joined(a, b)
  BY DEF Joined, Added
<1>. HIDE DEF b
<1>2. Applies(rule, flat, ctx) => IsFirst(b, 1, flat, ctx)
  BY <1>1 DEF IsFirst
<1>3. Applies(rule, flat, ctx) => Matching(b, flat, ctx) # {} /\ First(b, flat, ctx) = rule
  BY <1>1, <1>2, FirstIs
<1>4. ~Applies(rule, flat, ctx) => Matching(b, flat, ctx) = {}
  BY <1>1 DEF Matching
<1>5. QED
  BY <1>1, <1>3, <1>4, FirstOfTwo DEF Precedes, Extends

Some(rs, kind, flat, ctx) == Matching(rs[kind], flat, ctx) # {}

(* Rule is the one that decides: the first one of the first kind in which  *)
(* some rule matches.                                                      *)
ByKinds(rs, rule, flat, ctx) ==
  LET o == Some(rs, "override", flat, ctx)
      c == Some(rs, "content", flat, ctx)
      r == Some(rs, "room", flat, ctx)
      s == Some(rs, "sender", flat, ctx)
  IN  /\ o => rule = First(rs["override"], flat, ctx)
      /\ ~o /\ c => rule = First(rs["content"], flat, ctx)
      /\ ~o /\ ~c /\ r => rule = First(rs["room"], flat, ctx)
      /\ ~o /\ ~c /\ ~r /\ s => rule = First(rs["sender"], flat, ctx)
      /\ ~o /\ ~c /\ ~r /\ ~s => rule = First(rs["underride"], flat, ctx)

(* The kinds decide in the order of their priority.                        *)
LEMMA KindsInOrder ==
  ASSUME NEW S, NEW rs \in [Kind -> Seq(S)], NEW flat, NEW ctx
  PROVE  ByKinds(rs, First(Iter(rs), flat, ctx), flat, ctx)
<1>1. \A k \in Kind : rs[k] \in Seq(S)
  OBVIOUS
<1>. DEFINE o == rs["override"]
            c == rs["content"]
            r == rs["room"]
            s == rs["sender"]
            u == rs["underride"]
<1>2. o \in Seq(S) /\ c \in Seq(S) /\ r \in Seq(S) /\ s \in Seq(S) /\ u \in Seq(S)
  BY <1>1 DEF Kind
<1>. DEFINE oc   == Joined(o, c)
            ocr  == Joined(oc, r)
            ocrs == Joined(ocr, s)
<1>3. Iter(rs) = Joined(ocrs, u)
  BY DEF Iter, Joined
<1>. HIDE DEF o, c, r, s, u
<1>4. oc \in Seq(S)
  BY <1>2, FirstOfTwo
<1>5. ocr \in Seq(S)
  BY <1>2, <1>4, FirstOfTwo
<1>6. ocrs \in Seq(S)
  BY <1>2, <1>5, FirstOfTwo
<1>7. Precedes(o, c, oc, flat, ctx)
  BY <1>2, FirstOfTwo
<1>8. Precedes(oc, r, ocr, flat, ctx)
  BY <1>2, <1>4, FirstOfTwo
<1>9. Precedes(ocr, s, ocrs, flat, ctx)
  BY <1>2, <1>5, FirstOfTwo
<1>10. Precedes(ocrs, u, Iter(rs), flat, ctx)
  BY <1>2, <1>3, <1>6, FirstOfTwo
<1>. HIDE DEF oc, ocr, ocrs
<1>11. QED
  BY <1>7, <1>8, <1>9, <1>10 DEF ByKinds, Some, Precedes, o, c, r, s, u

-----------------------------------------------------------------------------
(***************************************************************************)
(* PushRules: the rules that are there                                     *)
(***************************************************************************)
(* The rules of a kind are of that kind, and the predefined override rules *)
(* keep their places in front of those that were added.                    *)
OfTheirKind(rs) ==
  \A k \in Kind : \A i \in 1 .. Len(rs[k]) :
    rs[k][i].kind = k /\ (k = "content" => rs[k][i].pattern \in Seq(STRING))
DefaultsLead(rules, master) ==
  /\ Len(rules) >= 7
  /\ \A i \in 1 .. 7 : rules[i] = DefaultOverride(master)[i]

RulesInv(rs) ==
  /\ \E S : UserRule \subseteq S /\ rs \in [Kind -> Seq(S)]
  /\ OfTheirKind(rs)
  /\ \E master \in BOOLEAN : DefaultsLead(rs["override"], master)

(* The inductive invariant.                                                *)
PushInv == event \in Event /\ context \in Context /\ RulesInv(ruleset)

(* The kinds of the predefined rules.                                      *)
DefaultsAreShaped ==
  /\ \A master \in BOOLEAN : Master(master).kind = "override"
  /\ \A r \in {SuppressNotices, InviteForMe, MemberEvent, ContainsDisplayName, Tombstone, Roomnotif, Reaction} :
       r.kind = "override"
  /\ \A r \in {CallInvite, EncryptedRoomOneToOne, RoomOneToOne, RoomMessage, RoomEncrypted} : r.kind = "underride"
  /\ ContainsUserName.kind = "content" /\ ContainsUserName.pattern \in Seq(STRING)

(* They are in the lists of their kinds.                                   *)
LEMMA DefaultKinds == DefaultsAreShaped
<1>1. \A master \in BOOLEAN : Master(master).kind = "override"
  BY DEF Master, Override, Conditional
<1>2. /\ SuppressNotices.kind = "override" /\ InviteForMe.kind = "override" /\ MemberEvent.kind = "override"
      /\ ContainsDisplayName.kind = "override" /\ Tombstone.kind = "override" /\ Roomnotif.kind = "override"
      /\ Reaction.kind = "override"
  BY DEF SuppressNotices, InviteForMe, MemberEvent, ContainsDisplayName, Tombstone, Roomnotif, Reaction,
         Override, Conditional
<1>3. /\ CallInvite.kind = "underride" /\ EncryptedRoomOneToOne.kind = "underride"
      /\ RoomOneToOne.kind = "underride" /\ RoomMessage.kind = "underride" /\ RoomEncrypted.kind = "underride"
  BY DEF CallInvite, EncryptedRoomOneToOne, RoomOneToOne, RoomMessage, RoomEncrypted, Underride, Conditional
<1>4. ContainsUserName.kind = "content" /\ ContainsUserName.pattern \in Seq(STRING)
  BY TextAssumption DEF ContainsUserName
<1>5. QED
  BY <1>1, <1>2, <1>3, <1>4 DEF DefaultsAreShaped

(* The predefined override rules, with or without the one for reactions.   *)
LEMMA DefaultOverrideIs ==
  ASSUME NEW master \in BOOLEAN, NEW S, Master(master) \in S,
         {SuppressNotices, InviteForMe, MemberEvent, ContainsDisplayName, Tombstone, Roomnotif, Reaction} \subseteq S
  PROVE  LET o == DefaultOverride(master)
         IN  /\ o \in Seq(S) /\ Len(o) \in {7, 8}
             /\ o[1] = Master(master) /\ o[2] = SuppressNotices /\ o[3] = InviteForMe /\ o[4] = MemberEvent
             /\ o[5] = ContainsDisplayName /\ o[6] = Tombstone /\ o[7] = Roomnotif
             /\ Len(o) = 8 => o[8] = Reaction
<1>. DEFINE a == <<Master(master), SuppressNotices, InviteForMe, MemberEvent, ContainsDisplayName, Tombstone,
                  Roomnotif>>
            b == IF PreSpec THEN <<Reaction>> ELSE <<>>
            o == Joined(a, b)
<1>1. /\ a \in Seq(S) /\ Len(a) = 7
      /\ a[1] = Master(master) /\ a[2] = SuppressNotices /\ a[3] = InviteForMe /\ a[4] = MemberEvent
      /\ a[5] = ContainsDisplayName /\ a[6] = Tombstone /\ a[7] = Roomnotif
  OBVIOUS
<1>2. /\ b = <<>> \/ b = <<Reaction>>
      /\ <<>> \in Seq(S) /\ Len(<<>>) = 0
      /\ <<Reaction>> \in Seq(S) /\ Len(<<Reaction>>) = 1 /\ <<Reaction>>[1] = Reaction
  <2>1. b = <<>> \/ b = <<Reaction>>
    BY Zenon
  <2>2. <<>> \in Seq(S) /\ Len(<<>>) = 0
    OBVIOUS
  <2>3. <<Reaction>> \in Seq(S) /\ Len(<<Reaction>>) = 1 /\ <<Reaction>>[1] = Reaction
    OBVIOUS
  <2>4. QED
    BY <2>1, <2>2, <2>3, Zenon
<1>3. DefaultOverride(master) = o
  BY Zenon DEF DefaultOverride, Joined
<1>. HIDE DEF a, b
<1>8. b \in Seq(S) /\ (Len(b) = 0 \/ (Len(b) = 1 /\ b[1] = Reaction))
  <2>1. CASE b = <<>>
    BY <1>2, <2>1, Zenon
  <2>2. CASE b = <<Reaction>>
    BY <1>2, <2>2, Zenon
  <2>3. QED
    BY <1>2, <2>1, <2>2, Zenon
<1>4. /\ o \in Seq(S) /\ Len(o) = 7 + Len(b)
      /\ \A i \in 1 .. 7 : o[i] = a[i]
      /\ \A i \in 1 .. Len(b) : o[7 + i] = b[i]
  <2>1. /\ o \in Seq(S) /\ Len(o) = Len(a) + Len(b)
        /\ \A i \in 1 .. Len(a) : o[i] = a[i]
        /\ \A i \in 1 .. Len(b) : o[Len(a) + i] = b[i]
    <3>1. o \in Seq(S) /\ Continues(a, b, o)
      BY <1>1, <1>8, JoinedIs
    <3>2. QED
      BY <3>1 DEF Continues
  <2>2. QED
    BY <1>1, <2>1
<1>. HIDE DEF o
<1>5. Len(o) \in {7, 8} /\ (Len(o) = 8 => o[8] = Reaction)
  <2>1. CASE Len(b) = 0
    BY <1>4, <2>1
  <2>2. CASE Len(b) = 1 /\ b[1] = Reaction
    <3>1. 1 \in 1 .. Len(b) /\ 7 + 1 = 8 /\ Len(o) = 8
      BY <1>4, <2>2
    <3>2. o[8] = Reaction
      BY <1>4, <2>2, <3>1
    <3>3. QED
      BY <3>1, <3>2
  <2>3. QED
    BY <1>8, <2>1, <2>2
<1>6. /\ o[1] = Master(master) /\ o[2] = SuppressNotices /\ o[3] = InviteForMe /\ o[4] = MemberEvent
      /\ o[5] = ContainsDisplayName /\ o[6] = Tombstone /\ o[7] = Roomnotif
  BY <1>1, <1>4
<1>7. QED
  BY <1>3, <1>4, <1>5, <1>6

(* The predefined rules are as the invariant says.                         *)
LEMMA DefaultRulesOK ==
  ASSUME NEW master \in BOOLEAN
  PROVE  RulesInv(ServerDefault(master))
<1>. DEFINE S == UserRule \cup {Master(master), SuppressNotices, InviteForMe, MemberEvent, ContainsDisplayName,
                                Tombstone, Roomnotif, Reaction, ContainsUserName, CallInvite, EncryptedRoomOneToOne,
                                RoomOneToOne, RoomMessage, RoomEncrypted}
            rs == ServerDefault(master)
            o == DefaultOverride(master)
<1>1. /\ rs = [k \in Kind |-> rs[k]]
      /\ rs["override"] = DefaultOverride(master) /\ rs["content"] = DefaultContent
      /\ rs["underride"] = DefaultUnderride /\ rs["room"] = <<>> /\ rs["sender"] = <<>>
  <2>1. rs = [k \in Kind |-> rs[k]]
    BY DEF ServerDefault
  <2>2. rs["override"] = DefaultOverride(master)
    BY DEF ServerDefault, Kind
  <2>3. rs["content"] = DefaultContent
    BY DEF ServerDefault, Kind
  <2>4. rs["underride"] = DefaultUnderride
    BY DEF ServerDefault, Kind
  <2>5. rs["room"] = <<>> /\ rs["sender"] = <<>>
    BY DEF ServerDefault, Kind
  <2>6. QED
    BY <2>1, <2>2, <2>3, <2>4, <2>5, Zenon
<1>2. /\ o \in Seq(S) /\ Len(o) \in {7, 8}
      /\ o[1] = Master(master) /\ o[2] = SuppressNotices /\ o[3] = InviteForMe /\ o[4] = MemberEvent
      /\ o[5] = ContainsDisplayName /\ o[6] = Tombstone /\ o[7] = Roomnotif
      /\ Len(o) = 8 => o[8] = Reaction
  <2>1. /\ Master(master) \in S
        /\ {SuppressNotices, InviteForMe, MemberEvent, ContainsDisplayName, Tombstone, Roomnotif, Reaction} \subseteq S
    BY Zenon
  <2>. HIDE DEF S
  <2>2. QED
    BY <2>1, DefaultOverrideIs, Zenon
<1>3. /\ DefaultContent \in Seq(S) /\ Len(DefaultContent) = 1 /\ DefaultContent[1] = ContainsUserName
  BY DEF DefaultContent
<1>4. /\ DefaultUnderride \in Seq(S) /\ Len(DefaultUnderride) = 5
      /\ DefaultUnderride[1] = CallInvite /\ DefaultUnderride[2] = EncryptedRoomOneToOne
      /\ DefaultUnderride[3] = RoomOneToOne /\ DefaultUnderride[4] = RoomMessage /\ DefaultUnderride[5] = RoomEncrypted
  BY DEF DefaultUnderride
<1>5. UserRule \subseteq S /\ <<>> \in Seq(S)
  OBVIOUS
<1>. HIDE DEF S, rs, o
<1>6. rs \in [Kind -> Seq(S)]
  <2>1. \A k \in Kind : rs[k] \in Seq(S)
    BY <1>1, <1>2, <1>3, <1>4, <1>5 DEF Kind, o
  <2>2. QED
    BY <1>1, <2>1
<1>7. OfTheirKind(rs)
  <2>. SUFFICES ASSUME NEW k \in Kind, NEW i \in 1 .. Len(rs[k])
                PROVE  rs[k][i].kind = k /\ (k = "content" => rs[k][i].pattern \in Seq(STRING))
    BY DEF OfTheirKind
  <2>1. CASE k = "override"
    <3>1. rs[k] = o
      BY <1>1, <2>1 DEF o
    <3>2. i \in 1 .. 8 /\ (i = 8 => Len(o) = 8)
      <4>1. i \in 1 .. Len(o)
        BY <3>1, Zenon
      <4>2. Len(o) = 7 \/ Len(o) = 8
        BY <1>2
      <4>3. CASE Len(o) = 7
        <5>1. i \in 1 .. 7
          BY <4>1, <4>3, Zenon
        <5>2. QED
          BY <5>1
      <4>4. CASE Len(o) = 8
        <5>1. i \in 1 .. 8
          BY <4>1, <4>4, Zenon
        <5>2. QED
          BY <4>4, <5>1, Zenon
      <4>5. QED
        BY <4>2, <4>3, <4>4
    <3>3. o[i].kind = "override"
      <4>1. /\ Master(master).kind = "override" /\ SuppressNotices.kind = "override" /\ InviteForMe.kind = "override"
            /\ MemberEvent.kind = "override" /\ ContainsDisplayName.kind = "override" /\ Tombstone.kind = "override"
            /\ Roomnotif.kind = "override" /\ Reaction.kind = "override"
        BY DefaultKinds DEF DefaultsAreShaped
      <4>2. i = 1 \/ i = 2 \/ i = 3 \/ i = 4 \/ i = 5 \/ i = 6 \/ i = 7 \/ i = 8
        BY <3>2
      <4>3. QED
        BY <1>2, <3>2, <4>1, <4>2
    <3>4. QED
      BY <2>1, <3>1, <3>3
  <2>2. CASE k = "content"
    <3>1. rs[k][i] = ContainsUserName
      BY <1>1, <1>3, <2>2
    <3>2. QED
      BY <2>2, <3>1, DefaultKinds DEF DefaultsAreShaped
  <2>3. CASE k = "underride"
    <3>1. i = 1 \/ i = 2 \/ i = 3 \/ i = 4 \/ i = 5
      <4>1. i \in 1 .. 5
        BY <1>1, <1>4, <2>3, Zenon
      <4>2. QED
        BY <4>1
    <3>2. rs[k][i] \in {CallInvite, EncryptedRoomOneToOne, RoomOneToOne, RoomMessage, RoomEncrypted}
      BY <1>1, <1>4, <2>3, <3>1
    <3>3. QED
      BY <2>3, <3>2, DefaultKinds DEF DefaultsAreShaped
  <2>4. CASE k \in {"room", "sender"}
    BY <1>1, <2>4
  <2>5. QED
    BY <2>1, <2>2, <2>3, <2>4 DEF Kind
<1>8. DefaultsLead(rs["override"], master)
  BY <1>1, <1>2 DEF DefaultsLead, o
<1>9. QED
  BY <1>5, <1>6, <1>7, <1>8 DEF RulesInv, rs

(* Adding a rule keeps what is there and puts the new rule last of its kind.*)
LEMMA InsertKeeps ==
  ASSUME NEW S, NEW rs \in [Kind -> Seq(S)], NEW rule \in S, rule.kind \in Kind
  PROVE  LET k   == rule.kind
             new == [rs EXCEPT ![k] = Insert(@, rule)]
         IN  \/ HasId(rs[k], rule) /\ new = rs
             \/ /\ ~HasId(rs[k], rule) /\ new \in [Kind -> Seq(S)]
                /\ new[k] = Added(rs[k], rule) /\ \A j \in Kind \ {k} : new[j] = rs[j]
<1>1. CASE HasId(rs[rule.kind], rule)
  BY <1>1 DEF Insert
<1>2. CASE ~HasId(rs[rule.kind], rule)
  BY <1>2 DEF Insert, Added
<1>3. QED
  BY <1>1, <1>2

(* Adding a rule keeps the kinds apart and the predefined rules in front.  *)
LEMMA RulesStayOK ==
  ASSUME RulesInv(ruleset), NEW rule \in UserRule, Add(rule)
  PROVE  RulesInv(ruleset')
<1>. DEFINE k == rule.kind
<1>1. PICK S : UserRule \subseteq S /\ ruleset \in [Kind -> Seq(S)]
  BY DEF RulesInv
<1>2. k \in Kind /\ (k = "content" => rule.pattern \in Seq(STRING))
  BY RuleAssumption DEF Kind
<1>3. \/ ruleset' = ruleset
      \/ /\ ruleset' \in [Kind -> Seq(S)] /\ ruleset'[k] = Added(ruleset[k], rule)
         /\ \A j \in Kind \ {k} : ruleset'[j] = ruleset[j]
  BY <1>1, <1>2, InsertKeeps DEF Add
<1>4. CASE ruleset' = ruleset
  BY <1>4
<1>5. CASE /\ ruleset' \in [Kind -> Seq(S)] /\ ruleset'[k] = Added(ruleset[k], rule)
           /\ \A j \in Kind \ {k} : ruleset'[j] = ruleset[j]
  <2>. DEFINE a == ruleset[k]
              b == ruleset'[k]
  <2>1. /\ a \in Seq(S) /\ b \in Seq(S) /\ Len(b) = Len(a) + 1 /\ b[Len(b)] = rule
        /\ \A i \in 1 .. Len(a) : b[i] = a[i]
    BY <1>1, <1>2, <1>5 DEF Added
  <2>2. OfTheirKind(ruleset')
    <3>. SUFFICES ASSUME NEW j \in Kind, NEW i \in 1 .. Len(ruleset'[j])
                  PROVE  ruleset'[j][i].kind = j /\ (j = "content" => ruleset'[j][i].pattern \in Seq(STRING))
      BY DEF OfTheirKind
    <3>1. CASE j # k
      BY <1>5, <3>1 DEF RulesInv, OfTheirKind
    <3>2. CASE j = k /\ i = Len(b)
      BY <1>2, <2>1, <3>2
    <3>3. CASE j = k /\ i # Len(b)
      <4>1. i \in 1 .. Len(a) /\ ruleset'[j][i] = a[i]
        BY <2>1, <3>3
      <4>2. QED
        BY <1>2, <3>3, <4>1 DEF RulesInv, OfTheirKind
    <3>4. QED
      BY <3>1, <3>2, <3>3
  <2>3. \E master \in BOOLEAN : DefaultsLead(ruleset'["override"], master)
    <3>1. PICK master \in BOOLEAN : DefaultsLead(ruleset["override"], master)
      BY DEF RulesInv
    <3>2. CASE k # "override"
      BY <1>5, <3>1, <3>2 DEF Kind
    <3>3. CASE k = "override"
      <4>1. ruleset["override"] = a /\ ruleset'["override"] = b
        BY <3>3
      <4>. HIDE DEF a, b
      <4>2. \A i \in 1 .. 7 : b[i] = DefaultOverride(master)[i]
        <5>1. Len(a) >= 7 /\ Len(a) \in Nat /\ \A i \in 1 .. 7 : a[i] = DefaultOverride(master)[i]
          BY <2>1, <3>1, <4>1 DEF DefaultsLead
        <5>2. \A i \in 1 .. 7 : i \in 1 .. Len(a)
          BY <5>1
        <5>3. QED
          BY <2>1, <5>1, <5>2, Zenon
      <4>3. QED
        BY <2>1, <3>1, <4>1, <4>2 DEF DefaultsLead
    <3>4. QED
      BY <3>2, <3>3
  <2>4. QED
    BY <1>1, <1>5, <2>2, <2>3 DEF RulesInv
<1>6. QED
  BY <1>3, <1>4, <1>5

(* A ruleset to which Ruleset::add added any rules has the predefined      *)
(* override rules in front of the others, and every rule in its kind.      *)
THEOREM PushInvariant == SpecPR => []PushInv
<1>1. InitPR => PushInv
  BY DefaultRulesOK DEF InitPR, PushInv
<1>2. PushInv /\ [NextPR]_varsPR => PushInv'
  <2>. SUFFICES ASSUME PushInv, [NextPR]_varsPR PROVE PushInv'
    OBVIOUS
  <2>1. ASSUME NEW rule \in UserRule, Add(rule) PROVE PushInv'
    BY <2>1, RulesStayOK DEF PushInv, Add
  <2>2. CASE UNCHANGED varsPR
    BY <2>2 DEF varsPR, PushInv
  <2>3. QED
    BY <2>1, <2>2 DEF NextPR
<1>3. QED
  BY <1>1, <1>2, PTL DEF SpecPR

-----------------------------------------------------------------------------
(* The texts of an event and their lower case are texts.                   *)
LEMMA FlatTexts ==
  ASSUME NEW e \in Event, NEW key \in DOMAIN FlattenedJson(e)
  PROVE  FlattenedJson(e)[key] \in Seq(STRING)
<1>. DEFINE at == {i \in DOMAIN e : e[i].path = key /\ e[i].scalar}
<1>1. e \in Seq([path : STRING, scalar : BOOLEAN, value : Seq(STRING)])
  BY EventAssumption
<1>2. key \in {e[i].path : i \in {j \in DOMAIN e : e[j].scalar}}
  BY DEF FlattenedJson
<1>3. at # {} /\ at \subseteq 0 .. Len(e) /\ at \subseteq DOMAIN e
  BY <1>1, <1>2
<1>4. Max(at) \in at
  <2>. HIDE DEF at
  <2>1. QED
    BY <1>1, <1>3, MaxIsGreatest
<1>5. FlattenedJson(e)[key] = e[Max(at)].value
  BY <1>2 DEF FlattenedJson
<1>. HIDE DEF at
<1>6. e[Max(at)].value \in Seq(STRING)
  <2>. DEFINE n == Max(at)
  <2>1. n \in DOMAIN e
    BY <1>3, <1>4, Zenon
  <2>. HIDE DEF n
  <2>2. e[n] \in [path : STRING, scalar : BOOLEAN, value : Seq(STRING)]
    <3>. DEFINE Leaf == [path : STRING, scalar : BOOLEAN, value : Seq(STRING)]
    <3>1. e \in Seq(Leaf)
      BY <1>1
    <3>. HIDE DEF Leaf
    <3>2. e[n] \in Leaf
      BY <2>1, <3>1
    <3>3. QED
      BY <3>2 DEF Leaf
  <2>3. e[n].value \in Seq(STRING)
    BY <2>2
  <2>4. QED
    BY <2>3, Zenon DEF n
<1>7. QED
  BY <1>5, <1>6

(* The lower case of a text is a text as long as it.                       *)
LEMMA LowercaseText ==
  ASSUME NEW s \in Seq(STRING)
  PROVE  Lowercase(s) \in Seq(STRING) /\ Len(Lowercase(s)) = Len(s)
<1>1. \A i \in 1 .. Len(s) : (IF s[i] \in DOMAIN Capital THEN Capital[s[i]] ELSE s[i]) \in STRING
  BY TextAssumption
<1>2. QED
  BY <1>1 DEF Lowercase

(* The same, of sequences of anything.                                     *)
LEMMA LowercaseDomain ==
  ASSUME NEW T, NEW p \in Seq(T)
  PROVE  DOMAIN Lowercase(p) = 1 .. Len(p)
  BY DEF Lowercase

(* No pattern becomes `*' that is not.                                     *)
LEMMA LowercaseStar ==
  ASSUME NEW T, NEW p \in Seq(T), Lowercase(p) = <<"*">>
  PROVE  p = <<"*">>
<1>1. DOMAIN Lowercase(p) = 1 .. Len(p) /\ DOMAIN Lowercase(p) = 1 .. 1
  <2>1. DOMAIN Lowercase(p) = 1 .. Len(p)
    BY LowercaseDomain
  <2>2. DOMAIN <<"*">> = 1 .. 1
    OBVIOUS
  <2>3. QED
    BY <2>1, <2>2, Zenon
<1>2. Len(p) = 1
  BY <1>1
<1>3. Lowercase(p)[1] = "*"
  OBVIOUS
<1>4. p[1] = "*"
  BY <1>2, <1>3, TextAssumption DEF Lowercase
<1>5. QED
  BY <1>2, <1>4

(* The body says p: p stands in it, in upper or lower case.                *)
Says(flat, p) == "content.body" \in DOMAIN flat /\ HasWords(Lowercase(flat["content.body"]), Lowercase(p))

(* The search in the body of an event finds what the body says.            *)
LEMMA WordsInBody ==
  ASSUME NEW e \in Event, NEW p \in Seq(STRING)
  PROVE  LET flat == FlattenedJson(e)
         IN  "content.body" \in DOMAIN flat =>
               (MatchesPattern(flat["content.body"], p, TRUE) <=> Says(flat, p))
<1>. DEFINE flat == FlattenedJson(e)
            body == flat["content.body"]
<1>. SUFFICES ASSUME "content.body" \in DOMAIN flat PROVE MatchesPattern(body, p, TRUE) <=> Says(flat, p)
  OBVIOUS
<1>1. body \in Seq(STRING)
  BY FlatTexts
<1>. HIDE DEF body
<1>2. Lowercase(body) \in Seq(STRING) /\ Lowercase(p) \in Seq(STRING)
  BY <1>1, LowercaseText
<1>3. MatchesWord(Lowercase(body), Lowercase(p)) <=> HasWords(Lowercase(body), Lowercase(p))
  BY <1>2, MatchesWordIsHasWords
<1>4. QED
  BY <1>3, Zenon DEF MatchesPattern, Says, body

(* matches_word is right about the display name, "@room" and the patterns  *)
(* of all content rules, in any body.                                      *)
THEOREM WordsAreFound == SpecPR => []WordMatchIsReference
<1>1. PushInv => WordMatchIsReference
  <2>. SUFFICES ASSUME PushInv, "content.body" \in DOMAIN FlattenedJson(event),
                       NEW p \in {context.user_display_name, RoomPing}
                                   \cup {ruleset["content"][i].pattern : i \in DOMAIN ruleset["content"]}
                PROVE  MatchesPattern(FlattenedJson(event)["content.body"], p, TRUE)
                         <=> HasWords(Lowercase(FlattenedJson(event)["content.body"]), Lowercase(p))
    BY Zenon DEF WordMatchIsReference
  <2>1. p \in Seq(STRING)
    <3>1. CASE p \in {context.user_display_name, RoomPing}
      BY <3>1, TextAssumption, EventAssumption DEF PushInv
    <3>2. CASE p \in {ruleset["content"][i].pattern : i \in DOMAIN ruleset["content"]}
      <4>1. PICK S : ruleset \in [Kind -> Seq(S)]
        BY DEF PushInv, RulesInv
      <4>2. DOMAIN ruleset["content"] = 1 .. Len(ruleset["content"])
        BY <4>1 DEF Kind
      <4>3. QED
        BY <3>2, <4>2 DEF PushInv, RulesInv, OfTheirKind, Kind
    <3>3. QED
      BY <3>1, <3>2
  <2>2. QED
    BY <2>1, WordsInBody, Zenon DEF PushInv, Says
<1>2. QED
  BY <1>1, PushInvariant, PTL

(* A rule that Ruleset::add adds decides only about events which it matches *)
(* and which no rule of its kind or of a higher one decided before.        *)
THEOREM FirstMatchAlwaysStands == SpecPR => FirstMatchStands
<1>. DEFINE before == GetMatch(ruleset, event, context)
            after  == GetMatch(ruleset', event', context')
            Changes == \E rule \in UserRule :
                         Add(rule) /\ after = rule /\ Rank(rule.kind) < Rank(before.kind)
<1>1. PushInv /\ [NextPR]_varsPR => (after # before => Changes)
  <2>. SUFFICES ASSUME PushInv, [NextPR]_varsPR, after # before PROVE Changes
    OBVIOUS
  <2>1. PICK rule \in UserRule : Add(rule)
    BY DEF NextPR, varsPR
  <2>. DEFINE flat == FlattenedJson(event)
              k == rule.kind
  <2>2. UNCHANGED <<event, context>>
    BY <2>1 DEF Add
  <2>3. before = First(Iter(ruleset), flat, context) /\ after = First(Iter(ruleset'), flat, context)
    BY <2>2 DEF GetMatch, First, Matching
  <2>4. PICK S : UserRule \subseteq S /\ ruleset \in [Kind -> Seq(S)]
    BY DEF PushInv, RulesInv
  <2>5. k \in Kind
    BY RuleAssumption DEF Kind
  <2>6. /\ ruleset' \in [Kind -> Seq(S)] /\ ruleset'[k] = Added(ruleset[k], rule)
        /\ \A j \in Kind \ {k} : ruleset'[j] = ruleset[j]
    <3>1. ruleset' # ruleset
      BY <2>2
    <3>2. QED
      BY <2>1, <2>4, <2>5, <3>1, InsertKeeps DEF Add
  <2>7. \A j \in Kind : Some(ruleset, j, flat, context) => First(ruleset[j], flat, context).kind = j
    <3>. SUFFICES ASSUME NEW j \in Kind, Some(ruleset, j, flat, context)
                  PROVE  First(ruleset[j], flat, context).kind = j
      OBVIOUS
    <3>1. ruleset[j] \in Seq(S)
      BY <2>4
    <3>2. PICK i : IsFirst(ruleset[j], i, flat, context) /\ First(ruleset[j], flat, context) = ruleset[j][i]
      BY <3>1, FirstExists DEF Some
    <3>3. i \in 1 .. Len(ruleset[j])
      BY <3>2 DEF IsFirst
    <3>4. QED
      BY <3>2, <3>3 DEF PushInv, RulesInv, OfTheirKind
  <2>8. \A j \in Kind : ~Some(ruleset, j, flat, context) => First(ruleset[j], flat, context) = NoRule
    BY DEF Some, First
  <2>9. /\ Some(ruleset', k, flat, context) <=> Some(ruleset, k, flat, context) \/ Applies(rule, flat, context)
        /\ Some(ruleset, k, flat, context) => First(ruleset'[k], flat, context) = First(ruleset[k], flat, context)
        /\ ~Some(ruleset, k, flat, context) /\ Applies(rule, flat, context) => First(ruleset'[k], flat, context) = rule
    <3>1. ruleset[k] \in Seq(S) /\ rule \in S
      BY <2>4, <2>5
    <3>2. Extends(ruleset[k], rule, ruleset'[k], flat, context)
      BY <2>6, <3>1, FirstOfAppend
    <3>3. QED
      BY <3>2, Zenon DEF Some, Extends
  <2>10. \A j \in Kind \ {k} : /\ Some(ruleset', j, flat, context) <=> Some(ruleset, j, flat, context)
                               /\ First(ruleset'[j], flat, context) = First(ruleset[j], flat, context)
    BY <2>6 DEF Some
  <2>11. ~Some(ruleset', k, flat, context) => First(ruleset'[k], flat, context) = NoRule
    BY DEF Some, First
  <2>12. /\ ByKinds(ruleset, before, flat, context)
         /\ ByKinds(ruleset', after, flat, context)
    BY <2>3, <2>4, <2>6, KindsInOrder
  <2>. HIDE DEF flat, before, after
  <2>13. ~Some(ruleset, k, flat, context) /\ Applies(rule, flat, context)
    <3>. SUFFICES ASSUME Some(ruleset, k, flat, context) \/ ~Applies(rule, flat, context) PROVE FALSE
      OBVIOUS
    <3>1. /\ Some(ruleset', k, flat, context) <=> Some(ruleset, k, flat, context)
          /\ First(ruleset'[k], flat, context) = First(ruleset[k], flat, context)
      BY <2>5, <2>8, <2>9, <2>11
    <3>2. \A j \in Kind : /\ Some(ruleset', j, flat, context) <=> Some(ruleset, j, flat, context)
                          /\ First(ruleset'[j], flat, context) = First(ruleset[j], flat, context)
      BY <2>10, <3>1
    <3>3. QED
      BY <2>12, <3>2 DEF ByKinds, Kind
  <2>14. Some(ruleset', k, flat, context) /\ First(ruleset'[k], flat, context) = rule
    BY <2>9, <2>13
  <2>15. /\ NoRule.kind = "none" /\ Rank("none") = 6
         /\ Rank("override") = 1 /\ Rank("content") = 2 /\ Rank("room") = 3 /\ Rank("sender") = 4
         /\ Rank("underride") = 5
    BY DEF NoRule, Rank
  <2>16. after = rule /\ Rank(k) < Rank(before.kind)
    <3>. HIDE DEF k
    <3>1. CASE k = "override"
      BY <2>7, <2>8, <2>10, <2>12, <2>13, <2>14, <2>15, <3>1 DEF ByKinds, Kind
    <3>2. CASE k = "content"
      BY <2>7, <2>8, <2>10, <2>12, <2>13, <2>14, <2>15, <3>2 DEF ByKinds, Kind
    <3>3. CASE k = "room"
      BY <2>7, <2>8, <2>10, <2>12, <2>13, <2>14, <2>15, <3>3 DEF ByKinds, Kind
    <3>4. CASE k = "sender"
      BY <2>7, <2>8, <2>10, <2>12, <2>13, <2>14, <2>15, <3>4 DEF ByKinds, Kind
    <3>5. CASE k = "underride"
      BY <2>7, <2>8, <2>10, <2>12, <2>13, <2>14, <2>15, <3>5 DEF ByKinds, Kind
    <3>6. QED
      BY <2>5, <3>1, <3>2, <3>3, <3>4, <3>5 DEF Kind
  <2>17. QED
    BY <2>1, <2>16 DEF before, after
<1>2. QED
  BY <1>1, PushInvariant, PTL DEF SpecPR, FirstMatchStands

-----------------------------------------------------------------------------
(* What the conditions of the predefined rules ask of an event.            *)
LEMMA EventMatchIs ==
  ASSUME NEW flat, NEW ctx, NEW key, NEW p
  PROVE  ConditionApplies(EventMatch(key, p), flat, ctx) <=> CheckEventMatch(flat, key, p, ctx)
<1>. DEFINE c == EventMatch(key, p)
<1>1. c.kind = "event_match" /\ c.key = key /\ c.pattern = p
  BY DEF EventMatch
<1>. HIDE DEF c
<1>2. ConditionApplies(c, flat, ctx) <=> CheckEventMatch(flat, c.key, c.pattern, ctx)
  BY <1>1 DEF ConditionApplies
<1>3. QED
  BY <1>1, <1>2, Zenon DEF c

(* The event has p at key, in upper or lower case.                         *)
Is(flat, key, p) == key \in DOMAIN flat /\ Lowercase(flat[key]) = Lowercase(p)

(* A condition on a name or an identifier is no wildcard.                  *)
LEMMA NameMatchIs ==
  ASSUME NEW flat, NEW ctx, NEW key, key \notin {"room_id", "content.body"},
         NEW T, NEW p \in Seq(T), p # <<"*">>
  PROVE  ConditionApplies(EventMatch(key, p), flat, ctx) <=> Is(flat, key, p)
<1>1. Lowercase(p) # <<"*">>
  BY LowercaseStar
<1>2. MatchesPattern(flat[key], p, key = "content.body") <=> Lowercase(flat[key]) = Lowercase(p)
  BY <1>1, Zenon DEF MatchesPattern, WildMatches
<1>3. CheckEventMatch(flat, key, p, ctx) <=> Is(flat, key, p)
  BY <1>2, Zenon DEF CheckEventMatch, Is
<1>4. QED
  BY <1>3, EventMatchIs

(* An override rule applies if it is enabled and its conditions hold.      *)
LEMMA OverrideApplies ==
  ASSUME NEW flat, NEW ctx, NEW id, NEW enabled \in BOOLEAN, NEW conditions, NEW actions
  PROVE  /\ Applies(Override(id, enabled, conditions, actions), flat, ctx)
              <=> enabled /\ \A i \in DOMAIN conditions : ConditionApplies(conditions[i], flat, ctx)
         /\ Override(id, enabled, conditions, actions).actions = actions
<1>. DEFINE r == Override(id, enabled, conditions, actions)
<1>1. /\ r.kind = "override" /\ r.enabled = enabled /\ r.conditions = conditions /\ r.actions = actions
  BY DEF Override, Conditional
<1>. HIDE DEF r
<1>2. Applies(r, flat, ctx) <=> r.enabled /\ \A i \in DOMAIN r.conditions : ConditionApplies(r.conditions[i], flat, ctx)
  BY <1>1 DEF Applies
<1>3. QED
  BY <1>1, <1>2, Zenon DEF r

(* The sender may notify the whole room.                                   *)
Loud(flat, ctx) ==
  /\ "sender" \in DOMAIN flat /\ flat["sender"] \in UserId
  /\ SenderLevel(flat["sender"], ctx) >= ctx.notification_power_level

(* Which events the predefined override rules are about.                   *)
DefaultsMean(flat, ctx) ==
  /\ \A master \in BOOLEAN : Applies(Master(master), flat, ctx) <=> master
  /\ Applies(SuppressNotices, flat, ctx) <=> Is(flat, "content.msgtype", <<"m.notice">>)
  /\ Applies(InviteForMe, flat, ctx) <=>
       /\ Is(flat, "type", <<"m.room.member">>) /\ Is(flat, "content.membership", <<"invite">>)
       /\ Is(flat, "state_key", Me)
  /\ Applies(MemberEvent, flat, ctx) <=> Is(flat, "type", <<"m.room.member">>)
  /\ Applies(ContainsDisplayName, flat, ctx) <=> Says(flat, ctx.user_display_name)
  /\ ~Applies(Tombstone, flat, ctx)
  /\ Applies(Roomnotif, flat, ctx) <=> Says(flat, RoomPing) /\ Loud(flat, ctx)

(* They apply to these events.                                             *)
LEMMA WhatTheyMean ==
  ASSUME NEW e \in Event, NEW ctx \in Context
  PROVE  DefaultsMean(FlattenedJson(e), ctx)
<1>. DEFINE flat == FlattenedJson(e)
<1>1. \A master \in BOOLEAN : Applies(Master(master), flat, ctx) <=> master
  <2>. SUFFICES ASSUME NEW master \in BOOLEAN PROVE Applies(Master(master), flat, ctx) <=> master
    OBVIOUS
  <2>1. Applies(Master(master), flat, ctx)
          <=> master /\ \A i \in DOMAIN <<>> : ConditionApplies(<<>>[i], flat, ctx)
    BY OverrideApplies, Zenon DEF Master
  <2>2. DOMAIN <<>> = {}
    OBVIOUS
  <2>3. QED
    BY <2>1, <2>2, Zenon
<1>2. \A T, key, p : key \notin {"room_id", "content.body"} /\ p \in Seq(T) /\ p # <<"*">> =>
        (ConditionApplies(EventMatch(key, p), flat, ctx) <=> Is(flat, key, p))
  BY NameMatchIs
<1>3. \A t : t # "*" =>
        \A key : key \notin {"room_id", "content.body"} =>
             (ConditionApplies(EventMatch(key, <<t>>), flat, ctx) <=> Is(flat, key, <<t>>))
  <2>. SUFFICES ASSUME NEW t, t # "*", NEW key, key \notin {"room_id", "content.body"}
                PROVE  ConditionApplies(EventMatch(key, <<t>>), flat, ctx) <=> Is(flat, key, <<t>>)
    OBVIOUS
  <2>1. <<t>> \in Seq({t}) /\ <<t>> # <<"*">>
    OBVIOUS
  <2>2. QED
    BY <1>2, <2>1, Zenon
<1>4. Applies(SuppressNotices, flat, ctx) <=> Is(flat, "content.msgtype", <<"m.notice">>)
  <2>. DEFINE c == <<EventMatch("content.msgtype", <<"m.notice">>)>>
  <2>1. Applies(SuppressNotices, flat, ctx) <=> \A i \in DOMAIN c : ConditionApplies(c[i], flat, ctx)
    BY OverrideApplies, Zenon DEF SuppressNotices
  <2>2. DOMAIN c = {1} /\ c[1] = EventMatch("content.msgtype", <<"m.notice">>)
    OBVIOUS
  <2>. HIDE DEF c
  <2>3. ConditionApplies(c[1], flat, ctx) <=> Is(flat, "content.msgtype", <<"m.notice">>)
    <3>1. "content.msgtype" \notin {"room_id", "content.body"}
      OBVIOUS
    <3>2. "m.notice" # "*"
      BY Zenon
    <3>3. QED
      BY <1>3, <2>2, <3>1, <3>2, Zenon
  <2>4. QED
    BY <2>1, <2>2, <2>3, Zenon
<1>5. Applies(MemberEvent, flat, ctx) <=> Is(flat, "type", <<"m.room.member">>)
  <2>. DEFINE c == <<OfType("m.room.member")>>
  <2>1. Applies(MemberEvent, flat, ctx) <=> \A i \in DOMAIN c : ConditionApplies(c[i], flat, ctx)
    BY OverrideApplies, Zenon DEF MemberEvent
  <2>2. DOMAIN c = {1} /\ c[1] = EventMatch("type", <<"m.room.member">>)
    BY DEF OfType
  <2>. HIDE DEF c
  <2>3. ConditionApplies(c[1], flat, ctx) <=> Is(flat, "type", <<"m.room.member">>)
    <3>1. "type" \notin {"room_id", "content.body"}
      OBVIOUS
    <3>2. "m.room.member" # "*"
      BY Zenon
    <3>3. QED
      BY <1>3, <2>2, <3>1, <3>2, Zenon
  <2>4. QED
    BY <2>1, <2>2, <2>3, Zenon
<1>6. Applies(InviteForMe, flat, ctx) <=>
        /\ Is(flat, "type", <<"m.room.member">>) /\ Is(flat, "content.membership", <<"invite">>)
        /\ Is(flat, "state_key", Me)
  <2>. DEFINE c == <<OfType("m.room.member"), EventMatch("content.membership", <<"invite">>),
                     EventMatch("state_key", Me)>>
  <2>1. Applies(InviteForMe, flat, ctx) <=> \A i \in DOMAIN c : ConditionApplies(c[i], flat, ctx)
    BY OverrideApplies, Zenon DEF InviteForMe
  <2>2. /\ DOMAIN c = {1, 2, 3} /\ c[1] = EventMatch("type", <<"m.room.member">>)
        /\ c[2] = EventMatch("content.membership", <<"invite">>) /\ c[3] = EventMatch("state_key", Me)
    BY DEF OfType
  <2>. HIDE DEF c
  <2>3. ConditionApplies(c[1], flat, ctx) <=> Is(flat, "type", <<"m.room.member">>)
    <3>1. "type" \notin {"room_id", "content.body"}
      OBVIOUS
    <3>2. "m.room.member" # "*"
      BY Zenon
    <3>3. QED
      BY <1>3, <2>2, <3>1, <3>2, Zenon
  <2>4. ConditionApplies(c[2], flat, ctx) <=> Is(flat, "content.membership", <<"invite">>)
    <3>1. "content.membership" \notin {"room_id", "content.body"}
      OBVIOUS
    <3>2. "invite" # "*"
      BY Zenon
    <3>3. QED
      BY <1>3, <2>2, <3>1, <3>2, Zenon
  <2>5. ConditionApplies(c[3], flat, ctx) <=> Is(flat, "state_key", Me)
    <3>1. Me \in Seq(STRING) /\ Me # <<"*">> /\ "state_key" \notin {"room_id", "content.body"}
      BY TextAssumption
    <3>2. QED
      BY <1>2, <2>2, <3>1, Zenon
  <2>6. QED
    BY <2>1, <2>2, <2>3, <2>4, <2>5, Zenon
<1>7. Applies(ContainsDisplayName, flat, ctx) <=> Says(flat, ctx.user_display_name)
  <2>. DEFINE d == [kind |-> "contains_display_name"]
              c == <<d>>
  <2>1. Applies(ContainsDisplayName, flat, ctx) <=> \A i \in DOMAIN c : ConditionApplies(c[i], flat, ctx)
    BY OverrideApplies, Zenon DEF ContainsDisplayName
  <2>2. DOMAIN c = {1} /\ c[1] = d
    OBVIOUS
  <2>3. d.kind = "contains_display_name"
    OBVIOUS
  <2>. HIDE DEF c, d, flat
  <2>4. ConditionApplies(d, flat, ctx) <=>
          "content.body" \in DOMAIN flat /\ MatchesPattern(flat["content.body"], ctx.user_display_name, TRUE)
    BY <2>3 DEF ConditionApplies
  <2>5. ConditionApplies(d, flat, ctx) <=> Says(flat, ctx.user_display_name)
    <3>1. ctx.user_display_name \in Seq(STRING)
      BY EventAssumption
    <3>2. "content.body" \in DOMAIN flat =>
               (MatchesPattern(flat["content.body"], ctx.user_display_name, TRUE) <=> Says(flat, ctx.user_display_name))
      BY <3>1, WordsInBody DEF flat
    <3>3. QED
      BY <2>4, <3>2, Zenon DEF Says
  <2>6. QED
    BY <2>1, <2>2, <2>5, Zenon
<1>8. ~Applies(Tombstone, flat, ctx)
  BY OverrideApplies, Zenon DEF Tombstone
<1>9. Applies(Roomnotif, flat, ctx) <=> Says(flat, RoomPing) /\ Loud(flat, ctx)
  <2>. DEFINE d == [kind |-> "sender_notification_permission", key |-> "room"]
              c == <<EventMatch("content.body", RoomPing), d>>
  <2>1. Applies(Roomnotif, flat, ctx) <=> \A i \in DOMAIN c : ConditionApplies(c[i], flat, ctx)
    BY OverrideApplies, Zenon DEF Roomnotif
  <2>2. DOMAIN c = {1, 2} /\ c[1] = EventMatch("content.body", RoomPing) /\ c[2] = d
    OBVIOUS
  <2>3. d.kind = "sender_notification_permission" /\ d.key = "room"
    OBVIOUS
  <2>. HIDE DEF c, d, flat
  <2>4. ConditionApplies(d, flat, ctx) <=> Loud(flat, ctx)
    BY <2>3 DEF ConditionApplies, Loud
  <2>5. ConditionApplies(c[1], flat, ctx) <=> Says(flat, RoomPing)
    <3>1. RoomPing \in Seq(STRING)
      BY TextAssumption
    <3>2. "content.body" \in DOMAIN flat =>
               (MatchesPattern(flat["content.body"], RoomPing, TRUE) <=> Says(flat, RoomPing))
      BY <3>1, WordsInBody DEF flat
    <3>3. CheckEventMatch(flat, "content.body", RoomPing, ctx) <=>
            "content.body" \in DOMAIN flat /\ MatchesPattern(flat["content.body"], RoomPing, TRUE)
      BY DEF CheckEventMatch
    <3>4. ConditionApplies(c[1], flat, ctx) <=> CheckEventMatch(flat, "content.body", RoomPing, ctx)
      BY <2>2, EventMatchIs
    <3>5. QED
      BY <3>2, <3>3, <3>4, Zenon DEF Says
  <2>6. QED
    BY <2>1, <2>2, <2>4, <2>5, Zenon
<1>10. QED
  BY <1>1, <1>4, <1>5, <1>6, <1>7, <1>8, <1>9, Zenon DEF DefaultsMean

(* The first predefined override rule that applies decides.                *)
LEMMA DefaultDecides ==
  ASSUME PushInv, NEW master \in BOOLEAN, DefaultsLead(ruleset["override"], master),
         NEW i \in 1 .. 7, Applies(ruleset["override"][i], FlattenedJson(event), context),
         \A j \in 1 .. i - 1 : ~Applies(ruleset["override"][j], FlattenedJson(event), context)
  PROVE  GetActions(ruleset, event, context) = ruleset["override"][i].actions
<1>. DEFINE flat == FlattenedJson(event)
            o == ruleset["override"]
            match == GetMatch(ruleset, event, context)
<1>1. PICK S : ruleset \in [Kind -> Seq(S)]
  BY DEF PushInv, RulesInv
<1>2. o \in Seq(S) /\ Len(o) >= 7 /\ Len(o) \in Nat
  BY <1>1 DEF Kind, DefaultsLead
<1>3. i \in 1 .. Len(o) /\ o[i].kind = "override"
  <2>1. i \in 1 .. Len(o)
    BY <1>2
  <2>2. QED
    BY <2>1 DEF PushInv, RulesInv, OfTheirKind, Kind
<1>4. IsFirst(o, i, flat, context)
  BY <1>3 DEF IsFirst
<1>. HIDE DEF flat
<1>5. Matching(o, flat, context) # {} /\ First(o, flat, context) = o[i]
  BY <1>2, <1>4, FirstIs
<1>6. match = First(Iter(ruleset), flat, context)
  BY DEF GetMatch, First, Matching, flat
<1>7. ByKinds(ruleset, First(Iter(ruleset), flat, context), flat, context)
  BY <1>1, KindsInOrder
<1>8. match = o[i]
  BY <1>5, <1>6, <1>7, Zenon DEF ByKinds, Some
<1>9. NoRule.kind = "none"
  BY DEF NoRule
<1>10. match # NoRule
  BY <1>3, <1>8, <1>9
<1>11. QED
  BY <1>8, <1>10, Zenon DEF GetActions

(* What they do.                                                           *)
LEMMA DefaultActions ==
  /\ \A master \in BOOLEAN : Master(master).actions = {"dont_notify"} /\ Master(master).enabled = master
  /\ SuppressNotices.actions = {"dont_notify"} /\ InviteForMe.actions = {"notify", "sound"}
  /\ MemberEvent.actions = {"dont_notify"} /\ ContainsDisplayName.actions = {"notify", "sound", "highlight"}
  /\ Roomnotif.actions = {"notify", "highlight"}
  BY DEF Master, SuppressNotices, InviteForMe, MemberEvent, ContainsDisplayName, Roomnotif, Override, Conditional

(* What a predefined override rule decides stays so whatever rules the user adds; of an enabled master
   rule this is said for users without override rules (Ruleset::add, server_default). *)
THEOREM DefaultsAlwaysPrevail == SpecPR => []DefaultsPrevail
<1>1. PushInv => DefaultsPrevail
  <2>. SUFFICES ASSUME PushInv PROVE DefaultsPrevail
    OBVIOUS
  <2>. DEFINE flat == FlattenedJson(event)
              o == ruleset["override"]
              actions == GetActions(ruleset, event, context)
              App(i) == Applies(o[i], flat, context)
              notice == Is(flat, "content.msgtype", <<"m.notice">>)
              member == Is(flat, "type", <<"m.room.member">>)
              invited == Is(flat, "content.membership", <<"invite">>) /\ Is(flat, "state_key", Me)
              named == Says(flat, context.user_display_name)
              pinged == Says(flat, RoomPing) /\ Loud(flat, context)
  <2>1. PICK master \in BOOLEAN : DefaultsLead(o, master)
    BY DEF PushInv, RulesInv
  <2>2. /\ o[1] = Master(master) /\ o[2] = SuppressNotices /\ o[3] = InviteForMe /\ o[4] = MemberEvent
        /\ o[5] = ContainsDisplayName /\ o[6] = Tombstone /\ o[7] = Roomnotif
    <3>. DEFINE S == {Master(master), SuppressNotices, InviteForMe, MemberEvent, ContainsDisplayName, Tombstone,
                      Roomnotif, Reaction}
                d == DefaultOverride(master)
    <3>1. /\ d[1] = Master(master) /\ d[2] = SuppressNotices /\ d[3] = InviteForMe /\ d[4] = MemberEvent
          /\ d[5] = ContainsDisplayName /\ d[6] = Tombstone /\ d[7] = Roomnotif
      <4>1. Master(master) \in S /\
            {SuppressNotices, InviteForMe, MemberEvent, ContainsDisplayName, Tombstone, Roomnotif, Reaction} \subseteq S
        BY Zenon
      <4>. HIDE DEF S
      <4>2. QED
        BY <4>1, DefaultOverrideIs
    <3>. HIDE DEF d
    <3>2. \A i \in 1 .. 7 : o[i] = d[i]
      BY <2>1 DEF DefaultsLead, d
    <3>3. QED
      BY <3>1, <3>2
  <2>3. DefaultsMean(flat, context)
    BY WhatTheyMean DEF PushInv
  <2>4. /\ App(1) <=> master
        /\ App(2) <=> notice
        /\ App(3) <=> member /\ invited
        /\ App(4) <=> member
        /\ App(5) <=> named
        /\ ~App(6)
        /\ App(7) <=> pinged
    BY <2>2, <2>3, Zenon DEF DefaultsMean
  <2>5. \A i \in 1 .. 7 : App(i) /\ (\A j \in 1 .. i - 1 : ~App(j)) => actions = o[i].actions
    BY <2>1, DefaultDecides
  <2>. HIDE DEF flat, o, actions, App, notice, member, invited, named, pinged
  <2>6. /\ App(1) => actions = {"dont_notify"}
        /\ ~App(1) /\ App(2) => actions = {"dont_notify"}
        /\ ~App(1) /\ ~App(2) /\ App(3) => actions = {"notify", "sound"}
        /\ ~App(1) /\ ~App(2) /\ ~App(3) /\ App(4) => actions = {"dont_notify"}
        /\ ~App(1) /\ ~App(2) /\ ~App(3) /\ ~App(4) /\ App(5) => actions = {"notify", "sound", "highlight"}
        /\ ~App(1) /\ ~App(2) /\ ~App(3) /\ ~App(4) /\ ~App(5) /\ ~App(6) /\ App(7) => actions = {"notify", "highlight"}
    <3>1. /\ o[1].actions = {"dont_notify"} /\ o[2].actions = {"dont_notify"} /\ o[3].actions = {"notify", "sound"}
          /\ o[4].actions = {"dont_notify"} /\ o[5].actions = {"notify", "sound", "highlight"}
          /\ o[7].actions = {"notify", "highlight"}
      BY <2>2, DefaultActions, Zenon
    <3>2. App(1) => actions = o[1].actions
      BY <2>5
    <3>3. ~App(1) /\ App(2) => actions = o[2].actions
      BY <2>5
    <3>4. ~App(1) /\ ~App(2) /\ App(3) => actions = o[3].actions
      BY <2>5
    <3>5. ~App(1) /\ ~App(2) /\ ~App(3) /\ App(4) => actions = o[4].actions
      BY <2>5
    <3>6. ~App(1) /\ ~App(2) /\ ~App(3) /\ ~App(4) /\ App(5) => actions = o[5].actions
      BY <2>5
    <3>7. ~App(1) /\ ~App(2) /\ ~App(3) /\ ~App(4) /\ ~App(5) /\ ~App(6) /\ App(7) => actions = o[7].actions
      BY <2>5
    <3>8. QED
      BY <3>1, <3>2, <3>3, <3>4, <3>5, <3>6, <3>7, Zenon
  <2>7. o[1].enabled = master
    BY <2>2, DefaultActions, Zenon
  <2>8. master => actions = {"dont_notify"}
    BY <2>4, <2>6, Zenon
  <2>9. ~master => /\ notice \/ (member /\ ~invited) => actions = {"dont_notify"}
                   /\ member /\ invited /\ ~notice => "notify" \in actions
                   /\ ~notice /\ ~member /\ (named \/ pinged) => {"notify", "highlight"} \subseteq actions
    <3>. SUFFICES ASSUME ~master
                  PROVE  /\ notice \/ (member /\ ~invited) => actions = {"dont_notify"}
                         /\ member /\ invited /\ ~notice => "notify" \in actions
                         /\ ~notice /\ ~member /\ (named \/ pinged) => {"notify", "highlight"} \subseteq actions
      OBVIOUS
    <3>1. notice \/ (member /\ ~invited) => actions = {"dont_notify"}
      BY <2>4, <2>6
    <3>2. member /\ invited /\ ~notice => actions = {"notify", "sound"}
      BY <2>4, <2>6
    <3>3. ~notice /\ ~member /\ (named \/ pinged) =>
            actions = {"notify", "sound", "highlight"} \/ actions = {"notify", "highlight"}
      BY <2>4, <2>6
    <3>4. QED
      BY <3>1, <3>2, <3>3
  <2>10. QED
    BY <2>7, <2>8, <2>9, Zenon
    DEF DefaultsPrevail, o, actions, flat, notice, member, invited, named, pinged, Is, Says, Loud
<1>2. QED
  BY <1>1, PushInvariant, PTL
=============================================================================
