--------------------------- MODULE ClientSession ---------------------------
(***************************************************************************)
(* The ruma-client crate: clones of one Client share, through an Arc, one   *)
(* Mutex that holds an access token or nothing.  Tasks call log_in,         *)
(* register_guest, register_user, send_request and the sync stream on their *)
(* clones; a call copies the token when its request is built and looks at   *)
(* the Mutex again only when its answer has arrived.  In between the other  *)
(* tasks run, the request or its answer may be lost, the caller may drop    *)
(* the future, and a request nobody waits for any more may still reach the  *)
(* homeserver.                                                              *)
(*                                                                          *)
(* The homeserver is external: it issues a fresh token per login, answers   *)
(* an authenticated call for the owner of its token and refuses a token     *)
(* that was logged out.  A sync answer brings the events of the account     *)
(* after `since` and a `next_batch`; a position is the number of events of  *)
(* the account so far.                                                      *)
(***************************************************************************)
EXTENDS Naturals, FiniteSets

CONSTANTS Tasks,      \* the tasks that hold a clone of the client
          Accounts,   \* the accounts of the homeserver
          None,       \* Option::None
          MaxCalls,   \* bound: how many calls other than sync are made
          MaxEvents   \* bound: how many events an account receives

ASSUME SessionAssumption ==
    /\ None \notin Nat
    /\ None \notin Accounts
    /\ Accounts # {}
    /\ MaxCalls \in Nat
    /\ MaxEvents \in Nat

VARIABLES token,   \* ClientData.access_token: None or the number of a token
          call,    \* per task: the call it is in
          since,   \* per task: the `since` its sync stream (or the application) keeps
          calls,   \* how many calls were made
          owner,   \* homeserver: the account of every token issued so far
          valid,   \* homeserver: the tokens not logged out
          pos,     \* homeserver: how many events every account has
          orphans, \* requests on the wire that no caller waits for
          seen,    \* ghost: the events each task's streams have yielded, per account
          returned, \* ghost: the tokens the application has, by construction or in an answer
          doomed   \* ghost: the tokens that were the client's when a logout was called

vars == <<token, call, since, calls, owner, valid, pos, orphans, seen, returned, doomed>>
client == <<token, call, since, calls, seen, returned, doomed>>
server == <<owner, valid, pos>>

Token == 1..(MaxCalls + 1)
Position == 0..MaxEvents

\* register_guest and register_user differ in their request only.
Storing == {"log_in", "register"}
Authenticated == {"send_request", "logout", "sync"}
Op == Storing \cup Authenticated

Idle == [st |-> "idle"]
Ok(tok, next) == [ok |-> TRUE, token |-> tok, next |-> next]
Failed == [ok |-> FALSE]

Issued == DOMAIN owner
OwnerOf(tok) == IF tok \in Issued THEN owner[tok] ELSE None

Init ==
    /\ \E a \in Accounts, t \in {None, 1} :
          /\ token = t
          /\ owner = IF t = None THEN <<>> ELSE [x \in {t} |-> a]
          /\ returned = IF t = None THEN {} ELSE {t}
    /\ valid = Issued
    /\ call = [t \in Tasks |-> Idle]
    /\ since = [t \in Tasks |-> 0]
    /\ calls = 0
    /\ pos = [a \in Accounts |-> 0]
    /\ orphans = {}
    /\ doomed = {}
    /\ seen = [t \in Tasks |-> [a \in Accounts |-> {}]]

(***************************************************************************)
(* Building the request.                                                    *)
(***************************************************************************)

\* send_customized_request (method): the token is read once, when the request
\* is built, and sent only where the endpoint asks for it.
SendAccessToken(op) == IF op \in Authenticated THEN token ELSE None

\* An anonymous client cannot build the request of an authenticated endpoint:
\* the call returns an error before anything is sent.
Refused(op) == op \in Authenticated /\ token = None

Request(op, a) ==
    [st |-> "sent", op |-> op, account |-> a, token |-> SendAccessToken(op)]

Call(t, op, a) ==
    /\ \/ Refused(op) /\ call' = [call EXCEPT ![t] = Idle]
       \/ ~Refused(op) /\ call' = [call EXCEPT ![t] = Request(op, a)]
    /\ doomed' = doomed \cup {x \in {token} : op = "logout" /\ ~Refused(op)}
    /\ UNCHANGED <<token, since, orphans, seen, returned, server>>

\* The bound on calls other than the rounds of a sync stream.
Counted == calls < MaxCalls /\ calls' = calls + 1

\* log_in, register_guest, register_user.  The account is the one the user
\* names, or the one the homeserver makes.
LogIn(t) == /\ call[t].st = "idle"
            /\ Counted
            /\ \E op \in Storing, a \in Accounts : Call(t, op, a)

\* send_request (or send_request_as, which adds the user to the query) with
\* any other authenticated request: an ordinary one, or the one that logs the
\* token out.
SendRequest(t) == /\ call[t].st = "idle"
                  /\ Counted
                  /\ \E op \in {"send_request", "logout"} : Call(t, op, None)

\* sync: the stream is polled, for the first time or after it yielded, and goes
\* round its loop.  It may not be polled again once it has failed: then the
\* application starts a new stream with the position it kept.
PollSync(t) == /\ call[t].st \in {"idle", "yielded"}
               /\ UNCHANGED calls
               /\ Call(t, "sync", None)

\* The consumer stops polling a stream that has yielded.
DropStream(t) ==
    /\ call[t].st = "yielded"
    /\ call' = [call EXCEPT ![t] = Idle]
    /\ UNCHANGED <<token, since, calls, orphans, seen, returned, doomed, server>>

(***************************************************************************)
(* The homeserver.                                                          *)
(***************************************************************************)

\* What the homeserver does with request r, and its answer ans.
Handle(r, ans) ==
    \/ /\ r.op \in Storing
       /\ LET tok == Cardinality(Issued) + 1 IN
          \/ /\ owner' = [x \in Issued \cup {tok} |-> IF x = tok THEN r.account ELSE owner[x]]
             /\ valid' = valid \cup {tok}
             /\ ans = Ok(tok, 0)
          \/ /\ r.op # "log_in"        \* registered, but not logged in
             /\ ans = Ok(None, 0)
             /\ UNCHANGED <<owner, valid>>
          \/ ans = Failed /\ UNCHANGED <<owner, valid>>
    \/ /\ r.op \in Authenticated
       /\ r.token \in valid
       /\ valid' = IF r.op = "logout" THEN valid \ {r.token} ELSE valid
       /\ ans = Ok(None, IF r.op = "sync" THEN pos[owner[r.token]] ELSE 0)
       /\ UNCHANGED owner
    \/ /\ r.op \in Authenticated
       /\ r.token \notin valid
       /\ ans = Failed
       /\ UNCHANGED <<owner, valid>>

Answers == {Failed} \cup {Ok(tok, n) : tok \in Token \cup {None}, n \in Position}

\* The mistake of a client that takes the token when the request goes out, not
\* when the call builds it.
ServeLate(t) ==
    /\ call[t].st = "sent"
    /\ \E ans \in Answers :
          /\ Handle([call[t] EXCEPT !.token = SendAccessToken(call[t].op)], ans)
          /\ call' = [call EXCEPT ![t] = [st |-> "served", op |-> call[t].op,
                                          token |-> call[t].token, ans |-> ans]]
    /\ UNCHANGED <<token, since, calls, pos, orphans, seen, returned, doomed>>

\* The request arrives with the token it was built with.
Serve(t) ==
    /\ call[t].st = "sent"
    /\ \E ans \in Answers :
          /\ Handle(call[t], ans)
          /\ call' = [call EXCEPT ![t] = [st |-> "served", op |-> call[t].op,
                                          token |-> call[t].token, ans |-> ans]]
    /\ UNCHANGED <<token, since, calls, pos, orphans, seen, returned, doomed>>

\* A request whose caller is gone reaches the homeserver all the same, or not.
ServeOrphan(r) ==
    /\ orphans' = orphans \ {r}
    /\ \/ \E ans \in Answers : Handle(r, ans)
       \/ UNCHANGED <<owner, valid>>
    /\ UNCHANGED <<pos, client>>

NewEvent(a) ==
    /\ pos[a] < MaxEvents
    /\ pos' = [pos EXCEPT ![a] = @ + 1]
    /\ UNCHANGED <<client, owner, valid, orphans>>

(***************************************************************************)
(* The answer.                                                              *)
(***************************************************************************)

\* The request or its answer is lost (Error::Response), or the caller drops
\* the future: the Mutex is not touched.  Only a request that changes the
\* homeserver is worth remembering.
Abandoned(t) == {r \in {call[t]} : r.st = "sent" /\ r.op \in Storing \cup {"logout"}}

GiveUpAdvances(t) ==
    /\ call[t].st \in {"sent", "served"}
    /\ orphans' = orphans \cup Abandoned(t)
    /\ call' = [call EXCEPT ![t] = Idle]
    /\ since' = IF call[t].st = "served" /\ call[t].op = "sync" /\ call[t].ans.ok
                THEN [since EXCEPT ![t] = call[t].ans.next] ELSE since
    /\ UNCHANGED <<token, calls, seen, returned, doomed, server>>

GiveUp(t) ==
    /\ call[t].st \in {"sent", "served"}
    /\ orphans' = orphans \cup Abandoned(t)
    /\ call' = [call EXCEPT ![t] = Idle]
    /\ UNCHANGED <<token, since, calls, seen, returned, doomed, server>>

\* try_from_http_response finds an error: the call, or the stream, ends with it.
FinishErr(t) ==
    /\ call[t].st = "served"
    /\ ~call[t].ans.ok
    /\ call' = [call EXCEPT ![t] = Idle]
    /\ UNCHANGED <<token, since, calls, orphans, seen, returned, doomed, server>>

\* The three methods store the token of the answer, which is nothing when a
\* registration did not log in, and return it.
Store(tok) ==
    /\ token' = tok
    /\ returned' = IF tok = None THEN returned ELSE returned \cup {tok}

FinishLogIn(t) ==
    /\ call[t].st = "served"
    /\ call[t].op \in Storing
    /\ call[t].ans.ok
    /\ Store(call[t].ans.token)
    /\ call' = [call EXCEPT ![t] = Idle]
    /\ UNCHANGED <<since, calls, orphans, seen, doomed, server>>

FinishRequest(t) ==
    /\ call[t].st = "served"
    /\ call[t].op \in {"send_request", "logout"}
    /\ call[t].ans.ok
    /\ call' = [call EXCEPT ![t] = Idle]
    /\ UNCHANGED <<token, since, calls, orphans, seen, returned, doomed, server>>

\* The stream takes over next_batch and yields the answer.
Yields(t) == (since[t] + 1)..call[t].ans.next

FinishSyncForgets(t) ==
    /\ call[t].st = "served"
    /\ call[t].op = "sync"
    /\ call[t].ans.ok
    /\ seen' = [seen EXCEPT ![t][owner[call[t].token]] = @ \cup Yields(t)]
    /\ call' = [call EXCEPT ![t] = [st |-> "yielded"]]
    /\ UNCHANGED <<token, since, calls, orphans, returned, doomed, server>>

FinishSync(t) ==
    /\ call[t].st = "served"
    /\ call[t].op = "sync"
    /\ call[t].ans.ok
    /\ since' = [since EXCEPT ![t] = call[t].ans.next]
    /\ seen' = [seen EXCEPT ![t][owner[call[t].token]] = @ \cup Yields(t)]
    /\ call' = [call EXCEPT ![t] = [st |-> "yielded"]]
    /\ UNCHANGED <<token, calls, orphans, returned, doomed, server>>

TaskStep(t) ==
    \/ LogIn(t) \/ SendRequest(t) \/ PollSync(t) \/ DropStream(t)
    \/ Serve(t) \/ GiveUp(t)
    \/ FinishErr(t) \/ FinishLogIn(t) \/ FinishRequest(t) \/ FinishSync(t)

Next ==
    \/ \E t \in Tasks : TaskStep(t)
    \/ \E r \in orphans : ServeOrphan(r)
    \/ \E a \in Accounts : NewEvent(a)

\* The executor polls the tasks it has, the HTTP client answers or fails every
\* request it was given and does not fail for ever, and the application keeps
\* polling its sync stream.
Fairness ==
    \A t \in Tasks :
        /\ SF_vars(Serve(t))
        /\ WF_vars(FinishErr(t) \/ FinishLogIn(t) \/ FinishRequest(t))
        /\ SF_vars(FinishSync(t))
        /\ WF_vars(PollSync(t))

Spec == Init /\ [][Next]_vars /\ Fairness

(***************************************************************************)
(* Properties.                                                              *)
(***************************************************************************)

CallRecord ==
    {Idle, [st |-> "yielded"]}
    \cup [st : {"sent"}, op : Op, account : Accounts \cup {None}, token : Token \cup {None}]
    \cup [st : {"served"}, op : Op, token : Token \cup {None}, ans : Answers]

\* The state has the shape the crate's types and the homeserver's give it.
TypeOK ==
    /\ token \in Token \cup {None}
    /\ call \in [Tasks -> CallRecord]
    /\ since \in [Tasks -> Position]
    /\ calls \in 0..MaxCalls
    /\ Issued \in SUBSET Token /\ \A x \in Issued : owner[x] \in Accounts
    /\ valid \subseteq Issued
    /\ pos \in [Accounts -> Position]
    /\ orphans \subseteq CallRecord
    /\ seen \in [Tasks -> [Accounts -> SUBSET Position]]
    /\ returned \subseteq Issued
    /\ doomed \subseteq Issued

\* The accounts whose token has been in the Mutex.
Holders == {owner[x] : x \in returned}

\* Whatever is lost, retried or cancelled: as long as the client has held the
\* tokens of one account only, a task's sync streams have yielded exactly the
\* events up to the position they continue from.
OneAccountNoGap ==
    \A t \in Tasks, a \in Accounts :
        Holders \subseteq {a} => seen[t][a] = 1..since[t]

\* The same for repetition: an event is yielded a second time only to a client
\* whose token has changed accounts.
NoEventTwice ==
    [][\A t \in Tasks, a \in Accounts :
          FinishSync(t) /\ Holders \subseteq {a} =>
              seen[t][a] \cap Yields(t) = {}]_vars

\* A session ends only by a logout that was called while its token was the
\* client's.  A logout that is slow, or given up and served long afterwards, ends
\* the session it was called on and never one that log_in or register has stored
\* since; so the token that the clones share is live unless somebody called logout
\* on it, in whatever order the calls of the clones finish.
LogoutsHitTheirSession == Issued \ valid \subseteq doomed

\* A stream keeps up: once the client keeps a live token of account a, a sync
\* stream that is polled reaches the account's latest position again and again,
\* however many of its requests fail on the way.
StreamCatchesUp ==
    \A t \in Tasks, a \in Accounts :
        <>[](token \in valid /\ OwnerOf(token) = a) => []<>(since[t] = pos[a])
====
