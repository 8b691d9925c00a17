# A TLA+ development for ruma

ruma is a set of Rust crates for the Matrix protocol. Three things in it decide
something, keep state or must agree between two programs:

* `crates/ruma-state-res` decides: the authorization rules of a room and the resolution of
  its state after forks, on which homeservers must agree to the last detail;
* the client, the release tool, signatures and push rules go through sequences of steps that may
  be interrupted, interleaved or applied in an order nobody thought of;
* everything else, most of the code, declares what goes over the wire and converts it: the server
  must read what the client wrote, whichever fields were left out.

This development models all three, checks them with TLC and proves with TLAPS, for instances of any size, every safety
property that it checks: those of state resolution, the room rules, the client, the release tool, signatures, push rules and
the conversions to and from the wire. Paths are relative to `src/`; unless said
otherwise, `lib.rs` and `event_auth.rs` are those of `crates/ruma-state-res/src`.

## Inventory

| component | state | operations | interactions |
|---|---|---|---|
| `resolve` (lib.rs) | unconflicted state, full conflicted set, resolved state so far | `separate`, `get_auth_chain_diff`, `iterative_auth_check`, `resolve` | calls both sorts and `auth_check`; reads events through the caller's `fetch_event`, which may not have them |
| power events sort (lib.rs) | graph under construction, stack, power level of every sender | `reverse_topological_power_sort`, `add_event_and_auth_chain_to_graph`, `get_power_level_for_sender` | calls the topological sort |
| lexicographical topological sort (lib.rs) | outdegree map, heap, result | `lexicographical_topological_sort` | calls back into `key_fn`, which may fail |
| mainline sort (lib.rs) | mainline, depth of every event | `mainline_sort`, `get_mainline_depth` | `fetch_event` |
| authorization rules (event_auth.rs, room_version.rs) | none of their own; read the room state through `fetch_state` | `auth_check`, `valid_membership_change`, `can_send_event`, `check_power_levels`, `check_redaction`, `verify_third_party_invite`, `auth_types_for_event` | called for every event by the homeserver and by `iterative_auth_check` |
| client (crates/ruma-client) | access token behind a mutex that clones share; `since` of a sync stream | `log_in`, `register_guest`, `register_user`, `send_request`, `sync` | asynchronous: the token is read before an await and written after another |
| signatures (crates/ruma-signatures) | the JSON object that is being signed | `sign_json`, `hash_and_sign_event`, `verify_json`, `verify_event` | redaction by room version |
| push rules (crates/ruma-common/src/push) | rule set | `Ruleset::add`, `get_match`, conditions | event and room context from the caller |
| release tool (xtask) | versions on disk, git, crates.io, GitHub | `release`, `publish` | external commands, each of which may fail |
| API framework (ruma-api, -macros), endpoints (five API crates) | none | `try_into_http_request`, `try_from_http_request`, the same for responses and errors, 200 endpoints | client and server each hold one half; errors go through a hand-written deserializer that sees the keys in any order |
| event types (ruma-events, -macros) | none | reading, redacting and writing typed events | the redaction must agree with the one of ruma-signatures |
| shared types, serialization helpers (ruma-common, ruma-serde, -macros) | none | derived and hand-written conversions | used by everything above |
| identifiers, facade, test utilities | none | validation of strings; re-exports | used by everything above |

What is hard here:

* **Order.** The events to sort come from hash sets, so the functions see them in
  any order and must still give every server the same answer. An event is only
  decided correctly if its auth events have been decided before it, a promise that
  graph building, sorting and the main loop keep together.
* **Partial failure.** Any event may be unknown to the server, and contents may not
  deserialize. In different places of the same call that means "skip", "drop the
  event", "fail the resolution" and "panic".
* **Long legal sequences.** Each authorization rule looks at one event; whether bans
  hold or a room can be taken over depends on sequences of them.
* **Stale state.** `resolve` fixes the mainline at one moment and keeps adding
  events afterwards; an event is checked against a mixture of its own auth events and what has been
  resolved; the client copies its token before it awaits.
* **Interruption.** Any step of a release may fail, and the next run has to find out what has been done;
  a call of the client may be dropped while its request is on the wire.
* **Two halves of one convention.** A field that one side skips and the other demands, a path parameter that may be
  empty, an error whose code comes after its data, two redactions of the same event: each half is right by itself.

`PROJECT.json` lists each hazard at its line with the properties that cover it.
What makes each modelled component correct is stated with its module below.

## Modules

### LexTopoSort, TopoOrder (lexicographical_topological_sort)

`graph` and `key` are the arguments (any graph over the ids: cycles and edges to
nodes that are not in the graph included, as the function is public; a node
without a key makes `key_fn` fail). `out` is `outdegree_map`, `heap` the binary
heap with the `TieBreaker` each entry was pushed with, `sorted` the result.
`Setup` is the code up to the loop, `PopNode` one round of the loop with all the
parents it releases, `SetupFails` and `PopFails` the `?` on `key_fn`, `Return` the
end of the loop. Event ids are integers: only their order matters.

`TopoOrder` is the promise: events leave one at a time, each once, none before one
it refers to, in no other particular order, or the sort fails. `ImplementsTopoOrder`
is the refinement.

### PowerSort (reverse_topological_power_sort)

Extends LexTopoSort, so both run as one specification: `AddEvent`, `PopEvent` and
`ScanAuthEvent` are the calls and the two loops of
`add_event_and_auth_chain_to_graph`, `LookUpLevels` (or
`LookUpFails`) the pass that asks for every sender's level, `SortStep` any step of
the sort, on the graph and keys just built. `store` is `fetch_event`; missing ids
are events the server does not have. The arguments are the ones `resolve` passes.
An event's type is reduced to "power levels", "another power event" or "other",
and power levels content to users, the default, and whether it deserializes.

### MainlineSort (mainline_sort, get_mainline_depth)

`Extend` is a round of the loop that builds the mainline, `NextEvent`,
`FollowParent`, `MeetsMainline`, `NoPowerLevels` and `LeaveOut` are the rounds of the depth search
for each event, `Return` is the final sort. Auth events form no cycle here: an
event names others by their hash, and the walks of the code rely on it.

### EventAuth, RoomAuth (event_auth.rs)

EventAuth has no variables: `Verdict(st, ev, prev)` is `auth_check` as a function
of the fetched state, with one operator per rule and four outcomes: allow
(`Ok(true)`), reject (`Ok(false)`), error (`Err`) and panic. It keeps the order of
the early returns, the `Option` comparisons of power levels (`None` is least), the
separate default for rooms without power levels, and the re-serialization of power
levels contents that drops default values before they are compared. Signatures of third
party invites are not checked by the code either: it looks for the token among the
public keys, and so does the model.

RoomAuth puts these rules to use: a room with one chain of events, in which any user may
send any event at any time, and allowed events enter the state. The chain is what
a homeserver keeps, which is not in this repository: these definitions are
external, modelled from how the crate expects `auth_check` to be called.

### StateRes (resolve)

`NoConflict`, `SortControl`, `Check`, `CheckFails`, `SortRest`,
`SortRestFails` and `Finish` follow `resolve` from top to bottom; a `Check` is a round
of the loop in `iterative_auth_check`, in the first pass (`pc = "control"`) or in the second (`pc = "rest"`). The two sorts appear by
their contracts, which are the properties that PowerSort and MainlineSort are shown to
have: any order that puts conflicted auth events first, and any order of the
remaining events that drops or fails only over unknown ones. `auth_check` may allow or
refuse any event, or fail: what is shown here holds whatever the rules say.

### ResolveAuth (resolve with the real rules)

Composes StateRes with EventAuth. `SendHistory`, `SendOnFirst` and `SendOnSecond` let a room fork after a common
history, each event allowed by the rules on its own fork and naming the auth events that `auth_types_for_event`
(`AuthTypes`) selects; `resolve` then runs as an instance of StateRes in which `Answer`, the
verdict of `auth_check` against `AuthState`, replaces the free choice. `AuthState` is the point
of the module: the event's own auth events, overridden by the resolved ones for the selected keys (lib.rs:418-452).

### ClientSession (ruma-client)

`token` is the `Mutex<Option<String>>` that clones share, `call` what each task waits for. `LogIn`,
`SendRequest` and `PollSync` build a request and copy the token; `Serve` is the homeserver, external and only as much
of one as the client can see; `Finish*` is what the call does with its answer. `GiveUp` is a
lost request or answer, an error of the HTTP client or a dropped future; what was on the wire then may still be
served (`orphans`). The stream of `sync` keeps `since` per task and reads the token anew for every request.

### Release (xtask)

One action per step of `ReleaseTask::run`, in its order, on the working tree, the last commit, crates.io, the tag, the
remote and GitHub. `Stop` is a failing command, an interrupt or an answer "no"; then the tool may be started again
(`Start` decides, as the code does, by what it finds which steps to skip), after the developer has committed
(`CommitByHand`) or thrown away (`DiscardByHand`) what is in the tree. git, cargo and GitHub are external.

### SignedEvent (ruma-signatures, redaction in ruma-events)

One event as a canonical JSON object that servers hash and sign (`HashAndSign`, with the new hash left behind when
redaction or signing fails), redact, edit and give unsigned data, and that ruma-events reads (`ReadEvent`), redacts
as a typed value (`RedactCopy`) and writes (`WriteRedacted`). `VerifyEvent` is `verify_event` with its early
returns. A hash is the object that was hashed, a signature the object that was signed: both are free of collisions.

### PushRules (ruma-common)

`ruleset`, `event` and `context` are the three arguments of `get_actions`; `Add` is `Ruleset::add`. `MatchesWord` is the
search of `matches_word`, a recursive function of the text that is left, with `Find`, the two boundaries and `NextWord`, `FlattenedJson` the flattened event, `ConditionApplies` every
`PushCondition`, `ServerDefault` the
predefined rules, one operator each (`Master`, `SuppressNotices`, ...). Texts are sequences of characters, because the property of
`matches_word` is about their positions; all other strings are single tokens.

### Wire, the wire tables, Unions and HttpApi (the API crates)

`Wire` reduces a field to where it is (path, query, header, body) and to its pair of serde attributes: what the writer does
when the field has its default, and what the reader does when it is absent. A list in a query is a pair for each of its elements, so an empty one is always
skipped. The tables stand for the crates built with `unstable-pre-spec` and `unstable-pdu` and with neither `compat` nor `unstable-exhaustive-types`: every
`#[cfg(feature = "unstable-pre-spec")]` field, such as `join_authorised_via_users_server` of a member event, is in them. They list the code's declarations
in these terms: `ClientApiAccount`, `ClientApiRooms`, `ClientApiSync`, `FederationApi` and `ServiceApis` the 200 `ruma_api!`
blocks, `ApiObjects` and `EventObjects` the 226 JSON objects, `Unions` the 8 enums whose variants are objects, in the order
in which their deserializers try them, `WireNames` the 54 enums that are strings.

`HttpApi` is one use of an endpoint: `Call` builds the HTTP request (`HttpRequest`, as the code that `ruma_api!` generates),
`Serve` routes it by method and path and reads it, `AnswerOk`, `AnswerError` and `AnswerUiaa` write the answer, `Receive*` read it.
`VisitField` and `VisitEnd` are the rounds of the visitor that puts an error together from the keys of a JSON
object in any order. The router of the server is not ruma's and is external: it is taken to prefer
literal segments. The user ID that an application service appends is one more pair of the query, and a `query_map` takes every pair (`AssertedPair`). `WriteObject`, `WriteVariant`, `WriteName` and their readers send a single value. What the declarations have
to keep to for all this to work is stated as assumptions on the tables (`RequestTables`, `Routes`, `UnionTables`, ...), not only
found out state by state: TLC evaluates them on the tables of the code.

### MC modules and proof modules

`PowerSortMC`, `MainlineSortMC`, `RoomAuthMC`, `StateResMC`, `ResolveAuthMC`, `ReleaseMC`, `SignedEventMC` and
`PushRulesMC` choose the records and initial states of the small instances; `HttpApiMC` puts the wire tables together and
names the known exceptions. `TopoSortProofs` (LexTopoSort and PowerSort), `MainlineSortProofs`, `StateResProofs`,
`RoomAuthProofs`, `ResolveAuthProofs`, `ReleaseProofs`, `ClientProofs` (ClientSession and PushRules) and `WireProofs` (SignedEvent and HttpApi) hold the
theorems. `Init`, `Next`, `Spec` and `vars` of PushRules and HttpApi end in `PR` and `Api` because a proof module extends two specifications.
Definitions directly before a mapped one that carry a plausible mistake in it (`JoinDespiteBan` before `JoinOK`) are the mutants that
`PROJECT.json` pairs with properties; no specification uses them.

## What the runs check

`CHECK_DEADLOCK FALSE` is set for the specifications of functions that return (the sorts, StateRes, ResolveAuth), for a room whose
check has panicked, and for the bounded histories of ClientSession and Release: after them there is no next step. That they
do not stop *earlier* is what `Terminates`, `TerminatesPS`, `StreamCatchesUp` and `PrereleaseCompletes` say. Deadlock is checked in the
runs of HttpApi, SignedEvent and PushRules.

| run | instance | what it shows |
|---|---|---|
| `lex_topo_sort` | every graph over 3 ids with dangling edges and cycles, every partial key function over 2 levels and 2 timestamps (296 906 states) | the result is topological (`TopologicalOrder`) and complete up to events that are stuck in or behind a cycle (`LostOnlyIfStuck`); the order is the one the tie breakers in the heap determine (`TieBreakOrder`); the sort ends (`Terminates`) and implements `TopoOrder` |
| `power_sort` | 3 events, each naming up to 2 others in either order, cycles included, one sender with level 50, 0 or unreadable levels, at most one known event outside the conflicted set (241 082 states) | the graph is exactly the conflicted part of the power events' auth chains (`GraphIsAuthChains`); no power event is lost (`PowerEventsAllSorted`); conflicted auth events come first (`AuthEventsFirst`); graph building and sorting end (`TerminatesPS`) |
| `mainline_sort` | any 3 events naming up to 2 others, any 4 events (or 3 with one unknown id) naming up to 1 (459 200 states) | the mainline is the unbroken chain of power levels events and each event gets the depth of the nearest of them (`DepthsAreRight`); events under older power levels come first (`OlderLevelsFirst`); events are left out, and the sort fails, only over unknown events (`LossOnlyIfMissing`) |
| `room_auth` | 3 users on 2 servers, room version 6, 10 power levels contents, one third party invite token, join rules that cannot be read among the events (34 765 states) | bans hold (`BansHold`), nobody enters uninvited and invites are entitled (`EntryIsEntitled`), the top listed user can be neither removed nor changed, except by a third party invite (`TopUserIsSafe`), nobody hands out more than they have (`ListedLevelsAreBounded`), and the only panics are those on malformed power levels (`ExpectedMembershipExists`) |
| `state_res` | 2 forks over 3 events and 2 state keys, at most one unknown event, at most one event with unreadable levels or without state key (381 044 states) | agreed state survives (`UnconflictedStateKept`), a conflicted key goes to its last allowed event (`LastAllowedWins`), nothing is decided twice and nothing with a known auth chain is lost (`EachCheckedOnce`), the power levels do not change once the mainline is fixed (`PowerLevelsSettled`) |
| `resolve_auth` | 3 users with levels 100, 50 and 0 in an invite-only room, 16 events to send, two on one fork and one on the other, any order the sorts may return (316 921 states) | a removal wins over what the removed user did meanwhile on the other fork (`RemovalsWin`), what the second pass lets in is covered by the resolved power levels even if its sender had more power on his own fork (`RestIsEntitled`), and of all that servers accept only a third party invite, or join rules that cannot be read, make resolution fail (`MergeFailuresKnown`) |
| `client_session` | 2 tasks, 2 accounts, 2 calls and any number of syncs, one event per account (163 134 states) | a session ends only by a logout that was called on it, never by one that is slow, lost or given up and was called on an earlier session (`LogoutsHitTheirSession`); with one account, streams have no gap and no repetition (`OneAccountNoGap`, `NoEventTwice`) and keep up despite failures (`StreamCatchesUp`) |
| `release` | a plain crate, one with macros and a publish-only one; 6 versions, 3 mishaps (68 100 states) | after every step of every run a published crate requires the macros released with it, what is tagged is published, a GitHub release has its tag (`PublicStateIsConsistent`); no version goes backwards without being confirmed (`NeverBackwardsUnasked`); an interrupted prerelease is finished by running the tool again (`PrereleaseCompletes`) |
| `http_api` | all 200 endpoints, 226 objects, 8 unions and 54 string enums of the code, with all fields, only the constructor's, and one more or fewer of these (92 071 states) | a request reaches its endpoint and is read as it was meant, but for empty lists in a query and user IDs asserted beside a `query_map` (`CallsArriveAsMeant`), answers and errors arrive as given, in any order of their keys (`AnswersArriveAsGiven`), every value reads back (`ValuesSurvive`); the exceptions are listed in `HttpApiMC` and below |
| `signed_event` | room versions 1 and 9, nine event types, two servers, three key ids of which one does not split, two signings, one edit (769 720 states) | what `verify_event` vouches for was signed (`VerifiedMeansSigned`); signatures and event ID outlive redaction, unsigned data and a second signature (`SignatureOutlivesRedaction`); the redaction of JSON and of typed events agree, but for who authorised a join in version 9 (`RedactionsAgree`) |
| `push_rules` | every text of up to 4 characters and three longer ones, 4 rooms, up to 2 out of 15 rules of all kinds added to the predefined ones (111 200 states) | `matches_word` agrees with a definition without search (`WordMatchIsReference`); what the predefined override rules decide stands whatever is added, for the master rule whatever but override rules (`DefaultsPrevail`); a new rule never overrides one of the same or a higher priority (`FirstMatchStands`) |

The bounds. Three events are enough for every pair of interacting
edges (two parents of one event, one parent of two, a chain, a cycle, a dangling edge next to
a good one) and for a tie between any two with a third that releases one of them;
four in MainlineSort give two power levels events on the mainline and two events that meet it at
different points. In RoomAuth two users with changing levels and one outsider give every
relation of sender and target the rules distinguish; the contents move users, defaults
and required levels up and down through 0, 50 and 100, the boundary values of the rules.
Two forks are enough for a key to be agreed, conflicted or known to one fork only; in ResolveAuth one event on one fork meets
an event and its consequence on the other. In ClientSession two calls besides the syncs let a token be replaced, or logged out,
while another task's request with the old one is out: a logout called on one session, a login, and the late logout. Versions 1 and 9 in SignedEvent
are enough: the code tells apart 1 and 2 (the server in the event ID signs too), 1 to 5 (aliases), 1 to 3 (the alphabet of the reference hash, which is not
modelled) and 9 (typed member events), so that each distinction is made; versions 6 to 8 redact member events as 1 does and the others as 9 does. Three mishaps in Release let one run be interrupted, its repetition fail
elsewhere, and the tree be discarded between them. A field of a request or object is written and read independently of the others, so
one more or one fewer than everything and than the constructor's arguments meets every field in both states. In SignedEvent
two signings bring a second hash beside an older signature, and one edit may come between any two steps. In PushRules four characters
hold a failed match, a gap and a match.
No symmetry is used: event ids are ordered, and users, servers and tasks have roles or are too few.

The fairness. Weak fairness of `Next` in LexTopoSort and PowerSort: these are sequential functions
without blocking that run on until they return. In ClientSession the executor polls the tasks that can go on (weak fairness of
the steps after an answer), the application polls its stream again (`PollSync`), and the network does not fail for
ever: requests that are sent again and again are served, and answers read, at some time (strong fairness of `Serve` and
`FinishSync`). The last is not the code's to guarantee; without it no client catches up. In Release the developer runs the tool until it
succeeds (weak fairness of `Step`) and commits what an interrupted run left behind (strong fairness of
`CommitByHand`, as another run may change the tree first); mishaps are finitely many. The other runs check safety only.

### Disagreements

`lex_topo_own_key` checks what a comment says and ends with a violation: a released event is pushed with the power level and
timestamp of the event that released it, not its own (lib.rs:322). The order is still deterministic
(`TieBreakOrder`), but is not the documented one. The finding in `PROJECT.json` quotes the lines.

The following need no run of their own. Where a property has to make an exception for one, its comment says so.

State resolution:

* The named levels (ban, kick, ...) are compared after a serialization that drops
  defaults, so a change from or to a default value is not held against the sender's level (event_auth.rs:713).
* The first power levels event is accepted without being
  looked at; with malformed ones in place the next check panics (event_auth.rs:616).
* Without power levels the creator has level 100, except in `valid_membership_change` (event_auth.rs:419).
* The redaction check is skipped in room versions 1 and 2, whose rules it implements (event_auth.rs:344).
* An event for which `auth_check` returns `Err` ends the resolution (lib.rs:474); the comment at lib.rs:394 says it is excluded.
* A join rules event is accepted without a look at its content; when this has no join rule that can be read, such as a restricted one
  whose `allow` was redacted with the rest of the content, every later membership check is an `Err` (event_auth.rs:433). A merge then
  fails on a join or invite of the other fork, which did not know these join rules: one of the two cases of `MergeFailuresKnown`.
* The level of a sender is looked up in the users of the power levels content only (event_auth.rs:272, lib.rs:374), so it may be read where the
  whole content cannot: `users_valid` beside `valid`.
* A third party invite is checked neither for its sender's membership nor for that of its target unless he is banned
  (event_auth.rs:471-488): redeeming one for a joined user turns his membership into an invite. Properties about who may change
  what except it.
* A member event right after `m.room.create` is allowed whatever it says.
* The comment above `mainline_sort` gives the newest power levels event depth 0, the code gives it to the oldest
  (lib.rs:532), which is what `OlderLevelsFirst` needs.

Endpoints:

* A list in a query that is empty is not there, and `v` of `get_backfill` and `ver` of `create_knock_event_template` are then demanded in vain, while
  `ver` of `create_join_event_template` is read as its default, version 1. `get_location_for_protocol` and `get_user_for_protocol` read an asserted
  user ID into their `fields`. These are the exceptions of `CallsArriveAsMeant`.
* `delete_backup_keys` is declared PUT and `delete_backup_key_session(s)` GET, the methods of the endpoints that store and read
  the keys, with the same paths (the docs say DELETE); version 2 of the federation's `create_leave_event` has the path of version 1.
  These are `SharedRoutes`.
* `get_account_information` of the identity service is declared POST (its doc: GET); the docs of `get_backup`, `update_backup`,
  `sso_login_with_provider` and `get_remote_server_keys` give other paths or methods than the code;
  the metadata of `validate_msisdn_by_phone_number` carries the name of another endpoint; `set_room_visibility` of the application
  service API is declared in two crates.
* Fields that are skipped when empty but demanded by the reader: `context` of a search result (search_events.rs:438),
  `invite_room_state` of an unsigned invite, `tweaks` of a push gateway device, `prev_events` and `auth_events` of a v1 PDU.
  `CustomLoginType` writes its type under another name than its reader expects (get_login_types.rs:245). These are `KnownLossy`.
* A missing content type is read as `application/json`. A 401 that is no `UiaaInfo` reaches an endpoint
  with user-interactive authentication as an unknown error (uiaa.rs:843). A custom error loses fields that have the
  name of a field of `ErrorKind`.

Signatures and redaction:

* Redacted `m.room.join_rules` and `m.room.redaction` events cannot be read back: the flattened join rule and `redacts` are still demanded.
* Who authorised a join is said to be "redacted in room versions 8 and below" (room/member.rs:149 of ruma-events), and the typed redaction keeps it
  in version 9; `redact` of ruma-signatures removes it in every version (functions.rs:46), so a client reads the redacted join without
  it. This is the exception in `RedactionsAgree`.
* The doc of `redact` lists errors for `hashes` and `signatures` that are not objects; the code does not look at them.
  `sign_json` has taken `signatures` and `unsigned` out of the object when it fails.
* `verify_event` stops looking for a signature at the first key id that does not split (functions.rs:636).
* `hash_and_sign_event` on an event that has been redacted puts in a new hash, which breaks the other signatures and the event ID; hence the
  condition in `SignatureOutlivesRedaction`.

Push rules, client and release tool:

* The doc of `.m.rule.master` has it turn off all notifications "other than those generated by override rules set by the user"
  (predefined.rs:59). It stands first and matches every event, and `Ruleset::add` puts the user's override rules behind it, where they decide
  nothing. `DefaultsPrevail` says what the enabled master rule does only for users without override rules.
  The doc of `EventMatch` has patterns without globs matched anywhere; the code compares the whole value, except for
  `content.body`, where it looks for words. A top-level key "content.body" takes the place of the body in the flattened event.
* `Error::AuthenticationRequired` of the client is never produced.
* A release that is no prerelease and was stopped between its commit and `cargo publish` cannot be finished by running the tool again:
  the changelog has been cut, and cutting it again fails. `PrereleaseCompletes` is therefore about prereleases. After a failed run
  the notes of the GitHub release may be those of "no changes". A push may be accepted for the tag and refused
  for the branch. `is_next` accepts no plain minor or major bump without asking.

## What is proved

The theorems hold for any number of events, users, levels, keys, forks, tasks, versions and servers. They assume
what the modules state of their constants, and TLC evaluates on every run:

* ids, levels and timestamps are integers, sentinels are no ids, events are records of the given shape; event ids are finitely many
  (StateRes, MainlineSort), 0 is a level (PowerSort), every power levels event is a power event (StateRes);
* in RoomAuth and ResolveAuth an event has a sender, the content of a member event a membership or none, levels are integers, a power levels content that can be read as a whole has
  readable users (`valid => users_valid`); in ResolveAuth the room
  version is one `RoomVersion::new` knows, there are finitely many ids but enough for the events that may be sent, and the keys of state events include that of
  the power levels;
* versions are records of numbers (Release), `None` is no token and no account (ClientSession);
* texts are sequences of characters, no character has `*` for its lower case and the user's own ID is not `*`, an added rule is of one of the five kinds and has a
  pattern if it is a content rule, and a character is part of a word when its lower case is (PushRules);
* in HttpApi no two fields of a type have the same place (`OwnPlaces`) and none is skipped though its reader demands or replaces it (`WellFormed`), except in the types of `Lossy`, the
  requests of `Ambiguous` endpoints and, of all other requests, the lists in their queries; the query parameter `user_id` of the client API is free; a path parameter has a segment, and one that may be empty the last (`RequestTables`); whatever other endpoint a path matches has
  fewer literal segments (`Routes`); a variant of a union writes its tag and differs from those tried before it (`UnionTables`); names and error codes are unambiguous
  (`NameTables`, `CodeTables`). These are conditions on declarations, each local to one or two of them, and hold for the tables taken from the code;
* in SignedEvent the key ids that split are key ids, `m.room.join_rules` and `m.room.redaction` are among the events that cannot be read back
  when redacted, and a redacted content type has exactly the fields of the full one that the typed redaction keeps in room version 1 or 9, demanding no more
  than this (`RedactedFields`, which the tables taken from ruma-events satisfy).

That auth events form no cycle is a condition of the initial states of MainlineSort; StateRes and ResolveAuth do not need it.

**TopoSortProofs, LexTopoSort.** The inductive invariant is `TypeOK`, `HeapConsistent`,
`TopologicalOrder` and `NoEventTwice` together. That the result is topological is
not inductive alone: one has to know that an event in the heap has no edges left to
events that are still to come, which is what `HeapConsistent` says of `out` and `heap`.
From it follow `SortIsTopological`, `SortHasNoDuplicates`, `OnlyStuckEventsAreLost`,
`AcyclicGraphsLoseNothing` (an event that is missing refers to one that is missing, so
the missing ones are a set without a minimal element) and `SortImplementsTopoOrder`. `TiesAreBrokenByItem` needs more, as the heap
has forgotten an item once it is popped: `TieInv` says of every event in the vector under which item it was pushed (one only, since only
one of its edges was the last to clear) and that it beat every event that was waiting then.

**TopoSortProofs, PowerSort.** The invariant adds `BuildConsistent` (edges lead to nodes or to
stacked events, a finished node has all its edges, every node is in every auth-closed set) and
`SortRuns`, which says that from `LookUpLevels` on the steps are those of LexTopoSort, so that
its invariant carries over. `GraphIsExact` says that the graph is the least auth-closed set whatever
the order of the walk; with the topological order it gives `AuthEventsComeFirst` and
`NoPowerEventLost`.

**MainlineSortProofs.** `MainlineInv`: the mainline is a chain (`MainlineIsChain`) that goes on with the parent of its last event
(`ChainGoesOn`) and repeats none (`NoRepeat`, from the absence of cycles); every event that has been looked at has the depth of the first mainline event its walk
meets or was left out over an event that cannot be fetched (`Accounted`). A walk in progress is described by the set of events it has passed, none of
them on the mainline, so that no induction over its length is needed. `DepthsStayRight`, `NothingElseIsLost` and `OlderLevelsAreFirst` follow.

**StateResProofs.** The invariant ties `resolved` to the history `checked`
(`ResolvedOK`), the queue to what has been checked before (`QueueOK`) and the clean
state to the forks (`CleanIsAgreed`). `AgreedStateSurvives` needs that the clean state is put on top at the end:
during the passes a conflicted auth event may sit on an agreed key. `PowerLevelsStaySettled`
rests on all power levels events being power events, so that none is left for the second pass.

**RoomAuthProofs.** The rules are a function of the state, so little has to be carried along: `RoomInv` is the types and `Untouched` (the event
that is exempt from the rules, the one after `m.room.create`, meets a room without members and levels). The work is in the cases of the rules:
`BansStayInForce`, `EntryStaysEntitled`, `TopUserStaysSafe` and `ListedLevelsStayBounded` are action properties over every transition the rules
allow, `MembershipAlwaysExists` says where `auth_check` may panic.

**ResolveAuthProofs.** Two invariants. `RoomInv` says what the forks are: every event was allowed in the state it names (`Accepted`), the state of
a fork holds the newest event the fork has seen for each key (`Newest`), an event on a fork names the newest state of the common history or a newer one
(`NamesNewest`), and power levels and member events descend from their predecessors (`Descent`), because `auth_types_for_event` selects the key that such an
event replaces. `Descent` is why a power levels or member event in the conflicted set never has a key that the forks agree on, unless it is the agreed event:
extending the result by the agreed state at the end changes none of them, and what the second pass was checked against is in force in the result.
`ResolveInv` says what `resolve` has done: the queue of the first pass holds an event only together with those that name it (`WaitInOrder`), the second pass
neither removes anybody nor sets power levels and puts in only what these cover (`SecondPass`), a removal that nobody disputes gets its way when its turn comes and
keeps it (`RemovalsStand`). The last needs that a removal meets the power levels it was accepted under: if the forks agree on them, `NamesNewest` and
`Newest` pin them to the event the removal names. `RemovalsAlwaysWin`, `RestStaysEntitled` and `MergeFailsAsKnown` follow, for
any history, any events on the forks, and any order the sorts may return.

ResolveAuth takes the steps of `resolve` from StateRes (the instance `Res`) and answers with the rules where StateRes allows any answer. `MergeIsResolve` proves that this is a refinement:
every room that servers have built is an initial state of StateRes, since its forks are maps under the events' own keys, its power levels events are power events and, as `RoomInv` knows,
auth events have smaller ids and hence no cycles; and every step of a merge is a step of StateRes. The assumptions of StateRes follow from those of ResolveAuth (`ResolveAssumptions`), so the
lemmas of StateResProofs, instantiated in the same way, give `MergeKeepsPromises` and `MergeLevelsStaySettled`: what is proved of `resolve` with arbitrary verdicts holds of
merges under the real rules.

**ClientProofs, ClientSession.** `SessionInv`: a token that a client or a request has was handed to the application (`TokensKnown`); a new token is in one answer only
and in nobody's hands (`FreshUnshared`); a stream's position runs ahead of neither the account nor the answer under way (`PositionsKnown`);
a logout under way carries the token it was called on, and no session was ended by anything else (`LogoutsKnown`). `SessionsEndWhenAsked`, `StreamsHaveNoGap` and the action property
`StreamsNeverRepeat` follow, for any number of tasks, accounts, losses and calls. That a request never changes its token once it is built, whoever logs in meanwhile, is what
`SessionsEndWhenAsked` rests on.

**ClientProofs, PushRules.** `PushInv`: every rule has the kind of the list it stands in, and the predefined override rules lead theirs. `FirstMatchAlwaysStands` follows because
`Insert` only appends: in the five lists one after the other, a rule that is appended to its list comes behind every rule of the same or a higher priority, so a rule
that matched first before still does, or the new one does and is of a higher priority. `DefaultsAlwaysPrevail` goes through the override rules in their order, as nothing can stand before
them; of the enabled master rule it speaks only while no override rule has been added. It needs `WordsAreFound`, which is about texts and patterns of any length: the search takes the first place where the pattern occurs and, if that is inside a word, goes on
with the text from the next word. Nothing is skipped (`NothingSkipped`): a place with word boundaries cannot begin before that next word, and cutting off the text before a
word changes no boundary after it. So the reference definition satisfies the equation that defines `MatchesWord`, and it is the only function that does, as a shortest text on which
the two differ would leave a shorter one (a set of lengths has a minimum: this replaces the induction that the provers cannot do).

**ReleaseProofs.** `ReleaseInv` is about the order of the steps across any number of interrupted runs: versions in the tree and in the commit only move on
(`VersionsMoveOn`), the requirement on the macros goes before the version (`RequirementFirst`), publishing after the commit (`PublishedIsCommitted`), the tag before the push
and the GitHub release (`TagFirst`). `PublicStateStaysConsistent` and `NothingBackwardsUnasked` follow.

**WireProofs, SignedEvent.** `SignedInv`: every signature in the object was made by its server over the message it names, and a signed message holds the hash of the whole
event. `VerifiedWasSigned` and `SignaturesOutliveRedaction` follow from it; `RedactionsStayAgreed` from `CopyInv`, which says that the typed copy is what ruma-events reads of
the object, redacted as often as the object was: of the fields that the typed redaction keeps (`Kept`) it has what the object's content fills, and after redaction nothing else. Only
the user who authorised a join may be in a copy redacted in version 9 and not in the object.

**WireProofs, HttpApi.** `ApiInv` says at each stage of an exchange what is on the wire: the request, the answer or the JSON that the writing side makes of its value. Three facts
carry the proof. A type whose fields have their own places reads what it wrote and what its readers put in place of a missing list, unless a demanded one is missing (`RoundTrip`;
`WholeRoundTrip` for well-formed types, which skip no list), with the content type that is put in beside it (`ContentTypeAdded`). A request matches its own endpoint, and every other
one it matches has fewer literal segments, so the router picks its own (`RoutedToItsOwn`), with the parameters at their segments whether or not the last was left out
(`PathParametersRead`). While an error is read key by key, each key is still left, or stored, or not one of the kind the code will turn out to be (`Visiting`, kept by
`VisitKeeps`): this is the invariant of `visit_map`, which makes the order of the keys irrelevant. For unions, the first variant that fits is the one written, or one with the same
fields (`VariantRead`). `RequestsArrive`, `AnswersArrive` and `ValuesComeBack` follow. Of a value the proofs use only that it is a set of fields
of its type in which the path parameters are filled (`ValuesIn`), not the bound in `Values`. They hold for any declarations that satisfy the assumptions, so an endpoint or a type that
is added needs only these to be looked at.

The proofs corrected the development. `TopUserIsSafe` and `RemovedUsersChangeNothing` held in their small instances only because no third party
invite was redeemed for or by the wrong user there; they now name the exception, and the instances meet it. `RestIsEntitled` did not except the
events whose senders the rules do not look at. `RemovalsHold` did not say that the power levels and join rules must be
out of question and that nobody else decides about the removed user. `MergeFailuresKnown` did not say that the power levels are readable.

Proved facts that no run lists any more because another one implies them or they are steps of its proof: the type invariants,
`HeapConsistent`, `NoEventTwice` and `NothingLost` of LexTopoSort, `BuildConsistent` and `FailsOnlyOnBadLevels` of PowerSort.

Only model-checked:

* `Terminates`, `TerminatesPS`, `StreamCatchesUp` and `PrereleaseCompletes`: the prover has no fairness and no ENABLED.
* `OwnKeyOrder`, the documented order that the code does not keep (the run `lex_topo_own_key` refutes it).

Every other property of a run is stated by a theorem.

## What is not modelled

* Deserialization beyond "readable or not", JSON syntax and canonical forms, url encoding, the conversions of single values (durations,
  base64, ranges, filters), the wording of errors and logs. In the wire tables a value of a field is only "default" or "something else",
  and a path parameter never equals a literal segment: `query/:query_type` and `pubkey/isvalid` beside `pubkey/:key_id` would otherwise meet.
* Restricted joins and knocking: `room_version.rs` sets flags for them from version 7 on, behind an unstable
  feature, but no rule reads the flags; a knock is refused like any unknown transition, in the model too.
* Of ruma-signatures `verify_json`, whose search `verify_event` repeats, the parsing of keys and the cryptography.
* Of ruma-events the generated enums over event types, relations and convenience constructors.
* Of xtask `trim_softbreaks` (formatting of the notes), the command line, and the ci task, which only runs commands.
* Identifiers: validation of strings character by character. What the modelled code reads of them is in its modules (whether an
  event ID names a server, whether a key ID splits, whether a string is a user ID).
* Globs other than `*` and literal patterns (the crate wildmatch, external); the facade; test utilities.

## Plan

Done: LexTopoSort with TopoOrder, PowerSort, MainlineSort, EventAuth with RoomAuth, StateRes, ResolveAuth, ClientSession, Release, SignedEvent, PushRules, the
wire tables and HttpApi, all with proofs of their safety properties.

What could be added next: the conversions of single values (identifiers, canonical JSON, url encoding), which need models of strings; and fairness
arguments for the four liveness properties once a prover for them is at hand.
