----------------------------- MODULE SignedEvent ----------------------------
(***************************************************************************)
(* The life of one room event: ruma-signatures hashes, signs, redacts and  *)
(* verifies it as a canonical JSON object, ruma-events reads, redacts and  *)
(* writes it as a typed value.                                             *)
(*                                                                         *)
(* An object is a record: its type, the set `keys' of its other top-level  *)
(* keys, its content (a map as in module Wire), the sha256 entry of its    *)
(* hashes (at most one), its signatures, and the set `bad' of keys whose   *)
(* value is no JSON object though the code wants one.  A hash is the       *)
(* object that was hashed and a signature the object that was signed, with *)
(* the server and the key: both are taken to be free of collisions.  The   *)
(* key "bulk" stands for a value that makes the event too large,           *)
(* "redacted_because" for an unsigned object that holds that key.          *)
(***************************************************************************)
EXTENDS EventObjects, Naturals, FiniteSets

CONSTANTS
  Version,       \* room versions, as numbers
  Server,        \* the servers that may sign
  Sender,        \* the server of the event's sender
  IdServer,      \* the server named in the event_id of room versions 1 and 2
  KeyId,         \* key identifiers, as numbers in the order of the map
  Splits,        \* those that split_id accepts
  ContentOf,     \* event type |-> the fields of its content
  Unreadable,    \* the types whose redacted form is known to be unreadable
  MaxEdits, MaxSigns

ASSUME Parts == KeyId \subseteq Nat /\ Splits \subseteq KeyId /\ Sender \in Server /\ IdServer \in Server
ASSUME KnownUnreadable == {"m.room.join_rules", "m.room.redaction"} \subseteq Unreadable

VARIABLES
  version,   \* the version of the room
  event,     \* the object
  signed,    \* what each server has hashed and signed
  copy,      \* a typed value read from the event
  edits      \* how often the event has been changed by hand

vars == <<version, event, signed, copy, edits>>

NoCopy == [state |-> "none"]
EventType == DOMAIN ContentOf

-----------------------------------------------------------------------------
(***************************************************************************)
(* Redaction and hashes                                                    *)
(***************************************************************************)

\* of the keys that the model tells apart
AllowedKeys == {"event_id", "content", "hashes", "signatures"}
AllowedKeysNoHashes == {"event_id", "content", "signatures"}

AllowedContentKeys(type, v) ==
  CASE type = "m.room.member"             -> {"membership"}
    [] type = "m.room.create"             -> {"creator"}
    [] type = "m.room.join_rules"         -> {"join_rule"}
    [] type = "m.room.power_levels"       -> {"ban", "events", "events_default", "kick", "redact",
                                              "state_default", "users", "users_default"}
    [] type = "m.room.aliases"            -> IF v \in 1..5 THEN {"aliases"} ELSE {}
    [] type = "m.room.history_visibility" -> {"history_visibility"}
    [] OTHER                              -> {}

Only(content, names) == [p \in {q \in DOMAIN content : q[2] \in names} |-> content[p]]

\* redact; an object with a content that is no object is refused
Redactable(o) == "content" \notin o.bad
RedactWith(o, v, keys, names) ==
  [o EXCEPT !.keys = @ \cap keys,
            !.content = Only(@, names),
            !.hashes = IF "hashes" \in keys THEN @ ELSE {},
            !.bad = @ \cap keys]
RedactNoHashes(o, v) == RedactWith(o, v, AllowedKeysNoHashes, AllowedContentKeys(o.type, v))
Redact(o, v)         == RedactWith(o, v, AllowedKeys, AllowedContentKeys(o.type, v))

\* canonical_json_with_fields_to_remove
Without(o, fields) ==
  [type |-> o.type, keys |-> o.keys \ fields, content |-> o.content,
   hashes |-> IF "hashes" \in fields THEN {} ELSE o.hashes, bad |-> o.bad \ fields]
UnsignedKeys == {"unsigned", "redacted_because"}

TooLarge(o) == "bulk" \in o.keys

\* all that a server vouches for with its signature and its hash
Whole(o) == [type |-> o.type, keys |-> o.keys \ UnsignedKeys, content |-> o.content]
ContentHashOfRedacted(o) == Without(Redact(o, 6), UnsignedKeys \cup {"hashes", "signatures"})
ContentHash(o)   == Without(o, UnsignedKeys \cup {"hashes", "signatures"})
ReferenceHash(o) == Without(Redact(o, version), UnsignedKeys \cup {"age_ts", "signatures"})

-----------------------------------------------------------------------------
(***************************************************************************)
(* Signing                                                                 *)
(***************************************************************************)
Message(o) == Without(o, UnsignedKeys \cup {"signatures"})

\* sign_json adds to the signatures that are there, replacing one with the same key
Sign(s, k, o) ==
  [o EXCEPT !.signatures = {sig \in @ : <<sig.server, sig.key>> # <<s, k>>}
                             \cup {[server |-> s, key |-> k, message |-> Message(o)]}]

\* hash_and_sign_event.  What fails after the hash was put in leaves it there.
HashAndSign(s, k) ==
  /\ Cardinality(signed) < MaxSigns
  /\ ~TooLarge(event) /\ "hashes" \notin event.bad
  /\ LET hashed   == [event EXCEPT !.hashes = {ContentHash(event)}]
         redacted == Redact(hashed, version)
     IN  IF Redactable(event) /\ "signatures" \notin event.bad
         THEN /\ event' = [hashed EXCEPT !.signatures = Sign(s, k, redacted).signatures]
              /\ signed' = signed \cup {[server |-> s, key |-> k, all |-> Whole(event), message |-> Message(redacted)]}
         ELSE event' = hashed /\ UNCHANGED signed
  /\ UNCHANGED <<version, copy, edits>>

\* servers_to_check_signatures: the sender's, and the event_id's in the first two room versions
ServersToCheck(o) ==
  (IF o.type = "m.room.third_party_invite" THEN {} ELSE {Sender})
    \cup (IF version \in {1, 2} THEN {IdServer} ELSE {})

\* the public key that is tried: the first one, in the order of the map, with a signature by it;
\* an identifier that does not split ends the search
TriedKeys(o, s, known) ==
  {k \in known[s] : /\ \A j \in known[s] : j <= k => j \in Splits
                    /\ \E sig \in o.signatures : sig.server = s /\ sig.key = k}
SignedBy(o, s, known) ==
  /\ TriedKeys(o, s, known) # {}
  /\ \E sig \in o.signatures :
       /\ sig.server = s /\ sig.key \in TriedKeys(o, s, known)
       /\ \A k \in TriedKeys(o, s, known) : sig.key <= k
       /\ sig.message = Message(Redact(o, version))

\* verify_event, which changes nothing
VerifyEvent(o, known) ==
  IF ~Redactable(o) \/ {"hashes", "signatures"} \cap o.bad # {} \/ o.hashes = {} \/ o.signatures = {}
    \/ (version \in {1, 2} /\ "event_id" \notin o.keys)
    \/ (\E s \in ServersToCheck(o) : ~SignedBy(o, s, known))
    \/ TooLarge(o)
  THEN "error"
  ELSE IF o.hashes = {ContentHash(o)} THEN "All" ELSE "Signatures"

Verifies(o, known) == VerifyEvent(o, known) \in {"All", "Signatures"}

\* the verifier knows some of the keys
KeyMap == {[s \in Server |-> ids] : ids \in SUBSET KeyId}

-----------------------------------------------------------------------------
(***************************************************************************)
(* The typed event of ruma-events                                          *)
(***************************************************************************)
Names(F) == {f.name : f \in F}

JoinAuthorizedVia == "join_authorised_via_users_server"

\* the fields with skip_redaction, and what the custom redact functions of two types keep; the join
\* rule is flattened, so the list of a restricted one goes with it
KeptFields(type, v) ==
  CASE type = "m.room.create"             -> {"creator"}
    [] type = "m.room.join_rules"         -> {"join_rule", "allow"}
    [] type = "m.room.history_visibility" -> {"history_visibility"}
    [] type = "m.room.power_levels"       -> {"ban", "events", "events_default", "kick", "redact",
                                              "state_default", "users", "users_default"}
    [] type = "m.room.member"             -> {"membership"} \cup (IF v = 9 THEN {JoinAuthorizedVia} ELSE {})
    [] type = "m.room.aliases"            -> IF v \in 1..5 THEN {"aliases"} ELSE {}
    [] OTHER                              -> {}
EverKept(type) == KeptFields(type, 1) \cup KeptFields(type, 9)

\* the Redacted...EventContent structs
RedactedContentOf(type) ==
  CASE type = "m.room.member"  -> RedactedRoomMemberEventContent
    [] type = "m.room.aliases" -> RedactedRoomAliasesEventContent
    [] OTHER                   -> {f \in ContentOf[type] : f.name \in KeptFields(type, 1)}

\* a redacted struct has the kept fields of the full one, and demands none that it may skip or that the
\* full one does not demand; a content has no list that its reader replaces
ASSUME RedactedFields ==
  \A type \in EventType :
    /\ {Place(f) : f \in RedactedContentOf(type)}
         = {Place(f) : f \in {g \in ContentOf[type] : g.name \in EverKept(type)}}
    /\ Refilled(ContentOf[type]) = {} /\ Refilled(RedactedContentOf(type)) = {}
    /\ \A f \in RedactedContentOf(type) : f.kind \in Demanded =>
         /\ f.kind \notin Skippable
         /\ \E g \in ContentOf[type] : Place(g) = Place(f) /\ g.kind \in Demanded

HasDeserializeFields(type) ==
  CASE type \in {"m.room.member", "m.room.aliases"} -> "Optional"
    [] RedactedContentOf(type) = {}                 -> "False"
    [] OTHER                                        -> "True"
HasSerializeFields(type, content) ==
  CASE type = "m.room.aliases" -> "aliases" \in content
    [] OTHER                   -> RedactedContentOf(type) # {}

\* AnyRoomEvent is redacted when its unsigned says so.  The redacted join rules flatten a field whose
\* reader wants the raw JSON, which a flattened map cannot give; a redacted redaction demands redacts.
ReadContent(o, F) ==
  IF Redactable(o) /\ Readable(F, o.content) THEN [state |-> "plain", type |-> o.type, content |-> Names(Read(F, o.content))]
  ELSE [state |-> "unreadable"]
ReadPlain(o) ==
  IF "content" \notin o.keys \/ (o.type = "m.room.redaction" /\ "redacts" \notin o.keys)
  THEN [state |-> "unreadable"]
  ELSE ReadContent(o, ContentOf[o.type])
ReadRedacted(o) ==
  IF \/ o.type = "m.room.join_rules"
     \/ o.type = "m.room.redaction" /\ {"redacts", "content"} \cap o.keys # {"redacts", "content"}
     \/ HasDeserializeFields(o.type) = "True" /\ "content" \notin o.keys
  THEN [state |-> "unreadable"]
  ELSE IF HasDeserializeFields(o.type) = "False"
  THEN [state |-> "redacted", type |-> o.type, content |-> {}]
  ELSE LET read == ReadContent(o, RedactedContentOf(o.type))
       IN  IF read.state = "plain" THEN [read EXCEPT !.state = "redacted"] ELSE read
ReadAny(o) == IF "redacted_because" \in o.keys THEN ReadRedacted(o) ELSE ReadPlain(o)

ReadEvent ==
  /\ copy' = ReadAny(event)
  /\ UNCHANGED <<version, event, signed, edits>>

\* Redact for AnyRoomEvent: a redacted event stays as it is
RedactTypedAll(c, v) == [c EXCEPT !.state = "redacted", !.content = {}]
RedactTyped(c, v) == [c EXCEPT !.state = "redacted", !.content = @ \cap KeptFields(c.type, v)]
RedactCopy ==
  /\ copy.state = "plain"
  /\ copy' = RedactTyped(copy, version)
  /\ UNCHANGED <<version, event, signed, edits>>

\* Serialize for the redacted event structs, with the redaction in unsigned
WriteRedacted ==
  /\ copy.state = "redacted"
  /\ LET F == RedactedContentOf(copy.type)
         has == HasSerializeFields(copy.type, copy.content)
     IN  event' = [type |-> copy.type, bad |-> {}, hashes |-> {}, signatures |-> {},
                   keys |-> {"event_id", "redacted_because"} \cup (IF has THEN {"content"} ELSE {}),
                   content |-> IF has THEN Write(F, {f \in F : f.name \in copy.content}) ELSE <<>>]
  /\ UNCHANGED <<version, signed, copy, edits>>

-----------------------------------------------------------------------------
(***************************************************************************)
(* What a server does with the object itself                               *)
(***************************************************************************)
NewEvent(type, value, bad) ==
  [type |-> type, content |-> Write(ContentOf[type], value), hashes |-> {}, signatures |-> {}, bad |-> bad,
   keys |-> {"event_id", "content"} \cup (IF type = "m.room.redaction" THEN {"redacts"} ELSE {})]

Init ==
  /\ version \in Version
  /\ \E type \in EventType : \E value \in Values(ContentOf[type]), bad \in {{}, {"signatures"}} :
       event = NewEvent(type, value, bad)
  /\ signed = {} /\ copy = NoCopy /\ edits = 0

RedactEvent ==
  /\ Redactable(event)
  /\ event' = Redact(event, version)
  /\ UNCHANGED <<version, signed, copy, edits>>

\* the age before the event goes to a client, the redaction after the event was redacted
IsRedacted(o) == Redactable(o) /\ Redact(o, version) = [o EXCEPT !.keys = @ \ UnsignedKeys]
AddUnsigned(key) ==
  /\ key \in UnsignedKeys \ event.keys
  /\ key = "redacted_because" => IsRedacted(event)
  /\ event' = [event EXCEPT !.keys = @ \cup {key}]
  /\ UNCHANGED <<version, signed, copy, edits>>

\* a change of the event: another content, a top-level key or a key of the content more or fewer
Edit ==
  /\ edits < MaxEdits
  /\ \/ event' = [event EXCEPT !.bad = @ \cup {"content"}]
     \/ \E key \in {"age_ts", "bulk"} \ event.keys : event' = [event EXCEPT !.keys = @ \cup {key}]
     \/ \E p \in DOMAIN event.content : event' = [event EXCEPT !.content = [q \in DOMAIN @ \ {p} |-> @[q]]]
     \/ /\ "content" \in event.keys
        /\ event' = [event EXCEPT !.content = [q \in DOMAIN @ \cup {<<"body", "extra">>} |->
                                                 q = <<"body", "extra">> \/ @[q]]]
  /\ edits' = edits + 1
  /\ copy' = NoCopy
  /\ UNCHANGED <<version, signed>>

Next ==
  \/ \E s \in Server, k \in Splits : HashAndSign(s, k)
  \/ RedactEvent
  \/ \E key \in UnsignedKeys : AddUnsigned(key)
  \/ Edit
  \/ ReadEvent \/ RedactCopy \/ WriteRedacted

Spec == Init /\ [][Next]_vars

-----------------------------------------------------------------------------
(***************************************************************************)
(* Properties                                                              *)
(***************************************************************************)

\* verify_event vouches for no more than what was signed: after Ok(Signatures) the redacted event, and
\* after Ok(All) the whole event, is what each server whose signature counts has passed to
\* hash_and_sign_event.  This must hold after edits, and after a signing that failed when the new
\* hash was already in the object beside the old signatures.
VerifiedMeansSigned ==
  \A known \in KeyMap : Verifies(event, known) =>
    \A s \in ServersToCheck(event) : \E r \in signed :
      /\ r.server = s /\ r.key \in known[s]
      /\ r.message = Message(Redact(event, version))
      /\ VerifyEvent(event, known) = "All" => r.all = Whole(event)

\* An event that verifies goes on verifying, and keeps the reference hash that is its ID, when it is
\* redacted, when unsigned data is added, and when another server signs it too; the last only if the
\* event verifies with its hash, for hash_and_sign_event puts in a new hash.
SignatureOutlivesRedaction ==
  [][\A known \in KeyMap :
       /\ Verifies(event, known)
       /\ \/ RedactEvent \/ \E key \in UnsignedKeys : AddUnsigned(key)
          \/ VerifyEvent(event, known) = "All" /\ \E s \in Server, k \in Splits : HashAndSign(s, k)
       => Verifies(event, known)' /\ ReferenceHash(event)' = ReferenceHash(event)]_vars

\* The two redactions agree: a typed event that was redacted (Redact) equals what a client reads of the
\* same event after it was redacted as JSON (ruma_signatures::redact), or after it was written by
\* ruma-events.  Two exceptions the code makes: the types whose redacted form cannot be read, and member
\* events of room version 9, where only the typed redaction keeps who authorised the join.
RedactionsAgree ==
  copy.state = "redacted" /\ "redacted_because" \in event.keys /\ event.type = copy.type =>
    LET read == ReadAny(event)
    IN  \/ read = copy
        \/ event.type \in Unreadable
        \/ /\ version = 9 /\ event.type = "m.room.member" /\ JoinAuthorizedVia \in copy.content
           /\ read = [copy EXCEPT !.content = @ \ {JoinAuthorizedVia}]

=============================================================================
