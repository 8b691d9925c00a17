----------------------------- MODULE WireProofs -----------------------------
(***************************************************************************)
(* Proofs about what leaves one program and reaches another.               *)
(*                                                                         *)
(* SignedEvent: what a signature vouches for and what it survives, for any *)
(* event types, servers, keys and room versions, and any number of edits   *)
(* and signings.                                                           *)
(*                                                                         *)
(* HttpApi: that a value comes back from the wire as it was written, for   *)
(* any endpoints, types and errors whose declarations keep to the module's *)
(* assumptions.                                                            *)
(***************************************************************************)
EXTENDS SignedEvent, HttpApi, FiniteSetTheorems, WellFoundedInduction, TLAPS

ObjectOf(t, k, c, h, s, b) ==
  [type : {t}, keys : {k}, content : {c}, hashes : {h}, signatures : {s}, bad : {b}]

IsObject(o) == o \in ObjectOf(o.type, o.keys, o.content, o.hashes, o.signatures, o.bad)

\* The hashes and the signatures of an object are no keys of their own.
KeysApart(o) == {"hashes", "signatures"} \cap o.keys = {}

\* The message that was signed holds the hash of all that was signed.
RecordOK(r) ==
  \E h \in r.message.hashes :
    /\ r.message.hashes = {h}
    /\ r.all = [type |-> h.type, keys |-> h.keys, content |-> h.content]

\* Every signature in the object was made by its server, over that message.
SignaturesAreMade ==
  \A sig \in event.signatures : \E r \in signed :
    r.server = sig.server /\ r.key = sig.key /\ r.message = sig.message

\* The inductive invariant.
SignedInv ==
  /\ IsObject(event)
  /\ KeysApart(event)
  /\ SignaturesAreMade
  /\ \A r \in signed : RecordOK(r)

-----------------------------------------------------------------------------
\* What redact leaves of an object.
LEMMA RedactFields ==
  ASSUME NEW o, IsObject(o), NEW v
  PROVE  Redact(o, v) = [type |-> o.type, keys |-> o.keys \cap AllowedKeys,
                         content |-> Only(o.content, AllowedContentKeys(o.type, v)),
                         hashes |-> o.hashes, signatures |-> o.signatures,
                         bad |-> o.bad \cap AllowedKeys]
  <1>1. "hashes" \in AllowedKeys
    BY DEF AllowedKeys
  <1>2. Redact(o, v) \in ObjectOf(o.type, o.keys \cap AllowedKeys,
                                  Only(o.content, AllowedContentKeys(o.type, v)),
                                  o.hashes, o.signatures, o.bad \cap AllowedKeys)
    BY <1>1 DEF IsObject, ObjectOf, Redact, RedactWith
  <1>3. QED
    BY <1>2 DEF ObjectOf

\* Restricting a map twice is restricting it once.
LEMMA OnlyTwice ==
  ASSUME NEW c, NEW names
  PROVE  Only(Only(c, names), names) = Only(c, names)
  BY DEF Only

\* An object that is redacted already is not changed by redact.
LEMMA RedactTwice ==
  ASSUME NEW o, IsObject(o), NEW v
  PROVE  IsObject(Redact(o, v)) /\ Redact(Redact(o, v), v) = Redact(o, v)
  <1>1. IsObject(Redact(o, v))
    BY RedactFields DEF IsObject, ObjectOf
  <1>2. /\ Redact(o, v).type = o.type
        /\ Redact(o, v).keys \cap AllowedKeys = Redact(o, v).keys
        /\ Redact(o, v).bad \cap AllowedKeys = Redact(o, v).bad
    BY RedactFields
  <1>3. Only(Redact(o, v).content, AllowedContentKeys(o.type, v)) = Redact(o, v).content
    BY RedactFields, OnlyTwice
  <1> DEFINE p == Redact(o, v)
  <1> HIDE DEF p
  <1>4. Redact(p, v) = [type |-> p.type, keys |-> p.keys \cap AllowedKeys,
                        content |-> Only(p.content, AllowedContentKeys(p.type, v)),
                        hashes |-> p.hashes, signatures |-> p.signatures,
                        bad |-> p.bad \cap AllowedKeys]
    BY <1>1, RedactFields DEF p
  <1>5. Redact(p, v) = p
    BY <1>1, <1>2, <1>3, <1>4 DEF IsObject, ObjectOf, p
  <1>6. QED
    BY <1>1, <1>5 DEF p

\* Hashes and signatures outlive redact.
LEMMA RedactKeeps ==
  ASSUME NEW o, IsObject(o), NEW v
  PROVE  /\ IsObject(Redact(o, v))
         /\ Redact(o, v).signatures = o.signatures /\ Redact(o, v).hashes = o.hashes
  BY RedactFields, RedactTwice

\* The hash covers what the signer vouches for.
LEMMA HashCoversWhole ==
  ASSUME NEW o, IsObject(o), KeysApart(o)
  PROVE  Whole(o) = [type |-> ContentHash(o).type, keys |-> ContentHash(o).keys,
                     content |-> ContentHash(o).content]
  <1>1. o.keys \ (UnsignedKeys \cup {"hashes", "signatures"}) = o.keys \ UnsignedKeys
    BY DEF KeysApart
  <1>2. QED
    BY <1>1 DEF Whole, ContentHash, Without

\* What a signature that counts vouches for.
LEMMA VerifiedImplies ==
  ASSUME NEW known, Verifies(event, known), NEW s \in ServersToCheck(event)
  PROVE  /\ \E sig \in event.signatures :
              sig.server = s /\ sig.key \in known[s] /\ sig.message = Message(Redact(event, version))
         /\ VerifyEvent(event, known) = "All" => event.hashes = {ContentHash(event)}
  BY DEF Verifies, VerifyEvent, SignedBy, TriedKeys

-----------------------------------------------------------------------------
\* What hash_and_sign_event puts into the object and on record.
LEMMA SigningRecorded ==
  ASSUME IsObject(event), KeysApart(event), NEW s, NEW k, HashAndSign(s, k)
  PROVE  /\ event' \in ObjectOf(event.type, event.keys, event.content, {ContentHash(event)},
                                event'.signatures, event.bad)
         /\ \/ signed' = signed /\ event'.signatures = event.signatures
            \/ \E r : /\ signed' = signed \cup {r} /\ r.server = s /\ r.key = k /\ RecordOK(r)
                     /\ r.message = Message(Redact([event EXCEPT !.hashes = {ContentHash(event)}], version))
                     /\ event'.signatures =
                          {sig \in event.signatures : <<sig.server, sig.key>> # <<s, k>>}
                            \cup {[server |-> s, key |-> k, message |-> r.message]}
  <1> DEFINE hashed == [event EXCEPT !.hashes = {ContentHash(event)}]
             redacted == Redact(hashed, version)
             r == [server |-> s, key |-> k, all |-> Whole(event), message |-> Message(redacted)]
  <1>1. hashed \in ObjectOf(event.type, event.keys, event.content, {ContentHash(event)},
                            event.signatures, event.bad)
    BY DEF IsObject, ObjectOf
  <1>2. IsObject(hashed) /\ hashed.signatures = event.signatures /\ hashed.hashes = {ContentHash(event)}
    BY <1>1 DEF IsObject, ObjectOf
  <1>3. /\ redacted.signatures = event.signatures /\ redacted.hashes = {ContentHash(event)}
        /\ IsObject(redacted)
    BY <1>2, RedactKeeps
  <1>4. Message(redacted).hashes = {ContentHash(event)}
    BY <1>3 DEF Message, Without, UnsignedKeys
  <1>5. RecordOK(r)
    BY <1>4, HashCoversWhole DEF RecordOK
  <1>6. Sign(s, k, redacted).signatures =
          {sig \in event.signatures : <<sig.server, sig.key>> # <<s, k>>}
            \cup {[server |-> s, key |-> k, message |-> Message(redacted)]}
    BY <1>3 DEF Sign, IsObject, ObjectOf
  <1>7. CASE event' = hashed /\ signed' = signed
    BY <1>1, <1>7 DEF ObjectOf
  <1>8. CASE /\ event' = [hashed EXCEPT !.signatures = Sign(s, k, redacted).signatures]
             /\ signed' = signed \cup {r}
    <2>1. event' \in ObjectOf(event.type, event.keys, event.content, {ContentHash(event)},
                              Sign(s, k, redacted).signatures, event.bad)
      BY <1>1, <1>8 DEF ObjectOf
    <2>2. event'.signatures = Sign(s, k, redacted).signatures
      BY <2>1 DEF ObjectOf
    <2>3. r.server = s /\ r.key = k /\ r.message = Message(redacted)
      OBVIOUS
    <2>4. QED
      BY <1>5, <1>6, <1>8, <2>1, <2>2, <2>3
  <1>9. QED
    BY <1>7, <1>8 DEF HashAndSign

\* A new event has neither hash nor signature.
LEMMA InvInit == Init => SignedInv
  <1> SUFFICES ASSUME Init PROVE SignedInv
    OBVIOUS
  <1>1. PICK type, value, bad : event = NewEvent(type, value, bad)
    BY DEF Init
  <1>2. IsObject(event) /\ event.signatures = {}
    BY <1>1 DEF NewEvent, IsObject, ObjectOf
  <1>3. KeysApart(event)
    BY <1>1 DEF NewEvent, KeysApart
  <1>4. QED
    BY <1>2, <1>3 DEF Init, SignedInv, SignaturesAreMade

\* Nothing that happens to the object adds a signature that nobody made.
LEMMA InvStep == SignedInv /\ [Next]_vars => SignedInv'
  <1> SUFFICES ASSUME SignedInv, [Next]_vars PROVE SignedInv'
    OBVIOUS
  <1>i. /\ IsObject(event) /\ KeysApart(event) /\ SignaturesAreMade
        /\ \A r \in signed : RecordOK(r)
    BY DEF SignedInv
  <1>1. ASSUME NEW s \in Server, NEW k \in Splits, HashAndSign(s, k) PROVE SignedInv'
    <2>1. event' \in ObjectOf(event.type, event.keys, event.content, {ContentHash(event)},
                              event'.signatures, event.bad)
      BY <1>1, <1>i, SigningRecorded
    <2>2. IsObject(event)' /\ event'.keys = event.keys
      BY <2>1 DEF IsObject, ObjectOf
    <2>3. KeysApart(event)'
      BY <1>i, <2>2 DEF KeysApart
    <2>4. CASE signed' = signed /\ event'.signatures = event.signatures
      BY <1>i, <2>2, <2>3, <2>4 DEF SignedInv, SignaturesAreMade
    <2>5. ASSUME NEW r, signed' = signed \cup {r}, r.server = s, r.key = k, RecordOK(r),
                 event'.signatures =
                   {sig \in event.signatures : <<sig.server, sig.key>> # <<s, k>>}
                     \cup {[server |-> s, key |-> k, message |-> r.message]}
          PROVE  SignedInv'
      BY <1>i, <2>2, <2>3, <2>5 DEF SignedInv, SignaturesAreMade
    <2>6. QED
      BY <1>1, <1>i, <2>4, <2>5, SigningRecorded
  <1>k. ASSUME IsObject(event)', KeysApart(event)', signed' = signed,
               event'.signatures \subseteq event.signatures
        PROVE  SignedInv'
    BY <1>i, <1>k DEF SignedInv, SignaturesAreMade
  <1>2. CASE RedactEvent
    <2>1. event' = Redact(event, version) /\ signed' = signed
      BY <1>2 DEF RedactEvent
    <2>2. IsObject(event)'
      BY <1>i, <2>1, RedactTwice
    <2>3. event'.signatures = event.signatures /\ event'.keys \subseteq event.keys
      BY <1>i, <2>1, RedactFields
    <2>4. KeysApart(event)'
      BY <1>i, <2>3 DEF KeysApart
    <2>5. QED
      BY <1>k, <2>1, <2>2, <2>3, <2>4
  <1>3. ASSUME NEW key \in UnsignedKeys, AddUnsigned(key) PROVE SignedInv'
    <2>1. event' = [event EXCEPT !.keys = event.keys \cup {key}] /\ signed' = signed
      BY <1>3 DEF AddUnsigned
    <2>2. IsObject(event)' /\ event'.signatures = event.signatures /\ event'.keys = event.keys \cup {key}
      BY <1>i, <2>1 DEF IsObject, ObjectOf
    <2>3. KeysApart(event)'
      BY <1>i, <1>3, <2>2 DEF KeysApart, UnsignedKeys
    <2>4. QED
      BY <1>k, <2>1, <2>2, <2>3
  <1>4. CASE Edit
    <2>1. signed' = signed
      BY <1>4 DEF Edit
    <2>2. CASE \E b : event' = [event EXCEPT !.bad = b]
      <3>1. /\ IsObject(event)' /\ event'.signatures = event.signatures
            /\ event'.keys = event.keys
        BY <1>i, <2>2 DEF IsObject, ObjectOf
      <3>2. QED
        BY <1>i, <1>k, <2>1, <3>1 DEF KeysApart
    <2>3. CASE \E key \in {"age_ts", "bulk"} : event' = [event EXCEPT !.keys = event.keys \cup {key}]
      <3>1. PICK key \in {"age_ts", "bulk"} : event' = [event EXCEPT !.keys = event.keys \cup {key}]
        BY <2>3
      <3>2. /\ IsObject(event)' /\ event'.signatures = event.signatures
            /\ event'.keys = event.keys \cup {key}
        BY <1>i, <3>1 DEF IsObject, ObjectOf
      <3>3. KeysApart(event)'
        BY <1>i, <3>2 DEF KeysApart
      <3>4. QED
        BY <1>k, <2>1, <3>2, <3>3
    <2>4. CASE \E c : event' = [event EXCEPT !.content = c]
      <3>1. /\ IsObject(event)' /\ event'.signatures = event.signatures
            /\ event'.keys = event.keys
        BY <1>i, <2>4 DEF IsObject, ObjectOf
      <3>2. QED
        BY <1>i, <1>k, <2>1, <3>1 DEF KeysApart
    <2>5. QED
      BY <1>4, <2>2, <2>3, <2>4 DEF Edit
  <1>5. CASE ReadEvent \/ RedactCopy \/ UNCHANGED vars
    BY <1>i, <1>5, <1>k DEF ReadEvent, RedactCopy, vars
  <1>6. CASE WriteRedacted
    <2> DEFINE has == HasSerializeFields(copy.type, copy.content)
               F == RedactedContentOf(copy.type)
               K == {"event_id", "redacted_because"} \cup (IF has THEN {"content"} ELSE {})
               c == IF has THEN Write(F, {f \in F : f.name \in copy.content}) ELSE <<>>
    <2>0. K \subseteq {"event_id", "redacted_because", "content"}
      OBVIOUS
    <2>1. event' = [type |-> copy.type, bad |-> {}, hashes |-> {}, signatures |-> {}, keys |-> K,
                    content |-> c]
      BY <1>6 DEF WriteRedacted
    <2> HIDE DEF K, c
    <2>2. IsObject(event)' /\ event'.signatures = {} /\ event'.keys = K
      BY <2>1 DEF IsObject, ObjectOf
    <2>3. KeysApart(event)'
      BY <2>0, <2>2 DEF KeysApart
    <2>4. signed' = signed
      BY <1>6 DEF WriteRedacted
    <2>5. QED
      BY <1>k, <2>2, <2>3, <2>4
  <1>7. QED
    BY <1>1, <1>2, <1>3, <1>4, <1>5, <1>6 DEF Next

-----------------------------------------------------------------------------
\* What is in the object, and what is on record, at any time.
THEOREM SignedInvariant == Spec => []SignedInv
  BY InvInit, InvStep, PTL DEF Spec

\* verify_event vouches for no more than what was passed to
\* hash_and_sign_event by each server whose signature counts: for the redacted
\* event after Ok(Signatures), for the whole event after Ok(All).
THEOREM VerifiedWasSigned == Spec => []VerifiedMeansSigned
  <1>1. SignedInv => VerifiedMeansSigned
    <2> SUFFICES ASSUME SignedInv, NEW known \in KeyMap, Verifies(event, known),
                        NEW s \in ServersToCheck(event)
                 PROVE  \E r \in signed :
                          /\ r.server = s /\ r.key \in known[s]
                          /\ r.message = Message(Redact(event, version))
                          /\ VerifyEvent(event, known) = "All" => r.all = Whole(event)
      BY DEF VerifiedMeansSigned
    <2>1. PICK sig \in event.signatures :
            sig.server = s /\ sig.key \in known[s] /\ sig.message = Message(Redact(event, version))
      BY VerifiedImplies
    <2>2. PICK r \in signed : r.server = s /\ r.key = sig.key /\ r.message = sig.message
      BY <2>1 DEF SignedInv, SignaturesAreMade
    <2>3. ASSUME VerifyEvent(event, known) = "All" PROVE r.all = Whole(event)
      <3>1. event.hashes = {ContentHash(event)}
        BY <2>3, VerifiedImplies
      <3>2. r.message.hashes = {ContentHash(event)}
        BY <2>1, <2>2, <3>1, RedactKeeps DEF SignedInv, Message, Without, UnsignedKeys
      <3>3. r.all = [type |-> ContentHash(event).type, keys |-> ContentHash(event).keys,
                     content |-> ContentHash(event).content]
        BY <3>2 DEF SignedInv, RecordOK
      <3>4. QED
        BY <3>3, HashCoversWhole DEF SignedInv
    <2>4. QED
      BY <2>1, <2>2, <2>3
  <1>2. QED
    BY <1>1, SignedInvariant, PTL

-----------------------------------------------------------------------------
\* What verify_event looks at.
LEMMA StaysVerified ==
  ASSUME NEW o, NEW p, NEW known, Verifies(o, known),
         p.type = o.type, Redactable(p), {"hashes", "signatures"} \cap p.bad = {},
         p.hashes # {}, p.signatures # {}, "event_id" \in o.keys => "event_id" \in p.keys,
         ~TooLarge(p),
         \A s \in ServersToCheck(o) : SignedBy(o, s, known) => SignedBy(p, s, known)
  PROVE  Verifies(p, known)
  BY DEF Verifies, VerifyEvent, ServersToCheck

\* ... and what it has found of an event that verifies.
LEMMA VerifiedObject ==
  ASSUME NEW o, NEW known, Verifies(o, known)
  PROVE  /\ Redactable(o) /\ {"hashes", "signatures"} \cap o.bad = {}
         /\ o.hashes # {} /\ o.signatures # {} /\ ~TooLarge(o)
         /\ VerifyEvent(o, known) = "All" => o.hashes = {ContentHash(o)}
  BY DEF Verifies, VerifyEvent

\* A signature covers the redacted object only.
LEMMA SameSignatures ==
  ASSUME NEW o, NEW p, NEW s, NEW known, p.signatures = o.signatures,
         Redact(p, version) = Redact(o, version), SignedBy(o, s, known)
  PROVE  SignedBy(p, s, known)
  <1>1. TriedKeys(p, s, known) = TriedKeys(o, s, known)
    BY DEF TriedKeys
  <1>2. QED
    BY <1>1 DEF SignedBy

\* Redacting keeps an event verified, ...
LEMMA RedactionVerifies ==
  ASSUME NEW o, IsObject(o), NEW known, Verifies(o, known)
  PROVE  /\ Verifies(Redact(o, version), known)
         /\ ReferenceHash(Redact(o, version)) = ReferenceHash(o)
  <1> DEFINE p == Redact(o, version)
  <1>1. Redact(p, version) = p
    BY RedactTwice
  <1>2. /\ p.type = o.type /\ p.hashes = o.hashes /\ p.signatures = o.signatures
        /\ p.keys = o.keys \cap AllowedKeys /\ p.bad = o.bad \cap AllowedKeys
    BY RedactFields
  <1>3. ReferenceHash(p) = ReferenceHash(o)
    BY <1>1 DEF ReferenceHash
  <1> HIDE DEF p
  <1>4. Redact(p, version) = Redact(o, version)
    BY <1>1 DEF p
  <1>5. \A s : SignedBy(o, s, known) => SignedBy(p, s, known)
    BY <1>2, <1>4, SameSignatures
  <1>6. /\ Redactable(p) /\ {"hashes", "signatures"} \cap p.bad = {} /\ ~TooLarge(p)
        /\ "event_id" \in o.keys => "event_id" \in p.keys
    BY <1>2, VerifiedObject DEF Redactable, TooLarge, AllowedKeys
  <1>7. Verifies(p, known)
    BY <1>2, <1>5, <1>6, VerifiedObject, StaysVerified
  <1>8. QED
    BY <1>3, <1>7 DEF p

\* ... so does unsigned data, ...
LEMMA UnsignedVerifies ==
  ASSUME NEW o, IsObject(o), NEW known, Verifies(o, known), NEW key \in UnsignedKeys,
         NEW p, p = [o EXCEPT !.keys = o.keys \cup {key}]
  PROVE  Verifies(p, known) /\ ReferenceHash(p) = ReferenceHash(o)
  <1>1. p \in ObjectOf(o.type, o.keys \cup {key}, o.content, o.hashes, o.signatures, o.bad)
    BY DEF IsObject, ObjectOf
  <1>2. /\ IsObject(p) /\ p.type = o.type /\ p.keys = o.keys \cup {key} /\ p.content = o.content
        /\ p.hashes = o.hashes /\ p.signatures = o.signatures /\ p.bad = o.bad
    BY <1>1 DEF IsObject, ObjectOf
  <1>3. (o.keys \cup {key}) \cap AllowedKeys = o.keys \cap AllowedKeys
    BY DEF AllowedKeys, UnsignedKeys
  <1>4. Redact(p, version) = Redact(o, version)
    BY <1>2, <1>3, RedactFields
  <1>5. \A s : SignedBy(o, s, known) => SignedBy(p, s, known)
    BY <1>2, <1>4, SameSignatures
  <1>6. Redactable(p) /\ {"hashes", "signatures"} \cap p.bad = {} /\ ~TooLarge(p)
    BY <1>2, VerifiedObject DEF Redactable, TooLarge, UnsignedKeys
  <1>7. QED
    BY <1>2, <1>4, <1>5, <1>6, VerifiedObject, StaysVerified DEF ReferenceHash

\* the signatures after one more was made
Resigned(o, s, k, message) ==
  {sig \in o.signatures : <<sig.server, sig.key>> # <<s, k>>}
    \cup {[server |-> s, key |-> k, message |-> message]}

\* ... and one more signature of the same event: whichever key of its server
\* is tried first, the signature by it is of this event.
LEMMA SigningVerifies ==
  ASSUME NEW o, IsObject(o), NEW known \in KeyMap, Verifies(o, known), NEW s, NEW k \in Splits,
         NEW p, p \in ObjectOf(o.type, o.keys, o.content, o.hashes, p.signatures, o.bad),
         p.signatures = Resigned(o, s, k, Message(Redact(o, version)))
  PROVE  Verifies(p, known) /\ ReferenceHash(p) = ReferenceHash(o)
  <1> DEFINE M == Message(Redact(o, version))
             new == [server |-> s, key |-> k, message |-> M]
  <1>1. /\ IsObject(p) /\ p.type = o.type /\ p.keys = o.keys /\ p.content = o.content
        /\ p.hashes = o.hashes /\ p.bad = o.bad /\ p.signatures # {}
    BY DEF IsObject, ObjectOf, Resigned
  <1>2. /\ Redact(p, version).type = Redact(o, version).type
        /\ Redact(p, version).keys = Redact(o, version).keys
        /\ Redact(p, version).content = Redact(o, version).content
        /\ Redact(p, version).hashes = Redact(o, version).hashes
        /\ Redact(p, version).bad = Redact(o, version).bad
    <2>1. Redact(p, version) = [type |-> o.type, keys |-> o.keys \cap AllowedKeys,
                                content |-> Only(o.content, AllowedContentKeys(o.type, version)),
                                hashes |-> o.hashes, signatures |-> p.signatures,
                                bad |-> o.bad \cap AllowedKeys]
      BY <1>1, RedactFields
    <2>2. Redact(o, version) = [type |-> o.type, keys |-> o.keys \cap AllowedKeys,
                                content |-> Only(o.content, AllowedContentKeys(o.type, version)),
                                hashes |-> o.hashes, signatures |-> o.signatures,
                                bad |-> o.bad \cap AllowedKeys]
      BY RedactFields
    <2>3. QED
      BY <2>1, <2>2
  <1>3. Message(Redact(p, version)) = M /\ ReferenceHash(p) = ReferenceHash(o)
    BY <1>2 DEF Message, Without, ReferenceHash
  <1>4. /\ new \in p.signatures /\ new.server = s /\ new.key = k /\ new.message = M
        /\ \A sig \in o.signatures : sig.server # s \/ sig.key # k => sig \in p.signatures
        /\ \A sig \in p.signatures : sig = new \/ sig \in o.signatures
    BY DEF Resigned
  <1> HIDE DEF M, new
  <1>5. ASSUME NEW t \in ServersToCheck(o), SignedBy(o, t, known) PROVE SignedBy(p, t, known)
    <2>1. t \in Server /\ known[t] \subseteq Nat
      <3>1. t \in Server
        BY Parts DEF ServersToCheck
      <3>2. PICK ids \in SUBSET KeyId : known = [u \in Server |-> ids]
        BY DEF KeyMap
      <3>3. QED
        BY <3>1, <3>2, Parts
    <2>2. PICK sig \in o.signatures :
            /\ sig.server = t /\ sig.key \in TriedKeys(o, t, known)
            /\ \A j \in TriedKeys(o, t, known) : sig.key <= j
            /\ sig.message = M
      BY <1>5 DEF SignedBy, M
    <2>3. /\ TriedKeys(o, t, known) \subseteq TriedKeys(p, t, known)
          /\ \A j \in TriedKeys(p, t, known) : j \in TriedKeys(o, t, known) \/ (t = s /\ j = k)
          /\ TriedKeys(p, t, known) \subseteq Nat
      <3>1. ASSUME NEW j \in TriedKeys(o, t, known) PROVE j \in TriedKeys(p, t, known)
        <4>1. PICK old \in o.signatures : old.server = t /\ old.key = j
          BY <3>1 DEF TriedKeys
        <4>2. \E other \in p.signatures : other.server = t /\ other.key = j
          BY <1>4, <4>1
        <4>3. QED
          BY <3>1, <4>2 DEF TriedKeys
      <3>2. ASSUME NEW j \in TriedKeys(p, t, known)
            PROVE  j \in Nat /\ (j \in TriedKeys(o, t, known) \/ (t = s /\ j = k))
        <4>1. PICK other \in p.signatures : other.server = t /\ other.key = j
          BY <3>2 DEF TriedKeys
        <4>2. j \in known[t] /\ \A i \in known[t] : i <= j => i \in Splits
          BY <3>2 DEF TriedKeys
        <4>3. CASE other = new
          BY <1>4, <2>1, <4>1, <4>2, <4>3
        <4>4. CASE other \in o.signatures
          <5>1. \E sig0 \in o.signatures : sig0.server = t /\ sig0.key = j
            BY <4>1, <4>4
          <5>2. j \in TriedKeys(o, t, known)
            BY <4>2, <5>1 DEF TriedKeys
          <5>3. QED
            BY <2>1, <4>2, <5>2
        <4>5. QED
          BY <1>4, <4>3, <4>4
      <3>3. QED
        BY <3>1, <3>2
    <2>4. CASE t = s /\ k \in TriedKeys(p, t, known) /\ k <= sig.key
      <3>1. \A j \in TriedKeys(p, t, known) : k <= j
        BY <2>1, <2>2, <2>3, <2>4
      <3>2. QED
        BY <1>3, <1>4, <2>4, <3>1 DEF SignedBy
    <2>5. CASE ~(t = s /\ k \in TriedKeys(p, t, known) /\ k <= sig.key)
      <3>1. sig.key \in Nat /\ sig.key \in TriedKeys(p, t, known)
        BY <2>2, <2>3
      <3>2. sig.server # s \/ sig.key # k
        BY <2>2, <2>5, <3>1
      <3>3. \A j \in TriedKeys(p, t, known) : sig.key <= j
        BY <2>2, <2>3, <2>5, <3>1
      <3>4. QED
        BY <1>3, <1>4, <2>2, <3>1, <3>2, <3>3 DEF SignedBy
    <2>6. QED
      BY <2>4, <2>5
  <1>6. Redactable(p) /\ {"hashes", "signatures"} \cap p.bad = {} /\ ~TooLarge(p)
    BY <1>1, VerifiedObject DEF Redactable, TooLarge
  <1>7. QED
    BY <1>1, <1>3, <1>5, <1>6, VerifiedObject, StaysVerified

\* An event that verifies goes on verifying under the same keys, and keeps its
\* reference hash, when it is redacted, when unsigned data is added and, if
\* its hash is right, when a server signs it too.
THEOREM SignaturesOutliveRedaction == Spec => SignatureOutlivesRedaction
  <1>1. ASSUME SignedInv, NEW known \in KeyMap, Verifies(event, known),
               \/ RedactEvent \/ \E key \in UnsignedKeys : AddUnsigned(key)
               \/ VerifyEvent(event, known) = "All" /\ \E s \in Server, k \in Splits : HashAndSign(s, k)
        PROVE  Verifies(event, known)' /\ ReferenceHash(event)' = ReferenceHash(event)
    <2>1. version' = version
      BY <1>1 DEF RedactEvent, AddUnsigned, HashAndSign
    <2>2. /\ Verifies(event, known)' = Verifies(event', known)
          /\ ReferenceHash(event)' = ReferenceHash(event')
      BY <2>1 DEF Verifies, VerifyEvent, ServersToCheck, SignedBy, ReferenceHash
    <2>3. IsObject(event) /\ KeysApart(event)
      BY <1>1 DEF SignedInv
    <2> SUFFICES Verifies(event', known) /\ ReferenceHash(event') = ReferenceHash(event)
      BY <2>2
    <2>4. CASE RedactEvent
      BY <1>1, <2>3, <2>4, RedactionVerifies DEF RedactEvent
    <2>5. ASSUME NEW key \in UnsignedKeys, AddUnsigned(key)
          PROVE  Verifies(event', known) /\ ReferenceHash(event') = ReferenceHash(event)
      BY <1>1, <2>3, <2>5, UnsignedVerifies DEF AddUnsigned
    <2>6. ASSUME VerifyEvent(event, known) = "All",
                 NEW s \in Server, NEW k \in Splits, HashAndSign(s, k)
          PROVE  Verifies(event', known) /\ ReferenceHash(event') = ReferenceHash(event)
      <3>1. event.hashes = {ContentHash(event)}
        BY <1>1, <2>6, VerifiedObject
      <3>2. [event EXCEPT !.hashes = {ContentHash(event)}] = event
        BY <2>3, <3>1 DEF IsObject, ObjectOf
      <3>3. event' \in ObjectOf(event.type, event.keys, event.content, event.hashes,
                                event'.signatures, event.bad)
        BY <2>3, <2>6, <3>1, SigningRecorded
      <3>4. CASE event'.signatures = event.signatures
        <4>1. event' = event
          BY <2>3, <3>3, <3>4 DEF IsObject, ObjectOf
        <4>2. QED
          BY <1>1, <4>1
      <3>5. CASE event'.signatures = Resigned(event, s, k, Message(Redact(event, version)))
        <4>1. \A p :
                /\ p \in ObjectOf(event.type, event.keys, event.content, event.hashes,
                                 p.signatures, event.bad)
                /\ p.signatures = Resigned(event, s, k, Message(Redact(event, version)))
                => Verifies(p, known) /\ ReferenceHash(p) = ReferenceHash(event)
          BY <1>1, <2>3, SigningVerifies
        <4>2. QED
          BY <3>3, <3>5, <4>1
      <3>6. CASE event'.signatures # event.signatures
        <4>1. PICK r : /\ r.message = Message(Redact([event EXCEPT !.hashes = {ContentHash(event)}], version))
                       /\ event'.signatures = Resigned(event, s, k, r.message)
          BY <2>3, <2>6, <3>6, SigningRecorded DEF Resigned
        <4>2. r.message = Message(Redact(event, version))
          BY <3>2, <4>1
        <4>3. QED
          BY <3>5, <4>1, <4>2
      <3>7. QED
        BY <3>4, <3>6
    <2>7. QED
      BY <1>1, <2>4, <2>5, <2>6
  <1>2. SignedInv /\ [Next]_vars =>
          [\A known \in KeyMap :
             /\ Verifies(event, known)
             /\ \/ RedactEvent \/ \E key \in UnsignedKeys : AddUnsigned(key)
                \/ VerifyEvent(event, known) = "All" /\ \E s \in Server, k \in Splits : HashAndSign(s, k)
             => Verifies(event, known)' /\ ReferenceHash(event)' = ReferenceHash(event)]_vars
    BY <1>1
  <1>3. QED
    BY <1>2, SignedInvariant, PTL DEF Spec, SignatureOutlivesRedaction

-----------------------------------------------------------------------------
(***************************************************************************)
(* The two redactions                                                      *)
(***************************************************************************)

\* What is read of the content of a redacted event.
Seen(type, content) == Names(Read(RedactedContentOf(type), content))

\* What both redactions keep.
Kept(type) == AllowedContentKeys(type, version)

\* The object o can be read as a redacted event; of the fields that both redactions
\* keep these are filled.
Agrees(o, names) ==
  /\ Redactable(o)
  /\ Readable(RedactedContentOf(o.type), o.content)
  /\ HasDeserializeFields(o.type) = "True" => "content" \in o.keys
  /\ names \cap Kept(o.type) = Seen(o.type, o.content) \cap Kept(o.type)

\* A typed value is of the event's type.
CopyIsOf(o, c) ==
  /\ c.state \in {"none", "unreadable", "plain", "redacted"}
  /\ c.state \in {"plain", "redacted"} => c \in [state : {c.state}, type : {o.type}, content : {c.content}]

\* Its kept fields are those of the event as it is now.
CopyAgrees(o, c) ==
  o.type \notin Unreadable =>
    /\ c.state = "plain" => Agrees(o, c.content)
    /\ c.state = "redacted" =>
         IF HasDeserializeFields(o.type) = "False" THEN c.content = {}
         ELSE Agrees(o, c.content) /\ c.content \subseteq KeptFields(o.type, version)

\* Where it is noted that the event was redacted, what can be read of it is what the typed redaction
\* keeps, and no more than the typed value that is there has.
Marked(o) == "redacted_because" \in o.keys /\ o.type \notin Unreadable
RedactedHolds(o) == Marked(o) => Seen(o.type, o.content) \subseteq KeptFields(o.type, version)
CopyHolds(o, c) ==
  Marked(o) /\ c.state \in {"plain", "redacted"} => Seen(o.type, o.content) \subseteq c.content

CopyInv ==
  /\ event.type \in EventType
  /\ CopyIsOf(event, copy)
  /\ CopyAgrees(event, copy)
  /\ RedactedHolds(event)
  /\ CopyHolds(event, copy)

\* Both redactions keep the same fields, later room versions fewer of them, but for who authorised
\* a join.
LEMMA KeptIsAllowed ==
  ASSUME NEW type, type \notin Unreadable, NEW v
  PROVE  /\ AllowedContentKeys(type, v) \subseteq KeptFields(type, v)
         /\ KeptFields(type, v) \subseteq EverKept(type)
         /\ type # "m.room.aliases" => AllowedContentKeys(type, 1) = AllowedContentKeys(type, v)
         /\ ~(type = "m.room.member" /\ v = 9) => KeptFields(type, v) = AllowedContentKeys(type, v)
         /\ type = "m.room.member" => /\ KeptFields(type, v) \subseteq {"membership", JoinAuthorizedVia}
                                     /\ AllowedContentKeys(type, v) = {"membership"}
         /\ type \notin {"m.room.aliases", "m.room.member"} => EverKept(type) = AllowedContentKeys(type, v)
         /\ "extra" \notin EverKept(type)
  <1>1. type # "m.room.join_rules"
    BY KnownUnreadable
  <1>2. QED
    BY <1>1 DEF AllowedContentKeys, KeptFields, EverKept, JoinAuthorizedVia

\* No field of a content is read as more than what is written.
LEMMA ReadsFilled ==
  ASSUME NEW type \in EventType, NEW w, NEW F \in {ContentOf[type], RedactedContentOf(type)}
  PROVE  Read(F, w) = {f \in F : Place(f) \in DOMAIN w /\ w[Place(f)]}
  BY RedactedFields DEF Read

\* The fields of a redacted struct are fields that are kept in some room version.
LEMMA RedactedNames ==
  ASSUME NEW type \in EventType
  PROVE  \A f \in RedactedContentOf(type) : f.name \in EverKept(type)
  <1> SUFFICES ASSUME NEW f \in RedactedContentOf(type) PROVE f.name \in EverKept(type)
    OBVIOUS
  <1>1. PICK g \in ContentOf[type] : g.name \in EverKept(type) /\ Place(f) = Place(g)
    BY RedactedFields
  <1>2. f.name = g.name
    BY <1>1 DEF Place
  <1>3. QED
    BY <1>1, <1>2

\* The redacted member event demands the membership, and may have who authorised the join.
LEMMA MemberFields ==
  /\ \A f \in RedactedContentOf("m.room.member") : f.kind \in Demanded => f.name = "membership"
  /\ \A n \in {"membership", JoinAuthorizedVia} : \E f \in RedactedContentOf("m.room.member") : f.name = n
  <1> DEFINE M == [at |-> "body", kind |-> "required", name |-> "membership", given |-> TRUE]
             J == [at |-> "body", kind |-> "nullable", name |-> "join_authorised_via_users_server", given |-> FALSE]
  <1>1. RedactedContentOf("m.room.member") = RedactedRoomMemberEventContent
    BY DEF RedactedContentOf
  <1>2. \A f \in RedactedRoomMemberEventContent :
          \/ f.kind = "required" /\ f.name = "membership"
          \/ f.kind = "nullable"
    BY DEF RedactedRoomMemberEventContent, Takes, Arg, Has, In
  <1>3. M \in RedactedRoomMemberEventContent /\ J \in RedactedRoomMemberEventContent
    BY DEF RedactedRoomMemberEventContent, Takes, Arg, Has, In
  <1>4. QED
    BY <1>1, <1>2, <1>3 DEF Demanded, JoinAuthorizedVia

\* The redacted aliases event can do without its field.
LEMMA AliasesAreOptional ==
  /\ \A f \in RedactedContentOf("m.room.aliases") : f.kind \notin Demanded /\ f.name = "aliases"
  /\ HasDeserializeFields("m.room.aliases") = "Optional"
  <1>1. RedactedContentOf("m.room.aliases") = RedactedRoomAliasesEventContent
    BY DEF RedactedContentOf
  <1>2. \A f \in RedactedRoomAliasesEventContent : f.kind = "nullable" /\ f.name = "aliases"
    BY DEF RedactedRoomAliasesEventContent, Takes, Arg
  <1>3. [at |-> "body", kind |-> "nullable", name |-> "aliases", given |-> TRUE]
          \in RedactedRoomAliasesEventContent
    BY DEF RedactedRoomAliasesEventContent, Takes, Arg
  <1>4. HasDeserializeFields("m.room.aliases") = "Optional"
    BY <1>1, <1>3 DEF HasDeserializeFields
  <1>5. QED
    BY <1>1, <1>2, <1>4 DEF Demanded

\* What a redacted event is read as.
LEMMA ReadsRedacted ==
  ASSUME NEW o, o.type \notin Unreadable
  PROVE  /\ ReadRedacted(o).state \in {"redacted", "unreadable"}
         /\ HasDeserializeFields(o.type) = "False" =>
              ReadRedacted(o) = [state |-> "redacted", type |-> o.type, content |-> {}]
         /\ HasDeserializeFields(o.type) # "False" =>
              LET readable == /\ Redactable(o) /\ Readable(RedactedContentOf(o.type), o.content)
                              /\ HasDeserializeFields(o.type) = "True" => "content" \in o.keys
              IN  /\ readable => ReadRedacted(o) = [state |-> "redacted", type |-> o.type,
                                                    content |-> Seen(o.type, o.content)]
                  /\ ~readable => ReadRedacted(o).state = "unreadable"
  <1>1. o.type # "m.room.join_rules" /\ o.type # "m.room.redaction"
    BY KnownUnreadable
  <1> DEFINE F == RedactedContentOf(o.type)
             read == ReadContent(o, F)
  <1>2. CASE Redactable(o) /\ Readable(F, o.content)
    <2>1. read = [state |-> "plain", type |-> o.type, content |-> Seen(o.type, o.content)]
      BY <1>2 DEF ReadContent, Seen
    <2>2. [read EXCEPT !.state = "redacted"] = [state |-> "redacted", type |-> o.type,
                                                content |-> Seen(o.type, o.content)]
      BY <2>1
    <2>3. read.state = "plain"
      BY <2>1
    <2> HIDE DEF read
    <2>4. QED
      BY <1>1, <1>2, <2>2, <2>3 DEF ReadRedacted, read
  <1>3. CASE ~(Redactable(o) /\ Readable(F, o.content))
    <2>1. read = [state |-> "unreadable"]
      BY <1>3 DEF ReadContent
    <2>2. QED
      BY <1>1, <1>3, <2>1 DEF ReadRedacted
  <1>4. QED
    BY <1>2, <1>3

\* Of two objects with the same content the same is read.
LEMMA SameContent ==
  ASSUME NEW o, NEW p, NEW c, CopyIsOf(o, c), CopyAgrees(o, c),
         p.type = o.type, p.content = o.content, Redactable(o) => Redactable(p),
         "content" \in o.keys => "content" \in p.keys
  PROVE  CopyIsOf(p, c) /\ CopyAgrees(p, c)
  BY DEF CopyIsOf, CopyAgrees, Agrees

\* No more is read when fields are taken from a content or one is added that is nobody's.
LEMMA LessSeen ==
  ASSUME NEW type \in EventType, type \notin Unreadable, NEW c, NEW d,
         \A q \in DOMAIN c : q # <<"body", "extra">> => q \in DOMAIN d /\ (c[q] => d[q])
  PROVE  Seen(type, c) \subseteq Seen(type, d)
  <1> DEFINE RC == RedactedContentOf(type)
  <1>1. \A f \in RC : Place(f) # <<"body", "extra">>
    <2>1. \A f \in RC : f.name # "extra"
      BY RedactedNames, KeptIsAllowed
    <2>2. QED
      BY <2>1 DEF Place
  <1>2. /\ Read(RC, c) = {f \in RC : Place(f) \in DOMAIN c /\ c[Place(f)]}
        /\ Read(RC, d) = {f \in RC : Place(f) \in DOMAIN d /\ d[Place(f)]}
    BY ReadsFilled
  <1> HIDE DEF RC
  <1>3. Read(RC, c) \subseteq Read(RC, d)
    BY <1>1, <1>2, Zenon
  <1>4. QED
    BY <1>3 DEF Seen, Names, RC

\* Where the content has only what both redactions keep, no more is read.
LEMMA SeenOfKept ==
  ASSUME NEW o, o.type \in EventType, \A p \in DOMAIN o.content : p[2] \in Kept(o.type)
  PROVE  Seen(o.type, o.content) \subseteq Kept(o.type)
  <1> DEFINE RC == RedactedContentOf(o.type)
  <1>1. Read(RC, o.content) = {f \in RC : Place(f) \in DOMAIN o.content /\ o.content[Place(f)]}
    BY ReadsFilled
  <1>2. \A f \in Read(RC, o.content) : Place(f) \in DOMAIN o.content /\ Place(f)[2] = f.name
    BY <1>1 DEF Place
  <1> HIDE DEF RC
  <1>3. \A f \in Read(RC, o.content) : f.name \in Kept(o.type)
    BY <1>2
  <1>4. QED
    BY <1>3 DEF Seen, Names, RC

\* A value that agrees with the event holds all that is read of what both redactions keep.
LEMMA SeenInCopy ==
  ASSUME NEW o, o.type \in EventType, o.type \notin Unreadable, NEW c, CopyAgrees(o, c),
         c.state \in {"plain", "redacted"}, Seen(o.type, o.content) \subseteq Kept(o.type)
  PROVE  Seen(o.type, o.content) \subseteq c.content
  <1>1. CASE c.state = "redacted" /\ HasDeserializeFields(o.type) = "False"
    <2>1. RedactedContentOf(o.type) = {}
      BY <1>1 DEF HasDeserializeFields
    <2>2. Seen(o.type, o.content) = {}
      BY <2>1 DEF Seen, Names, Read, Refilled
    <2>3. QED
      BY <2>2
  <1>2. CASE ~(c.state = "redacted" /\ HasDeserializeFields(o.type) = "False")
    <2>1. Agrees(o, c.content)
      BY <1>2 DEF CopyAgrees
    <2>2. QED
      BY <2>1 DEF Agrees
  <1>3. QED
    BY <1>1, <1>2

\* A typed value agrees with the event it is read from.
LEMMA ReadAgrees ==
  ASSUME NEW o, o.type \in EventType, RedactedHolds(o)
  PROVE  CopyIsOf(o, ReadAny(o)) /\ CopyAgrees(o, ReadAny(o)) /\ CopyHolds(o, ReadAny(o))
  <1> DEFINE T == o.type
             RC == RedactedContentOf(T)
  <1>1. CASE "redacted_because" \in o.keys /\ T \notin Unreadable
    <2>1. Seen(T, o.content) \subseteq KeptFields(T, version)
      BY <1>1 DEF RedactedHolds, Marked
    <2>2. ReadAny(o) = ReadRedacted(o)
      BY <1>1 DEF ReadAny
    <2>3. CASE HasDeserializeFields(T) = "False"
      <3>1. ReadAny(o) = [state |-> "redacted", type |-> T, content |-> {}]
        BY <1>1, <2>2, <2>3, ReadsRedacted
      <3>2. RC = {}
        BY <2>3 DEF HasDeserializeFields
      <3>3. Seen(T, o.content) = {}
        BY <3>2 DEF Seen, Names, Read, Refilled
      <3>4. QED
        BY <2>3, <3>1, <3>3 DEF CopyIsOf, CopyAgrees, CopyHolds
    <2>4. CASE HasDeserializeFields(T) # "False" /\ ReadAny(o).state # "unreadable"
      <3>1. /\ Redactable(o) /\ Readable(RC, o.content)
            /\ HasDeserializeFields(T) = "True" => "content" \in o.keys
            /\ ReadAny(o) = [state |-> "redacted", type |-> T, content |-> Seen(T, o.content)]
        BY <1>1, <2>2, <2>4, ReadsRedacted
      <3>2. QED
        BY <2>1, <2>4, <3>1 DEF CopyIsOf, CopyAgrees, CopyHolds, Agrees
    <2>5. CASE ReadAny(o).state = "unreadable"
      BY <2>5 DEF CopyIsOf, CopyAgrees, CopyHolds
    <2>6. QED
      BY <2>3, <2>4, <2>5
  <1>2. CASE "redacted_because" \in o.keys /\ T \in Unreadable
    <2>1. \/ ReadAny(o).state = "unreadable"
          \/ ReadAny(o) = [state |-> "redacted", type |-> T, content |-> ReadAny(o).content]
      BY <1>2 DEF ReadAny, ReadRedacted, ReadContent
    <2>2. QED
      BY <1>2, <2>1 DEF CopyIsOf, CopyAgrees, CopyHolds, Marked
  <1>3. CASE "redacted_because" \notin o.keys
    <2>1. CASE ReadAny(o).state = "unreadable"
      BY <2>1 DEF CopyIsOf, CopyAgrees, CopyHolds
    <2>2. CASE ReadAny(o).state # "unreadable"
      <3>1. /\ "content" \in o.keys /\ Redactable(o) /\ Readable(ContentOf[T], o.content)
            /\ ReadAny(o) = [state |-> "plain", type |-> T,
                             content |-> Names(Read(ContentOf[T], o.content))]
        BY <1>3, <2>2 DEF ReadAny, ReadPlain, ReadContent
      <3>2. Readable(RC, o.content)
        BY <3>1, RedactedFields DEF Readable
      <3>3. T \notin Unreadable => Names(Read(ContentOf[T], o.content)) \cap Kept(T) = Seen(T, o.content) \cap Kept(T)
        <4> SUFFICES ASSUME T \notin Unreadable
                     PROVE  Names(Read(ContentOf[T], o.content)) \cap Kept(T) = Seen(T, o.content) \cap Kept(T)
          OBVIOUS
        <4>r. /\ Read(RC, o.content) = {f \in RC : Place(f) \in DOMAIN o.content /\ o.content[Place(f)]}
              /\ Read(ContentOf[T], o.content)
                   = {f \in ContentOf[T] : Place(f) \in DOMAIN o.content /\ o.content[Place(f)]}
          BY ReadsFilled
        <4>1. ASSUME NEW f \in ContentOf[T], f.name \in EverKept(T),
                     Place(f) \in DOMAIN o.content, o.content[Place(f)]
              PROVE  f.name \in Seen(T, o.content)
          <5>1. PICK g \in RC : Place(g) = Place(f)
            BY <4>1, RedactedFields
          <5>2. g.name = f.name
            BY <5>1 DEF Place
          <5>3. QED
            BY <4>1, <4>r, <5>1, <5>2 DEF Seen, Names
        <4>2. ASSUME NEW g \in RC, Place(g) \in DOMAIN o.content, o.content[Place(g)]
              PROVE  g.name \in Names(Read(ContentOf[T], o.content))
          <5>1. PICK f \in ContentOf[T] : Place(g) = Place(f)
            BY RedactedFields
          <5>2. g.name = f.name
            BY <5>1 DEF Place
          <5>3. QED
            BY <4>2, <4>r, <5>1, <5>2 DEF Names
        <4>3. Kept(T) \subseteq EverKept(T)
          BY KeptIsAllowed DEF Kept
        <4>4. QED
          BY <4>1, <4>2, <4>3, <4>r DEF Seen, Names
      <3>4. QED
        BY <1>3, <3>1, <3>2, <3>3 DEF CopyIsOf, CopyAgrees, CopyHolds, Agrees, Marked
    <2>3. QED
      BY <2>1, <2>2
  <1>4. QED
    BY <1>1, <1>2, <1>3

\* Redacting the event keeps what is read of its kept fields.
LEMMA RedactAgrees ==
  ASSUME NEW o, IsObject(o), o.type \in EventType, Redactable(o),
         NEW c, CopyIsOf(o, c), CopyAgrees(o, c)
  PROVE  /\ CopyIsOf(Redact(o, version), c) /\ CopyAgrees(Redact(o, version), c)
         /\ RedactedHolds(Redact(o, version)) /\ CopyHolds(Redact(o, version), c)
         /\ Redact(o, version).type = o.type
  <1> DEFINE T == o.type
             RC == RedactedContentOf(T)
             kept == Kept(T)
             p == Redact(o, version)
  <1>1. /\ p.type = T /\ p.content = Only(o.content, kept) /\ p.keys = o.keys \cap AllowedKeys
        /\ p.bad = o.bad \cap AllowedKeys
    BY RedactFields DEF Kept
  <1> HIDE DEF p
  <1>2. /\ \A q : q \in DOMAIN p.content <=> q \in DOMAIN o.content /\ q[2] \in kept
        /\ \A q \in DOMAIN p.content : p.content[q] = o.content[q]
    BY <1>1 DEF Only
  <1>3. Redactable(p) /\ ("content" \in o.keys => "content" \in p.keys) /\ "redacted_because" \notin p.keys
    BY <1>1 DEF Redactable, AllowedKeys
  <1>4. \A f : Place(f)[2] = f.name
    BY DEF Place
  <1>5. ASSUME T \notin Unreadable, Readable(RC, o.content) PROVE Readable(RC, p.content)
    <2> SUFFICES ASSUME NEW f \in RC, f.kind \in Demanded PROVE Place(f) \in DOMAIN p.content
      BY DEF Readable
    <2>1. T # "m.room.aliases"
      BY AliasesAreOptional
    <2>2. f.name \in kept
      <3>1. CASE T = "m.room.member"
        BY <1>5, <3>1, MemberFields, KeptIsAllowed DEF Kept
      <3>2. CASE T # "m.room.member"
        BY <1>5, <2>1, <3>2, RedactedNames, KeptIsAllowed DEF Kept
      <3>3. QED
        BY <3>1, <3>2
    <2>3. Place(f) \in DOMAIN o.content
      BY <1>5 DEF Readable
    <2>4. QED
      BY <1>2, <1>4, <2>2, <2>3
  <1>6. Seen(T, p.content) \cap kept = Seen(T, o.content) \cap kept
    <2>1. /\ Read(RC, p.content) = {f \in RC : Place(f) \in DOMAIN p.content /\ p.content[Place(f)]}
          /\ Read(RC, o.content) = {f \in RC : Place(f) \in DOMAIN o.content /\ o.content[Place(f)]}
      BY ReadsFilled
    <2> HIDE DEF RC, kept
    <2>2. \A f \in RC : f.name \in kept =>
            (f \in Read(RC, p.content) <=> f \in Read(RC, o.content))
      BY <1>2, <1>4, <2>1
    <2>3. Read(RC, p.content) \subseteq RC /\ Read(RC, o.content) \subseteq RC
      BY <2>1
    <2>4. QED
      BY <2>2, <2>3 DEF Seen, Names, RC
  <1>7. \A names : T \notin Unreadable /\ Agrees(o, names) => Agrees(p, names)
    BY <1>1, <1>3, <1>5, <1>6 DEF Agrees
  <1>8. CopyIsOf(p, c) /\ CopyAgrees(p, c)
    BY <1>1, <1>7 DEF CopyIsOf, CopyAgrees
  <1>9. RedactedHolds(p) /\ CopyHolds(p, c)
    BY <1>3 DEF RedactedHolds, CopyHolds, Marked
  <1>10. QED
    BY <1>1, <1>8, <1>9 DEF p

\* An event that is redacted holds only what redaction keeps.
LEMMA RedactedContent ==
  ASSUME NEW o, IsObject(o), IsRedacted(o)
  PROVE  \A p \in DOMAIN o.content : p[2] \in Kept(o.type)
  <1>1. Redact(o, version).content = Only(o.content, Kept(o.type))
    BY RedactFields DEF Kept
  <1>2. [o EXCEPT !.keys = o.keys \ UnsignedKeys].content = o.content
    BY DEF IsObject, ObjectOf
  <1>3. o.content = Only(o.content, Kept(o.type))
    BY <1>1, <1>2 DEF IsRedacted
  <1>4. \A p \in DOMAIN Only(o.content, Kept(o.type)) : p[2] \in Kept(o.type)
    BY DEF Only
  <1>5. QED
    BY <1>3, <1>4

\* Redacting the typed value keeps the same fields as redacting the event.
LEMMA RedactTypedAgrees ==
  ASSUME NEW o, NEW c, CopyIsOf(o, c), CopyAgrees(o, c), RedactedHolds(o), CopyHolds(o, c), c.state = "plain"
  PROVE  /\ CopyIsOf(o, RedactTyped(c, version)) /\ CopyAgrees(o, RedactTyped(c, version))
         /\ CopyHolds(o, RedactTyped(c, version))
  <1> DEFINE T == o.type
             left == c.content \cap KeptFields(T, version)
  <1>1. RedactTyped(c, version) = [state |-> "redacted", type |-> T, content |-> left]
    <2>1. c \in [state : {"plain"}, type : {T}, content : {c.content}]
      BY DEF CopyIsOf
    <2>2. RedactTyped(c, version) \in [state : {"redacted"}, type : {T}, content : {left}]
      BY <2>1 DEF RedactTyped
    <2>3. QED
      BY <2>2
  <1>2. T \notin Unreadable => Agrees(o, left)
    <2>1. T \notin Unreadable => Agrees(o, c.content) /\ Kept(T) \subseteq KeptFields(T, version)
      BY KeptIsAllowed DEF CopyAgrees, Kept
    <2>2. QED
      BY <2>1 DEF Agrees
  <1>3. T \notin Unreadable /\ HasDeserializeFields(T) = "False" => left = {}
    <2> SUFFICES ASSUME T \notin Unreadable, HasDeserializeFields(T) = "False" PROVE left = {}
      OBVIOUS
    <2>0. RedactedContentOf(T) = {}
      BY DEF HasDeserializeFields
    <2>1. RedactedContentOf(T) = {} /\ T # "m.room.member"
      BY <2>0, MemberFields
    <2>2. Seen(T, o.content) = {}
      BY <2>1 DEF Seen, Names, Read, Refilled
    <2>3. KeptFields(T, version) = Kept(T)
      BY <2>1, KeptIsAllowed DEF Kept
    <2>4. QED
      BY <1>2, <2>2, <2>3 DEF Agrees
  <1>4. Marked(o) => Seen(T, o.content) \subseteq left
    BY DEF RedactedHolds, CopyHolds
  <1> HIDE DEF left
  <1>5. left \subseteq KeptFields(T, version)
    BY DEF left
  <1>6. QED
    BY <1>1, <1>2, <1>3, <1>4, <1>5 DEF CopyIsOf, CopyAgrees, CopyHolds

\* p is what is written from the value c, whose fields are V.
IsWritten(p, c, V) ==
  LET F == RedactedContentOf(c.type)
  IN /\ V \subseteq F /\ \A f \in F : f \in V <=> f.name \in c.content
     /\ p.type = c.type /\ p.bad = {}
     /\ HasSerializeFields(c.type, c.content) => "content" \in p.keys /\ p.content = Write(F, V)
     /\ ~HasSerializeFields(c.type, c.content) => "content" \notin p.keys /\ p.content = <<>>

\* The event that is written from a redacted value reads back as that value.
LEMMA WriteAgrees ==
  ASSUME NEW o, o.type \in EventType, NEW c, CopyIsOf(o, c), CopyAgrees(o, c), c.state = "redacted",
         NEW p, NEW V, IsWritten(p, c, V)
  PROVE  CopyIsOf(p, c) /\ CopyAgrees(p, c) /\ RedactedHolds(p) /\ CopyHolds(p, c) /\ p.type = o.type
  <1> DEFINE T == o.type
             F == RedactedContentOf(c.type)
             kept == KeptFields(T, version)
  <1>w. /\ V \subseteq F /\ \A f \in F : f \in V <=> f.name \in c.content
        /\ p.type = c.type /\ p.bad = {}
        /\ HasSerializeFields(c.type, c.content) => "content" \in p.keys /\ p.content = Write(F, V)
        /\ ~HasSerializeFields(c.type, c.content) => "content" \notin p.keys /\ p.content = <<>>
    BY DEF IsWritten
  <1>f. F = RedactedContentOf(c.type)
    OBVIOUS
  <1> HIDE DEF F
  <1> USE <1>w, <1>f
  <1>1. c.type = T /\ p.type = T /\ CopyIsOf(p, c)
    BY DEF CopyIsOf
  <1>2. CASE T \in Unreadable
    BY <1>1, <1>2 DEF CopyAgrees, RedactedHolds, CopyHolds, Marked
  <1>3. CASE T \notin Unreadable
    <2>1. IF HasDeserializeFields(T) = "False" THEN c.content = {} ELSE Agrees(o, c.content) /\ c.content \subseteq kept
      BY <1>3 DEF CopyAgrees
    <2>2. c.content \subseteq kept
      BY <2>1
    <2>3. \A n \in c.content : \E f \in F : f.name = n
      <3> SUFFICES ASSUME NEW n \in c.content PROVE \E f \in F : f.name = n
        OBVIOUS
      <3>1. CASE T = "m.room.member"
        <4>1. n \in {"membership", JoinAuthorizedVia}
          BY <1>3, <2>2, <3>1, KeptIsAllowed
        <4>2. QED
          BY <1>1, <3>1, <4>1, MemberFields
      <3>2. CASE T # "m.room.member"
        <4>1. n \in Kept(T)
          BY <1>3, <2>2, <3>2, KeptIsAllowed DEF Kept
        <4>2. n \in Seen(T, o.content)
          BY <2>1, <4>1 DEF Agrees
        <4>3. Read(F, o.content) \subseteq F
          BY DEF Read, Refilled
        <4>4. QED
          BY <1>1, <4>2, <4>3 DEF Seen, Names
      <3>3. QED
        BY <3>1, <3>2
    <2>6. HasDeserializeFields(T) = "False" => F = {}
      BY <1>1 DEF HasDeserializeFields
    <2>p. ASSUME Seen(T, p.content) \subseteq c.content PROVE RedactedHolds(p) /\ CopyHolds(p, c)
      BY <1>1, <2>2, <2>p DEF RedactedHolds, CopyHolds
    <2>7. CASE HasSerializeFields(c.type, c.content)
      <3> DEFINE W == {f \in F : f \in V \/ f.kind \notin Skippable}
      <3>w. p.content = [q \in {Place(f) : f \in W} |-> \E f \in V : Place(f) = q]
        BY <2>7 DEF Write
      <3>1. \A q : q \in DOMAIN p.content <=> \E f \in W : Place(f) = q
        BY <3>w
      <3>2. \A q \in DOMAIN p.content : p.content[q] <=> \E f \in V : Place(f) = q
        BY <3>w
      <3>5. Readable(F, p.content)
        <4>1. \A f \in F : f.kind \in Demanded => f.kind \notin Skippable
          BY <1>1, RedactedFields
        <4>2. QED
          BY <3>1, <4>1 DEF Readable
      <3>6. Seen(T, p.content) = c.content
        <4>r. Read(F, p.content) = {f \in F : Place(f) \in DOMAIN p.content /\ p.content[Place(f)]}
          BY <1>1, ReadsFilled
        <4>1. \A f \in F : f \in Read(F, p.content) <=> \E g \in V : Place(g) = Place(f)
          BY <3>1, <3>2, <4>r
        <4>2. \A f \in F : f \in Read(F, p.content) <=> f.name \in c.content
          <5>1. ASSUME NEW f \in F, NEW g \in V, Place(g) = Place(f) PROVE f.name \in c.content
            <6>1. f.name = g.name
              BY <5>1 DEF Place
            <6>2. QED
              BY <6>1
          <5>2. \A f \in F : f.name \in c.content => f \in V
            OBVIOUS
          <5>3. QED
            BY <4>1, <5>1, <5>2
        <4>3. Read(F, p.content) \subseteq F /\ Seen(T, p.content) = {f.name : f \in Read(F, p.content)}
          BY <1>1, <4>r DEF Seen, Names
        <4>4. \A n : n \in {f.name : f \in Read(F, p.content)} <=> n \in c.content
          BY <2>3, <4>2, <4>3
        <4>5. QED
          BY <4>3, <4>4
      <3>7. Agrees(p, c.content)
        BY <1>1, <2>7, <3>5, <3>6 DEF Agrees, Redactable
      <3>8. QED
        BY <1>1, <2>1, <2>2, <2>p, <3>6, <3>7 DEF CopyAgrees
    <2>8. CASE ~HasSerializeFields(c.type, c.content)
      <3>1. p.content = <<>> /\ DOMAIN p.content = {}
        BY <2>8
      <3>s. Seen(T, p.content) = {}
        <4>1. Read(F, p.content) = {f \in F : Place(f) \in DOMAIN p.content /\ p.content[Place(f)]}
          BY <1>1, ReadsFilled
        <4>2. Read(F, p.content) = {}
          BY <3>1, <4>1
        <4>3. QED
          BY <1>1, <4>2 DEF Seen, Names
      <3>2. RedactedHolds(p) /\ CopyHolds(p, c)
        BY <2>p, <3>s
      <3>3. CASE T = "m.room.aliases"
        <4>1. "aliases" \notin c.content
          BY <1>1, <2>8, <3>3 DEF HasSerializeFields
        <4>2. c.content = {}
          BY <1>1, <2>3, <3>3, <4>1, AliasesAreOptional
        <4>4. Readable(F, p.content)
          BY <1>1, <3>3, AliasesAreOptional DEF Readable
        <4>5. HasDeserializeFields(T) = "Optional"
          BY <3>3, AliasesAreOptional
        <4>6. Agrees(p, c.content)
          BY <1>1, <3>s, <4>2, <4>4, <4>5 DEF Agrees, Redactable
        <4>7. QED
          BY <1>1, <2>2, <3>2, <4>5, <4>6 DEF CopyAgrees
      <3>4. CASE T # "m.room.aliases"
        <4>1. F = {}
          BY <1>1, <2>8, <3>4 DEF HasSerializeFields
        <4>2. T # "m.room.member"
          BY <1>1, <4>1, MemberFields
        <4>3. HasDeserializeFields(T) = "False"
          BY <1>1, <3>4, <4>1, <4>2 DEF HasDeserializeFields
        <4>4. QED
          BY <1>1, <2>1, <3>2, <4>3 DEF CopyAgrees
      <3>5. QED
        BY <3>3, <3>4
    <2>9. QED
      BY <2>7, <2>8
  <1>4. QED
    BY <1>1, <1>2, <1>3

\* Every step keeps the typed value and the event in agreement.
LEMMA CopyStep == SignedInv /\ CopyInv /\ [Next]_vars => CopyInv'
  <1> SUFFICES ASSUME SignedInv, CopyInv, [Next]_vars PROVE CopyInv'
    OBVIOUS
  <1>i. /\ IsObject(event) /\ KeysApart(event) /\ event.type \in EventType
        /\ CopyIsOf(event, copy) /\ CopyAgrees(event, copy) /\ RedactedHolds(event) /\ CopyHolds(event, copy)
    BY DEF SignedInv, CopyInv
  <1>v. version' = version
    BY DEF Next, HashAndSign, RedactEvent, AddUnsigned, Edit, ReadEvent, RedactCopy, WriteRedacted, vars
  <1>p. ASSUME event'.type \in EventType, CopyIsOf(event', copy'), CopyAgrees(event', copy'),
               RedactedHolds(event'), CopyHolds(event', copy')
        PROVE  CopyInv'
    BY <1>p, <1>v DEF CopyInv, CopyIsOf, CopyAgrees, Agrees, RedactedHolds, CopyHolds, Marked, Kept
  <1>1. ASSUME NEW s \in Server, NEW k \in Splits, HashAndSign(s, k) PROVE CopyInv'
    <2>1. event' \in ObjectOf(event.type, event.keys, event.content, {ContentHash(event)},
                              event'.signatures, event.bad)
      BY <1>1, <1>i, SigningRecorded
    <2>2. /\ event'.type = event.type /\ event'.keys = event.keys /\ event'.content = event.content
          /\ event'.bad = event.bad
      BY <2>1 DEF ObjectOf
    <2>3. copy' = copy
      BY <1>1 DEF HashAndSign
    <2>4. \A p : p.type = event.type /\ p.content = event.content /\ p.keys = event.keys
                   /\ p.bad = event.bad
                 => CopyIsOf(p, copy) /\ CopyAgrees(p, copy) /\ RedactedHolds(p) /\ CopyHolds(p, copy)
      BY <1>i, SameContent DEF RedactedHolds, CopyHolds, Marked, Redactable
    <2>5. QED
      BY <1>i, <1>p, <2>2, <2>3, <2>4
  <1>2. CASE RedactEvent
    BY <1>2, <1>i, <1>p, RedactAgrees DEF RedactEvent
  <1>3. ASSUME NEW key \in UnsignedKeys, AddUnsigned(key) PROVE CopyInv'
    <2>1. event' = [event EXCEPT !.keys = event.keys \cup {key}] /\ copy' = copy
      BY <1>3 DEF AddUnsigned
    <2>2. /\ event'.type = event.type /\ event'.keys = event.keys \cup {key}
          /\ event'.content = event.content /\ event'.bad = event.bad
      BY <1>i, <2>1 DEF IsObject, ObjectOf
    <2>3. \A p : p.type = event.type /\ p.content = event.content /\ p.keys = event.keys \cup {key}
                   /\ p.bad = event.bad
                 => CopyIsOf(p, copy) /\ CopyAgrees(p, copy)
      BY <1>i, SameContent DEF Redactable
    <2>4. CASE key = "redacted_because"
      <3>1. \A q \in DOMAIN event.content : q[2] \in Kept(event.type)
        BY <1>3, <1>i, <2>4, RedactedContent DEF AddUnsigned
      <3>2. Seen(event.type, event.content) \subseteq Kept(event.type)
        BY <1>i, <3>1, SeenOfKept
      <3>3. RedactedHolds(event')
        BY <2>2, <3>2, KeptIsAllowed DEF RedactedHolds, Marked, Kept
      <3>4. CopyHolds(event', copy')
        BY <1>i, <2>1, <2>2, <3>2, SeenInCopy DEF CopyHolds, Marked
      <3>5. QED
        BY <1>i, <1>p, <2>1, <2>2, <2>3, <3>3, <3>4
    <2>5. CASE key # "redacted_because"
      <3>1. RedactedHolds(event') /\ CopyHolds(event', copy')
        BY <1>i, <2>1, <2>2, <2>5 DEF RedactedHolds, CopyHolds, Marked
      <3>2. QED
        BY <1>i, <1>p, <2>1, <2>2, <2>3, <3>1
    <2>6. QED
      BY <2>4, <2>5
  <1>4. CASE Edit
    <2>1. copy' = NoCopy
      BY <1>4 DEF Edit
    <2>2. CopyIsOf(event', copy') /\ CopyAgrees(event', copy') /\ CopyHolds(event', copy')
      BY <2>1 DEF CopyIsOf, CopyAgrees, CopyHolds, NoCopy
    <2>3. CASE \E b : event' = [event EXCEPT !.bad = b]
      <3>1. event'.type = event.type /\ event'.keys = event.keys /\ event'.content = event.content
        BY <1>i, <2>3 DEF IsObject, ObjectOf
      <3>2. QED
        BY <1>i, <1>p, <2>2, <3>1 DEF RedactedHolds, Marked
    <2>4. CASE \E key \in {"age_ts", "bulk"} : event' = [event EXCEPT !.keys = event.keys \cup {key}]
      <3>1. PICK key \in {"age_ts", "bulk"} : event' = [event EXCEPT !.keys = event.keys \cup {key}]
        BY <2>4
      <3>2. /\ event'.type = event.type /\ event'.keys = event.keys \cup {key}
            /\ event'.content = event.content
        BY <1>i, <3>1 DEF IsObject, ObjectOf
      <3>3. RedactedHolds(event')
        BY <1>i, <3>2 DEF RedactedHolds, Marked
      <3>4. QED
        BY <1>i, <1>p, <2>2, <3>2, <3>3
    <2>5. ASSUME NEW c, event' = [event EXCEPT !.content = c],
                 \A q \in DOMAIN c : q # <<"body", "extra">> => q \in DOMAIN event.content /\ (c[q] => event.content[q])
          PROVE  CopyInv'
      <3>1. event'.type = event.type /\ event'.keys = event.keys /\ event'.content = c
        BY <1>i, <2>5 DEF IsObject, ObjectOf
      <3>2. event.type \notin Unreadable => Seen(event.type, c) \subseteq Seen(event.type, event.content)
        BY <1>i, <2>5, LessSeen
      <3>r. RedactedHolds(event')
        BY <1>i, <3>1, <3>2 DEF RedactedHolds, Marked
      <3>3. QED
        BY <1>i, <1>p, <2>2, <3>1, <3>r
    <2>6. ASSUME NEW q \in DOMAIN event.content,
                 event' = [event EXCEPT !.content = [x \in DOMAIN event.content \ {q} |-> event.content[x]]]
          PROVE  CopyInv'
      BY <2>5, <2>6
    <2>7. ASSUME event' = [event EXCEPT !.content =
                             [x \in DOMAIN event.content \cup {<<"body", "extra">>} |->
                                x = <<"body", "extra">> \/ event.content[x]]]
          PROVE  CopyInv'
      <3> DEFINE D == DOMAIN event.content \cup {<<"body", "extra">>}
                 c == [x \in D |-> x = <<"body", "extra">> \/ event.content[x]]
      <3>1. DOMAIN c = D /\ \A q \in D : c[q] <=> q = <<"body", "extra">> \/ event.content[q]
        BY Zenon
      <3>2. event' = [event EXCEPT !.content = c]
        BY <2>7
      <3>3. \A q \in D : q # <<"body", "extra">> => q \in DOMAIN event.content
        BY Zenon
      <3> HIDE DEF c, D
      <3>4. \A q \in DOMAIN c : q # <<"body", "extra">> => q \in DOMAIN event.content /\ (c[q] => event.content[q])
        BY <3>1, <3>3, Zenon
      <3>5. QED
        BY <2>5, <3>2, <3>4
    <2>8. QED
      BY <1>4, <2>3, <2>4, <2>6, <2>7 DEF Edit
  <1>5. CASE ReadEvent
    BY <1>5, <1>i, <1>p, ReadAgrees DEF ReadEvent
  <1>6. CASE RedactCopy
    BY <1>6, <1>i, <1>p, RedactTypedAgrees DEF RedactCopy
  <1>7. CASE WriteRedacted
    <2> DEFINE F == RedactedContentOf(copy.type)
               has == HasSerializeFields(copy.type, copy.content)
               V == {f \in F : f.name \in copy.content}
               K == {"event_id", "redacted_because"} \cup (IF has THEN {"content"} ELSE {})
               C == IF has THEN Write(F, V) ELSE <<>>
    <2>1. /\ copy.state = "redacted" /\ copy' = copy
          /\ event' = [type |-> copy.type, bad |-> {}, hashes |-> {}, signatures |-> {}, keys |-> K,
                       content |-> C]
      BY <1>7 DEF WriteRedacted
    <2>2. event'.type = copy.type /\ event'.bad = {} /\ event'.keys = K /\ event'.content = C
      BY <2>1
    <2>3. V \subseteq F /\ \A f \in F : f \in V <=> f.name \in copy.content
      OBVIOUS
    <2>4. /\ has => "content" \in K /\ C = Write(F, V)
          /\ ~has => "content" \notin K /\ C = <<>>
      OBVIOUS
    <2> HIDE DEF V, K, C
    <2>5. ASSUME NEW p, p.type = copy.type, p.bad = {}, p.keys = K, p.content = C
          PROVE  IsWritten(p, copy, V)
      BY <2>3, <2>4, <2>5 DEF IsWritten
    <2>6. ASSUME NEW p, IsWritten(p, copy, V)
          PROVE  /\ CopyIsOf(p, copy) /\ CopyAgrees(p, copy) /\ RedactedHolds(p) /\ CopyHolds(p, copy)
                 /\ p.type = event.type
      BY <1>i, <2>1, <2>6, WriteAgrees
    <2>7. QED
      BY <1>i, <1>p, <2>1, <2>2, <2>5, <2>6
  <1>8. CASE UNCHANGED vars
    BY <1>8, <1>i, <1>p DEF vars
  <1>9. QED
    BY <1>1, <1>2, <1>3, <1>4, <1>5, <1>6, <1>7, <1>8 DEF Next

\* The redaction of the JSON and that of the typed event leave the same for
\* any tables of fields: a redacted typed value is what a client reads of the
\* event once it is redacted or written.  Excepted are the types whose redacted
\* form cannot be read and, in room version 9, the entry of a member event that
\* says who authorised the join: only the typed redaction keeps it.
THEOREM RedactionsStayAgreed == Spec => []RedactionsAgree
  <1>1. Init => CopyInv
    <2> SUFFICES ASSUME Init PROVE CopyInv
      OBVIOUS
    <2>1. PICK type \in EventType : \E value, bad : event = NewEvent(type, value, bad)
      BY DEF Init
    <2>2. event.type = type /\ "redacted_because" \notin event.keys
      BY <2>1 DEF NewEvent
    <2>3. copy.state = "none"
      BY DEF Init, NoCopy
    <2>4. QED
      BY <2>1, <2>2, <2>3 DEF CopyInv, CopyIsOf, CopyAgrees, RedactedHolds, CopyHolds, Marked
  <1>2. CopyInv => RedactionsAgree
    <2> SUFFICES ASSUME CopyInv, copy.state = "redacted", "redacted_because" \in event.keys,
                        event.type \notin Unreadable
                 PROVE  \/ ReadAny(event) = copy
                        \/ /\ version = 9 /\ event.type = "m.room.member" /\ JoinAuthorizedVia \in copy.content
                           /\ ReadAny(event) = [copy EXCEPT !.content = copy.content \ {JoinAuthorizedVia}]
      BY DEF RedactionsAgree
    <2> DEFINE T == event.type
               seen == Seen(T, event.content)
    <2>1. ReadAny(event) = ReadRedacted(event)
      BY DEF ReadAny
    <2>2. copy = [state |-> "redacted", type |-> T, content |-> copy.content]
      BY DEF CopyInv, CopyIsOf
    <2>3. IF HasDeserializeFields(T) = "False" THEN copy.content = {}
          ELSE Agrees(event, copy.content) /\ copy.content \subseteq KeptFields(T, version)
      BY DEF CopyInv, CopyAgrees
    <2>4. CASE HasDeserializeFields(T) = "False"
      <3>1. copy.content = {} /\ ReadRedacted(event) = [state |-> "redacted", type |-> T, content |-> {}]
        BY <2>3, <2>4, ReadsRedacted
      <3>2. QED
        BY <2>1, <2>2, <3>1
    <2>5. CASE HasDeserializeFields(T) # "False"
      <3>1. Agrees(event, copy.content) /\ copy.content \subseteq KeptFields(T, version)
        BY <2>3, <2>5
      <3>2. ReadRedacted(event) = [state |-> "redacted", type |-> T, content |-> seen]
        BY <2>5, <3>1, ReadsRedacted DEF Agrees
      <3>3. seen \subseteq copy.content
        BY DEF CopyInv, CopyHolds, Marked
      <3>4. copy.content \cap Kept(T) = seen \cap Kept(T)
        BY <3>1 DEF Agrees
      <3> HIDE DEF seen
      <3>5. CASE copy.content = seen
        BY <2>1, <2>2, <3>2, <3>5
      <3>6. CASE copy.content # seen
        <4>1. PICK n \in copy.content : n \notin seen
          BY <3>3, <3>6
        <4>2. n \in KeptFields(T, version) /\ n \notin Kept(T)
          BY <3>1, <3>4, <4>1
        <4>3. version = 9 /\ T = "m.room.member"
          BY <4>2, KeptIsAllowed DEF Kept
        <4>4. copy.content \subseteq {"membership", JoinAuthorizedVia} /\ Kept(T) = {"membership"}
          BY <3>1, <4>3, KeptIsAllowed DEF Kept
        <4>5. n = JoinAuthorizedVia
          BY <4>1, <4>2, <4>4
        <4>6. seen = copy.content \ {JoinAuthorizedVia}
          BY <3>3, <3>4, <4>1, <4>4, <4>5
        <4>7. [copy EXCEPT !.content = copy.content \ {JoinAuthorizedVia}] = [state |-> "redacted", type |-> T, content |-> seen]
          BY <2>2, <4>6
        <4>8. QED
          BY <2>1, <3>2, <4>1, <4>3, <4>5, <4>7
      <3>7. QED
        BY <3>5, <3>6
    <2>6. QED
      BY <2>4, <2>5
  <1>3. QED
    BY <1>1, <1>2, CopyStep, SignedInvariant, PTL DEF Spec

-----------------------------------------------------------------------------
(***************************************************************************)
(* HttpApi: what is written is what is read                                *)
(***************************************************************************)
(* The values of a type are filled with its own fields, the parameters of the path among them. *)
LEMMA ValuesIn ==
  ASSUME NEW F, NEW v \in Values(F)
  PROVE  v \subseteq F /\ NeverEmpty(F) \subseteq v
  BY DEF Values, NeverEmpty

(* Serialize writes the filled fields and those that are never skipped. *)
LEMMA Written ==
  ASSUME NEW F, NEW v
  PROVE  /\ \A p : p \in DOMAIN Write(F, v) <=>
                     \E f \in F : (f \in v \/ f.kind \notin Skippable) /\ Place(f) = p
         /\ \A p \in DOMAIN Write(F, v) : Write(F, v)[p] <=> \E f \in v : Place(f) = p
  BY Zenon DEF Write

(* Some fields F of a type G in which no two fields share a place, written and read again, are filled
   as they were, or with the default that is not empty; only the reader of a list that was skipped
   though it is demanded refuses them. *)
LEMMA RoundTrip ==
  ASSUME NEW G, OwnPlaces(G), NEW F \in SUBSET G, NEW v \in SUBSET G
  PROVE  /\ Readable(F, Write(F, v)) <=> Missing(F, v) = {}
         /\ Read(F, Write(F, v)) = (F \cap v) \cup Refilled(F)
<1>. DEFINE wire == Write(F, v)
<1>1. \A p : p \in DOMAIN wire <=> \E f \in F : (f \in v \/ f.kind \notin Skippable) /\ Place(f) = p
  BY Written
<1>2. \A p \in DOMAIN wire : wire[p] <=> \E f \in v : Place(f) = p
  BY Written
<1>. HIDE DEF wire
<1>3. \A f, g \in G : Place(f) = Place(g) => f = g
  BY DEF OwnPlaces
<1>4. F \subseteq G /\ v \subseteq G
  OBVIOUS
<1>5. Readable(F, wire) <=> Missing(F, v) = {}
  <2>1. \A f \in F : f.kind \in Demanded <=> f.kind = "fragile" \/ f.kind = "required"
    BY DEF Demanded
  <2>2. \A f \in F : /\ f.kind = "required" => f.kind \notin Skippable
                     /\ f.kind = "fragile" => f.kind \in Skippable
    BY DEF Skippable
  <2>3. \A f \in F : f.kind = "required" => Place(f) \in DOMAIN wire
    BY <1>1, <2>2, Zenon
  <2>4. \A f \in F : f.kind = "fragile" => (Place(f) \in DOMAIN wire <=> f \in v)
    <3>1. \A f, g \in F : Place(f) = Place(g) => f = g
      BY <1>3, <1>4
    <3>2. QED
      BY <1>1, <2>2, <3>1, Zenon
  <2>5. Missing(F, v) = {} <=> \A f \in F : f.kind = "fragile" => f \in v
    BY DEF Missing
  <2>6. QED
    BY <2>1, <2>3, <2>4, <2>5, Zenon DEF Readable
<1>6. \A f \in F : Place(f) \in DOMAIN wire /\ wire[Place(f)] <=> f \in v
  <2>1. \A f \in F : f \in v => Place(f) \in DOMAIN wire /\ wire[Place(f)]
    BY <1>1, <1>2, Zenon
  <2>2. ASSUME NEW f \in F, Place(f) \in DOMAIN wire, wire[Place(f)] PROVE f \in v
    <3>1. PICK g \in v : Place(g) = Place(f)
      BY <1>2, <2>2, Zenon
    <3>2. f = g
      BY <1>3, <1>4, <3>1
    <3>3. QED
      BY <3>2
  <2>3. QED
    BY <2>1, <2>2
<1>7. {f \in F : Place(f) \in DOMAIN wire /\ wire[Place(f)]} = F \cap v
  BY <1>6
<1>8. QED
  BY <1>5, <1>7, Zenon DEF wire, Read

(* A type without such lists. *)
LEMMA NoListsSkipped ==
  ASSUME NEW F, WellFormed(F), NEW v
  PROVE  OwnPlaces(F) /\ Missing(F, v) = {} /\ Refilled(F) = {}
  BY DEF WellFormed, Missing, Refilled

(* So is the whole value of a well-formed type (Serialize, Deserialize). *)
LEMMA WholeRoundTrip ==
  ASSUME NEW F, WellFormed(F), NEW v, v \subseteq F
  PROVE  Readable(F, Write(F, v)) /\ Read(F, Write(F, v)) = v
<1>1. F \in SUBSET F /\ v \in SUBSET F /\ (F \cap v) \cup {} = v
  OBVIOUS
<1>2. OwnPlaces(F) /\ Missing(F, v) = {} /\ Refilled(F) = {}
  BY NoListsSkipped
<1>3. Readable(F, Write(F, v)) /\ Read(F, Write(F, v)) = (F \cap v) \cup {}
  <2>1. /\ Readable(F, Write(F, v)) <=> Missing(F, v) = {}
        /\ Read(F, Write(F, v)) = (F \cap v) \cup Refilled(F)
    BY <1>1, <1>2, RoundTrip
  <2>2. QED
    BY <1>2, <2>1, Zenon
<1>4. QED
  BY <1>1, <1>3, Zenon

(* With application/json put in for an absent content type, the same value comes back, but for
   the field that holds the content type. *)
LEMMA ContentTypeAdded ==
  ASSUME NEW G, OwnPlaces(G), NEW F \in SUBSET G, NEW v \in SUBSET G,
         \A f \in F : f.kind = "fragile" => Place(f) # ContentType
  PROVE  LET wire == WithContentType(Write(F, v))
         IN  /\ Readable(F, wire) <=> Missing(F, v) = {}
             /\ Read(F, wire) = ((F \cap v) \cup Refilled(F)) \cup {f \in F : Place(f) = ContentType}
<1>. DEFINE w == Write(F, v)
            wire == WithContentType(w)
<1>1. /\ Readable(F, w) <=> Missing(F, v) = {}
      /\ Read(F, w) = (F \cap v) \cup Refilled(F)
  BY RoundTrip
<1>2. \A f \in F : f.kind = "required" => Place(f) \in DOMAIN w
  <2>1. \A f \in F : f.kind = "required" => f.kind \notin Skippable
    BY DEF Skippable
  <2>2. QED
    BY <2>1, Written, Zenon
<1>. HIDE DEF w
<1>3. DOMAIN wire = DOMAIN w \cup {ContentType}
  BY DEF WithContentType
<1>4. \A p \in DOMAIN wire : wire[p] <=> p = ContentType \/ w[p]
  BY <1>3, Zenon DEF WithContentType
<1>. HIDE DEF wire
<1>5. Readable(F, wire) <=> Readable(F, w)
  <2>1. \A f \in F : f.kind \in Demanded <=> f.kind = "fragile" \/ f.kind = "required"
    BY DEF Demanded
  <2>2. \A f \in F : f.kind \in Demanded => (Place(f) \in DOMAIN wire <=> Place(f) \in DOMAIN w)
    BY <1>2, <1>3, <2>1
  <2>3. QED
    BY <2>2, Zenon DEF Readable
<1>6. \A f \in F : f \in Read(F, wire) <=> f \in Read(F, w) \/ Place(f) = ContentType
  <2>. SUFFICES ASSUME NEW f \in F
                PROVE  f \in Read(F, wire) <=> f \in Read(F, w) \/ Place(f) = ContentType
    OBVIOUS
  <2>1. Place(f) \in DOMAIN wire <=> Place(f) \in DOMAIN w \/ Place(f) = ContentType
    BY <1>3
  <2>2. CASE Place(f) = ContentType
    BY <1>4, <2>1, <2>2, Zenon DEF Read
  <2>3. CASE Place(f) # ContentType
    BY <1>4, <2>1, <2>3, Zenon DEF Read
  <2>4. QED
    BY <2>2, <2>3
<1>7. Read(F, wire) \subseteq F /\ Read(F, w) \subseteq F
  BY Zenon DEF Read, Refilled
<1>8. Read(F, wire) = Read(F, w) \cup {f \in F : Place(f) = ContentType}
  BY <1>6, <1>7, Zenon
<1>9. QED
  BY <1>1, <1>5, <1>8, Zenon DEF wire, w

(* The code that a kind of error is written with is read as that kind (From<&str> for ErrCode). *)
LEMMA CodesRead ==
  ASSUME NEW kind \in DOMAIN CodeOf
  PROVE  KindOf(CodeOf[kind]) = kind
<1>. DEFINE known == {k \in DOMAIN KnownCode \ {"_Custom"} : KnownCode[k] = CodeOf[kind]}
<1>1. CASE kind = "_Custom"
  <2>1. known = {}
    BY <1>1, CodeTables
  <2>2. QED
    BY <1>1, <2>1, Zenon DEF KindOf
<1>2. CASE kind # "_Custom"
  <2>1. known = {kind}
    BY <1>2, CodeTables
  <2>2. KindOf(CodeOf[kind]) = CHOOSE k \in known : TRUE
    BY <2>1, Zenon DEF KindOf
  <2>3. (CHOOSE k \in known : TRUE) \in known
    BY <2>1, Zenon
  <2>4. QED
    BY <2>1, <2>2, <2>3, Zenon
<1>3. QED
  BY <1>1, <1>2


-----------------------------------------------------------------------------
(***************************************************************************)
(* HttpApi: a request finds its endpoint                                   *)
(***************************************************************************)
(* The path of an endpoint and the path without its last segment. *)
LEMMA PathEnds ==
  ASSUME NEW e \in Endpoint
  PROVE  /\ e.path \in Seq(STRING) /\ Len(e.path) \in Nat \ {0} /\ DOMAIN e.path = 1 .. Len(e.path)
         /\ Front(e.path) \in Seq(STRING) /\ Len(Front(e.path)) = Len(e.path) - 1
         /\ DOMAIN Front(e.path) = 1 .. Len(e.path) - 1
         /\ \A i \in 1 .. Len(e.path) - 1 : Front(e.path)[i] = e.path[i]
<1>. DEFINE p == e.path
<1>1. p \in Seq(STRING) /\ p # <<>>
  BY Routes
<1>. HIDE DEF p
<1>2. /\ p \in Seq(STRING) /\ Len(p) \in Nat \ {0} /\ DOMAIN p = 1 .. Len(p)
  BY <1>1
<1>3. /\ Front(p) \in Seq(STRING) /\ Len(Front(p)) = Len(p) - 1 /\ DOMAIN Front(p) = 1 .. Len(p) - 1
      /\ \A i \in 1 .. Len(p) - 1 : Front(p)[i] = p[i]
  BY <1>2 DEF Front
<1>4. QED
  BY <1>2, <1>3, Zenon DEF p

(* a request of e matches e *)
LEMMA OwnPathMatches ==
  ASSUME NEW e \in Endpoint, NEW req, req.api = e.api, req.method = e.method, req.path \in PathsOf(e)
  PROVE  Matches(e, req)
<1>1. CASE req.path = e.path
  <2>1. Pattern(e, req.path) = e.path
    <3>1. ~(Len(req.path) < Len(e.path))
      BY <1>1, PathEnds
    <3>2. QED
      BY <3>1, Zenon DEF Pattern
  <2>2. QED
    BY <1>1, <2>1, Zenon DEF Matches
<1>2. CASE OptionalTail(e) /\ req.path = Front(e.path)
  <2>1. Pattern(e, req.path) = Front(e.path)
    <3>1. Len(req.path) < Len(e.path)
      BY <1>2, PathEnds
    <3>2. QED
      BY <1>2, <3>1, Zenon DEF Pattern
  <2>2. \A i \in DOMAIN req.path : e.path[i] = req.path[i]
    BY <1>2, PathEnds
  <2>3. QED
    BY <1>2, <2>1, <2>2, Zenon DEF Matches, Literals
<1>3. QED
  BY <1>1, <1>2, Zenon DEF PathsOf

(* The literal segments of a path can be counted. *)
LEMMA FiniteLiterals ==
  ASSUME NEW d, NEW path \in Seq(STRING)
  PROVE  Cardinality(Literals(d, path)) \in Nat
<1>1. IsFiniteSet(1 .. Len(path))
  BY FS_Interval
<1>2. Literals(d, path) \subseteq 1 .. Len(path)
  BY DEF Literals
<1>3. QED
  BY <1>1, <1>2, FS_Subset, FS_CardinalityType

(* The router takes a request to the endpoint that made it. *)
LEMMA RoutedToItsOwn ==
  ASSUME NEW e \in Endpoint \ Ambiguous, NEW req, req.api = e.api, req.method = e.method, req.path \in PathsOf(e)
  PROVE  Routed(req) = {e}
<1>. DEFINE path == req.path
            lits(d) == Cardinality(Literals(d, path))
<1>1. Matches(e, req)
  BY OwnPathMatches
<1>2. path \in Seq(STRING)
  BY PathEnds DEF PathsOf
<1>3. \A d : lits(d) \in Nat
  BY <1>2, FiniteLiterals
<1>4. ASSUME NEW d \in Endpoint \ {e}, Matches(d, req) PROVE lits(d) < lits(e)
  <2>. DEFINE r == [api |-> e.api, method |-> e.method, path |-> path]
  <2>1. r.api = req.api /\ r.method = req.method /\ r.path = req.path
    OBVIOUS
  <2>. HIDE DEF r
  <2>2. Matches(d, r)
    BY <1>4, <2>1, Zenon DEF Matches
  <2>3. QED
    BY <2>2, Routes, Zenon DEF r
<1>. HIDE DEF lits, path
<1>5. \A d \in Endpoint : Matches(d, req) => lits(d) <= lits(e)
  BY <1>3, <1>4
<1>6. \A d \in Endpoint : Matches(d, req) /\ lits(e) <= lits(d) => d = e
  BY <1>3, <1>4
<1>7. QED
  BY <1>1, <1>5, <1>6, Zenon DEF Routed, lits, path

(* Every filled parameter of the path is read back from its segment, and no other. *)
LEMMA PathParametersRead ==
  ASSUME NEW e \in Endpoint \ Ambiguous, NEW v \in Values(e.request), NEW f \in e.request, f.at = "path"
  PROVE  f \in v <=> \E i \in DOMAIN PathOf(e, v) : e.path[i] = f.name
<1>. DEFINE n == Len(e.path)
            tail == <<"path", Last(e.path)>>
<1>1. /\ n \in Nat \ {0} /\ DOMAIN e.path = 1 .. n /\ DOMAIN Front(e.path) = 1 .. n - 1
  BY PathEnds
<1>2. OwnPlaces(e.request)
  BY RequestTables
<1>3. \/ f.kind = "required" /\ \E i \in DOMAIN e.path : e.path[i] = f.name
      \/ f.kind = "defaulted" /\ {i \in DOMAIN e.path : e.path[i] = f.name} = {n}
  BY RequestTables
<1>4. v \subseteq e.request /\ (f.kind = "required" => f \in v)
  BY ValuesIn DEF NeverEmpty
<1>5. Last(e.path) = e.path[n]
  BY DEF Last
<1>6. \A g \in e.request : Place(g) = tail /\ f.name = Last(e.path) => g = f
  <2>1. f.name = Last(e.path) => Place(f) = tail
    BY DEF Place
  <2>2. QED
    BY <1>2, <2>1 DEF OwnPlaces
<1>. HIDE DEF tail, n
<1>7. CASE f.kind = "required"
  <2>1. PICK i \in DOMAIN e.path : e.path[i] = f.name
    BY <1>3, <1>7
  <2>2. i \in DOMAIN PathOf(e, v)
    <3>1. CASE PathOf(e, v) = e.path
      BY <3>1
    <3>2. CASE PathOf(e, v) # e.path
      <4>1. OptionalTail(e) /\ PathOf(e, v) = Front(e.path)
        BY <3>2, Zenon DEF PathOf
      <4>2. PICK g \in e.request : Place(g) = tail /\ g.kind = "defaulted"
        BY <4>1, Zenon DEF OptionalTail, tail
      <4>3. i # n
        BY <1>5, <1>6, <1>7, <2>1, <4>2
      <4>4. QED
        BY <1>1, <2>1, <4>1, <4>3
    <3>3. QED
      BY <3>1, <3>2
  <2>3. QED
    BY <1>4, <1>7, <2>1, <2>2
<1>8. CASE f.kind = "defaulted"
  <2>1. \A i \in DOMAIN e.path : e.path[i] = f.name <=> i = n
    BY <1>3, <1>8
  <2>2. f.name = Last(e.path) /\ Place(f) = tail
    BY <1>1, <1>5, <2>1 DEF Place, tail
  <2>3. OptionalTail(e)
    BY <1>8, <2>2, Zenon DEF OptionalTail, tail
  <2>4. (\A g \in v : Place(g) # tail) <=> f \notin v
    BY <1>4, <1>6, <2>2
  <2>5. CASE f \in v
    <3>1. PathOf(e, v) = e.path
      BY <2>4, <2>5, Zenon DEF PathOf, tail
    <3>2. n \in DOMAIN e.path
      BY <1>1
    <3>3. QED
      BY <2>1, <2>5, <3>1, <3>2
  <2>6. CASE f \notin v
    <3>1. PathOf(e, v) = Front(e.path)
      BY <2>3, <2>4, <2>6, Zenon DEF PathOf, tail
    <3>2. \A i \in DOMAIN Front(e.path) : i \in DOMAIN e.path /\ i # n
      BY <1>1
    <3>3. QED
      BY <2>1, <2>6, <3>1, <3>2, Zenon
  <2>7. QED
    BY <2>5, <2>6
<1>9. QED
  BY <1>3, <1>7, <1>8

(* A request reaches its endpoint, which reads it as it was meant, unless a list that its reader
   demands was empty. *)
LEMMA Arrives ==
  ASSUME NEW e \in Endpoint \ Ambiguous, NEW v \in Values(e.request), NEW mode, NEW as_user \in BOOLEAN,
         as_user => e.api = "client"
  PROVE  LET req == HttpRequest(e, v, mode, as_user)
         IN  /\ Routed(req) = {e} /\ req.user_id = as_user
             /\ Acceptable(e, req) <=> Missing(e.request, v) = {}
             /\ IncomingRequest(e, req) = AsRead(e.request, v) \cup AssertedPair(e, as_user)
<1>. DEFINE req == HttpRequest(e, v, mode, as_user)
            G == e.request
            F == {f \in G : f.at # "path"}
            w == Write(F, v)
<1>1. /\ req.api = e.api /\ req.method = e.method /\ req.path = PathOf(e, v) /\ req.user_id = as_user
      /\ req.wire = IF HasBody(G) THEN WithContentType(w) ELSE w
  BY DEF HttpRequest
<1>2. PathOf(e, v) \in PathsOf(e)
  BY Zenon DEF PathOf, PathsOf
<1>3. OwnPlaces(G) /\ F \in SUBSET G /\ v \in SUBSET G
  BY RequestTables, ValuesIn
<1>4. \A f \in G : f.kind \in {"fragile", "refilled"} => f.at = "query"
  BY RequestTables
<1>5. Missing(F, v) = Missing(G, v) /\ Refilled(F) = Refilled(G)
  BY <1>4 DEF Missing, Refilled
<1>. HIDE DEF req
<1>6. Routed(req) = {e}
  BY <1>1, <1>2, RoutedToItsOwn, Zenon
<1>7. /\ Readable(F, req.wire) <=> Missing(F, v) = {}
      /\ Read(F, req.wire) = ((F \cap v) \cup Refilled(F)) \cup {f \in F : Place(f) = ContentType}
  <2>1. CASE HasBody(G)
    <3>1. req.wire = WithContentType(w)
      BY <1>1, <2>1, Zenon
    <3>2. \A f \in F : f.kind = "fragile" => Place(f) # ContentType
      BY <1>4 DEF Place, ContentType
    <3>. HIDE DEF F, G
    <3>3. /\ Readable(F, WithContentType(w)) <=> Missing(F, v) = {}
          /\ Read(F, WithContentType(w)) = ((F \cap v) \cup Refilled(F)) \cup {f \in F : Place(f) = ContentType}
      BY <1>3, <3>2, ContentTypeAdded
    <3>4. QED
      BY <3>1, <3>3, Zenon
  <2>2. CASE ~HasBody(G)
    <3>1. req.wire = w
      BY <1>1, <2>2, Zenon
    <3>2. {f \in F : Place(f) = ContentType} = {}
      BY <2>2, RequestTables
    <3>. HIDE DEF F, G
    <3>3. /\ Readable(F, w) <=> Missing(F, v) = {}
          /\ Read(F, w) = (F \cap v) \cup Refilled(F)
      BY <1>3, RoundTrip
    <3>4. (F \cap v) \cup Refilled(F) = ((F \cap v) \cup Refilled(F)) \cup {f \in F : Place(f) = ContentType}
      BY <3>2
    <3>5. QED
      BY <3>1, <3>3, <3>4, Zenon
  <2>3. QED
    BY <2>1, <2>2
<1>8. Acceptable(e, req) <=> Missing(G, v) = {}
  <2>1. req.user_id => \A f \in G : Place(f) # <<"query", "user_id">>
    BY <1>1, RequestTables
  <2>2. QED
    BY <1>1, <1>5, <1>7, <2>1, Zenon DEF Acceptable
<1>9. {f \in G : f.at = "path" /\ \E i \in DOMAIN req.path : e.path[i] = f.name} = {f \in v : f.at = "path"}
  <2>1. \A f \in G : f.at = "path" => (f \in v <=> \E i \in DOMAIN req.path : e.path[i] = f.name)
    BY <1>1, PathParametersRead
  <2>2. QED
    BY <1>3, <2>1, Zenon
<1>10. {f \in F : Place(f) = ContentType} = {f \in G : Place(f) = ContentType}
  BY DEF Place, ContentType
<1>11. (F \cap v) \cup {f \in v : f.at = "path"} = v
  BY <1>3
<1>12. IncomingRequest(e, req) = ((((F \cap v) \cup Refilled(F)) \cup {f \in F : Place(f) = ContentType})
                                   \cup {f \in v : f.at = "path"}) \cup AssertedPair(e, as_user)
  BY <1>1, <1>7, <1>9, Zenon DEF IncomingRequest
<1>13. AsRead(G, v) = (v \cup {f \in G : Place(f) = ContentType}) \cup Refilled(G)
  BY DEF AsRead
<1>. DEFINE types == {f \in G : Place(f) = ContentType}
            inPath == {f \in v : f.at = "path"}
            again == Refilled(G)
            pair == AssertedPair(e, as_user)
<1>14. IncomingRequest(e, req) = ((((F \cap v) \cup again) \cup types) \cup inPath) \cup pair
  BY <1>5, <1>10, <1>12, Zenon
<1>15. IncomingRequest(e, req) = AsRead(G, v) \cup pair
  <2>1. AsRead(G, v) = (v \cup types) \cup again
    BY <1>13
  <2>2. (F \cap v) \cup inPath = v
    BY <1>11
  <2>. HIDE DEF F, G, types, inPath, again, pair
  <2>3. QED
    BY <1>14, <2>1, <2>2
<1>16. QED
  BY <1>1, <1>6, <1>8, <1>15, Zenon DEF req


-----------------------------------------------------------------------------
(***************************************************************************)
(* HttpApi: the fields of an error                                         *)
(***************************************************************************)
(* The names of the fields that an error carries.                           *)
LEMMA HasNames ==
  ASSUME NEW kind, NEW names
  PROVE  NamesOf(Has(kind, names)) = names /\ \A f \in Has(kind, names) : f.kind = kind
<1>1. \A f \in Has(kind, names) : f.name \in names /\ f.kind = kind
  BY DEF Has, In
<1>2. ASSUME NEW n \in names PROVE n \in NamesOf(Has(kind, names))
  <2>. DEFINE f == [at |-> "body", kind |-> kind, name |-> n, given |-> FALSE]
  <2>1. f \in Has(kind, names) /\ f.name = n
    BY DEF Has, In
  <2>2. QED
    BY <2>1, Zenon DEF NamesOf
<1>3. QED
  BY <1>1, <1>2, Zenon DEF NamesOf

OwnNames(kind) == NamesOf(ErrorData(kind))
Needed(kind) == {f \in ErrorData(kind) : f.kind = "required"}

(* No field of an error is called errcode or error. *)
LEMMA ErrorNames ==
  ASSUME NEW kind
  PROVE  /\ OwnNames(kind) \cap {"errcode", "error"} = {}
         /\ kind = "_Custom" => Needed(kind) = {}
         /\ kind # "_Custom" => \A n \in OwnNames(kind) : n \in Reserved /\ VariantContaining[n] = kind
<1>1. CASE kind = "UnknownToken"
  <2>1. OwnNames(kind) = {"soft_logout"}
    BY <1>1, HasNames DEF ErrorData, OwnNames
  <2>2. QED
    BY <1>1, <2>1 DEF Reserved, VariantContaining
<1>2. CASE kind = "LimitExceeded"
  <2>1. OwnNames(kind) = {"retry_after_ms"}
    BY <1>2, HasNames DEF ErrorData, OwnNames
  <2>2. QED
    BY <1>2, <2>1 DEF Reserved, VariantContaining
<1>3. CASE kind = "IncompatibleRoomVersion"
  <2>1. OwnNames(kind) = {"room_version"}
    BY <1>3, HasNames DEF ErrorData, OwnNames
  <2>2. QED
    BY <1>3, <2>1 DEF Reserved, VariantContaining
<1>4. CASE kind = "ResourceLimitExceeded"
  <2>1. OwnNames(kind) = {"admin_contact"}
    BY <1>4, HasNames DEF ErrorData, OwnNames
  <2>2. QED
    BY <1>4, <2>1 DEF Reserved, VariantContaining
<1>5. CASE kind = "_Custom"
  <2>1. ErrorData(kind) = Has("optional", {"reason", "retry_after_ms"})
    BY <1>5 DEF ErrorData
  <2>2. OwnNames(kind) = {"reason", "retry_after_ms"} /\ \A f \in ErrorData(kind) : f.kind = "optional"
    BY <2>1, HasNames DEF OwnNames
  <2>3. QED
    BY <1>5, <2>2 DEF Needed
<1>6. CASE kind \notin {"UnknownToken", "LimitExceeded", "IncompatibleRoomVersion", "ResourceLimitExceeded", "_Custom"}
  <2>1. ErrorData(kind) = {}
    BY <1>6 DEF ErrorData
  <2>2. OwnNames(kind) = {}
    BY <2>1 DEF OwnNames, NamesOf
  <2>3. QED
    BY <1>6, <2>2
<1>7. QED
  BY <1>1, <1>2, <1>3, <1>4, <1>5, <1>6

(* While ErrorKindVisitor reads the keys of an error of this kind, with     *)
(* these fields: the code is known once its key was read; a field that was *)
(* read is kept, unless the code was known and says it is another's.       *)
Visiting(kind, data) ==
  /\ got \in [result : {"reading"}, left : SUBSET ({"errcode", "error"} \cup data), code : {"", kind},
              stored : SUBSET data]
  /\ "errcode" \notin got.left => got.code = kind
  /\ \A n \in data \ got.left : n \in got.stored \/ (n \in Reserved /\ VariantContaining[n] # kind)

(* The visitor keeps every field it needs, whichever key comes next (ErrorKindVisitor::visit_map). *)
LEMMA VisitKeeps ==
  ASSUME NEW kind, NEW data, Visiting(kind, data), data \cap {"errcode", "error"} = {},
         NEW key \in got.left, KindOf(http.errcode) = kind, got' = SetField(key)
  PROVE  Visiting(kind, data)'
<1>. DEFINE dropped == \/ key \in {"errcode", "error"}
                       \/ key \in Reserved /\ got.code \notin {"", VariantContaining[key]}
            c == IF key = "errcode" THEN kind ELSE got.code
            st == IF dropped THEN got.stored ELSE got.stored \cup {key}
<1>1. got \in [result : {"reading"}, left : SUBSET ({"errcode", "error"} \cup data), code : {"", kind},
               stored : SUBSET data]
  BY DEF Visiting
<1>2. got' = [got EXCEPT !.left = got.left \ {key}, !.code = c, !.stored = st]
  BY Zenon DEF SetField
<1>3. c \in {"", kind} /\ st \in SUBSET data
  BY <1>1
<1>. HIDE DEF c, st
<1>4. /\ got' \in [result : {"reading"}, left : SUBSET ({"errcode", "error"} \cup data), code : {"", kind},
                   stored : SUBSET data]
      /\ got'.left = got.left \ {key} /\ got'.code = c /\ got'.stored = st
  BY <1>1, <1>2, <1>3
<1>5. "errcode" \notin got'.left => got'.code = kind
  BY <1>4 DEF Visiting, c
<1>6. ASSUME NEW n \in data \ got'.left
      PROVE  n \in got'.stored \/ (n \in Reserved /\ VariantContaining[n] # kind)
  <2>1. CASE n = key
    <3>1. dropped => n \in Reserved /\ got.code \notin {"", VariantContaining[n]}
      BY <2>1
    <3>2. QED
      BY <1>1, <1>4, <2>1, <3>1 DEF st
  <2>2. CASE n # key
    BY <1>4, <1>6, <2>2 DEF st, Visiting
  <2>3. QED
    BY <2>1, <2>2
<1>7. QED
  BY <1>4, <1>5, <1>6 DEF Visiting

(* When all keys were read, the visitor has the fields of its kind.         *)
LEMMA VisitedFields ==
  ASSUME NEW kind, NEW fields \in SUBSET ErrorData(kind), Needed(kind) \subseteq fields,
         Visiting(kind, NamesOf(fields)), got.left = {}
  PROVE  LET data == NamesOf(fields)
             own == IF kind = "_Custom" THEN got.stored \ Reserved ELSE NamesOf(ErrorData(kind)) \cap got.stored
         IN  /\ got.code = kind
             /\ NamesOf(Needed(kind)) \subseteq own
             /\ own = IF kind = "_Custom" THEN data \ Reserved ELSE data
<1>. DEFINE data == NamesOf(fields)
            own == IF kind = "_Custom" THEN got.stored \ Reserved ELSE NamesOf(ErrorData(kind)) \cap got.stored
<1>1. got.code = kind
  BY DEF Visiting
<1>2. data \subseteq OwnNames(kind) /\ NamesOf(Needed(kind)) \subseteq data
  BY DEF OwnNames, NamesOf
<1>3. got.stored \subseteq data
  BY DEF Visiting
<1>4. \A n \in data : n \in got.stored \/ (n \in Reserved /\ VariantContaining[n] # kind)
  BY DEF Visiting
<1>. HIDE DEF data
<1>5. CASE kind = "_Custom"
  <2>1. own = data \ Reserved
    BY <1>3, <1>4, <1>5
  <2>2. NamesOf(Needed(kind)) = {}
    BY <1>5, ErrorNames DEF NamesOf
  <2>3. QED
    BY <1>1, <1>5, <2>1, <2>2 DEF data
<1>6. CASE kind # "_Custom"
  <2>1. \A n \in data : n \in got.stored
    BY <1>2, <1>4, <1>6, ErrorNames
  <2>2. own = OwnNames(kind) \cap got.stored
    BY <1>6 DEF OwnNames
  <2>3. own = data
    BY <1>2, <1>3, <2>1, <2>2
  <2>4. QED
    BY <1>1, <1>2, <1>6, <2>3 DEF data
<1>7. QED
  BY <1>5, <1>6


-----------------------------------------------------------------------------
(***************************************************************************)
(* HttpApi: the variants of a union                                        *)
(***************************************************************************)
(* A non-empty set of natural numbers has a least element.                 *)
LEMMA SmallestNat ==
  ASSUME NEW T, T \subseteq Nat, T # {}
  PROVE  Min(T) \in T /\ \A m \in T : Min(T) <= m
<1>. DEFINE R == OpToRel(<, Nat)
<1>1. \A m, n \in Nat : <<m, n>> \in R <=> m < n
  BY DEF OpToRel
<1>2. IsWellFoundedOn(R, Nat)
  BY NatLessThanWellFounded
<1>. HIDE DEF R
<1>3. PICK n \in T : \A m \in T : ~(<<m, n>> \in R)
  BY <1>2, WFMin
<1>4. \A m \in T : m \in Nat /\ n \in Nat /\ ~(m < n)
  BY <1>1, <1>3, Zenon
<1>5. \A m \in T : n <= m
  BY <1>4
<1>6. QED
  BY <1>5 DEF Min

FirstFit(union, wire) == SelectInSeq(union, LAMBDA v : Fits(v, wire))

(* The reader of a union takes the first variant that fits. *)
LEMMA FirstFitIs ==
  ASSUME NEW union, NEW wire, Len(union) \in Nat, NEW i \in 1 .. Len(union), Fits(union[i], wire)
  PROVE  LET first == FirstFit(union, wire)
         IN  first \in 1 .. i /\ Fits(union[first], wire)
<1>. DEFINE I == {j \in 1 .. Len(union) : Fits(union[j], wire)}
            n == Min(I)
<1>1. i \in I /\ I \subseteq Nat
  OBVIOUS
<1>2. FirstFit(union, wire) = n
  <2>1. I # {}
    BY <1>1
  <2>2. QED
    BY <2>1, Zenon DEF FirstFit, SelectInSeq
<1>3. n \in I /\ \A m \in I : n <= m
  <2>. HIDE DEF I
  <2>1. QED
    BY <1>1, SmallestNat
<1>. HIDE DEF n
<1>4. n \in 1 .. Len(union) /\ Fits(union[n], wire)
  BY <1>3
<1>5. n <= i
  BY <1>1, <1>3, Zenon
<1>6. n \in 1 .. i
  BY <1>4, <1>5
<1>7. QED
  BY <1>2, <1>4, <1>6, Zenon

(* What one variant writes, no variant before it takes for its own.         *)
LEMMA VariantRead ==
  ASSUME NEW union \in Union, NEW i \in DOMAIN union, union[i][2] \notin Lossy, NEW v \in Values(union[i][2])
  PROVE  LET wire == Write(union[i][2], v)
             first == FirstFit(union, wire)
         IN  /\ first # 0 /\ union[first][2] = union[i][2]
             /\ Read(union[first][2], wire) = v
<1>. DEFINE F == union[i][2]
            wire == Write(F, v)
            first == FirstFit(union, wire)
<1>1. DOMAIN union = 1 .. Len(union) /\ Len(union) \in Nat
  BY UnionTables
<1>2. /\ WellFormed(F)
      /\ union[i][1] # "" => \E f \in F : Place(f) = <<"body", union[i][1]>> /\ f.kind \notin Skippable
      /\ \A j \in 1 .. i - 1 : union[j][2] = F \/ Apart(union[j], F)
  BY UnionTables
<1>3. v \subseteq F
  BY ValuesIn
<1>. HIDE DEF F, first
<1>4. Readable(F, wire) /\ Read(F, wire) = v
  BY <1>2, <1>3, WholeRoundTrip
<1>5. \A p : p \in DOMAIN wire <=> \E f \in F : (f \in v \/ f.kind \notin Skippable) /\ Place(f) = p
  BY Written
<1>. HIDE DEF wire
<1>6. Fits(union[i], wire)
  BY <1>2, <1>4, <1>5, Zenon DEF Fits, F
<1>7. \A j \in 1 .. i - 1 : Fits(union[j], wire) => union[j][2] = F
  <2>. SUFFICES ASSUME NEW j \in 1 .. i - 1, Fits(union[j], wire), Apart(union[j], F) PROVE FALSE
    BY <1>2
  <2>1. CASE union[j][1] # "" /\ \A f \in F : Place(f) # <<"body", union[j][1]>>
    BY <1>5, <2>1, Zenon DEF Fits
  <2>2. CASE \E g \in union[j][2] : g.kind = "required" /\ \A f \in F : Place(f) # Place(g)
    <3>1. PICK g \in union[j][2] : g.kind = "required" /\ \A f \in F : Place(f) # Place(g)
      BY <2>2
    <3>2. g.kind \in Demanded
      BY <3>1 DEF Demanded
    <3>3. Place(g) \in DOMAIN wire
      BY <3>2, Zenon DEF Fits, Readable
    <3>4. QED
      BY <1>5, <3>1, <3>3, Zenon
  <2>3. QED
    BY <2>1, <2>2 DEF Apart
<1>8. first \in 1 .. i /\ Fits(union[first], wire)
  BY <1>1, <1>6, FirstFitIs DEF first
<1>9. union[first][2] = F
  <2>1. CASE first = i
    BY <2>1 DEF F
  <2>2. CASE first # i
    <3>1. first \in 1 .. i - 1
      BY <1>1, <1>8, <2>2
    <3>2. QED
      BY <1>7, <1>8, <3>1
  <2>3. QED
    BY <2>1, <2>2
<1>10. first # 0
  BY <1>1, <1>8
<1>11. QED
  BY <1>4, <1>9, <1>10, Zenon DEF F, wire, first

-----------------------------------------------------------------------------
(* The inductive invariant: what is on the wire is what the writing side    *)
(* made of its value.                                                      *)
Requested ==
  \E e \in Endpoint : \E v \in Values(e.request), mode \in TokenMode, as_user \in BOOLEAN :
    /\ as_user => e.api = "client"
    /\ sent = [ep |-> e, value |-> v]
    /\ http = HttpRequest(e, v, mode, as_user)

IsOk(d, answer, h) ==
  \E v \in Values(d.response) :
    answer = [kind |-> "ok", value |-> v]
      /\ h = [status |-> 200, wire |-> WithContentType(Write(d.response, v))]
IsError(answer, h) ==
  \E kind \in DOMAIN CodeOf, status \in Status : \E fields \in SUBSET ErrorData(kind) :
    Needed(kind) \subseteq fields
      /\ answer = [kind |-> "error", error |-> kind, data |-> NamesOf(fields)]
      /\ h = ErrorResponse(kind, fields, status)
IsUiaa(d, answer, h) ==
  /\ d.error = "UiaaResponse"
  /\ \E v \in Values(UiaaInfoFields) :
       answer = [kind |-> "uiaa", value |-> v] /\ h = [status |-> 401, wire |-> Write(UiaaInfoFields, v)]

Exchange(e, d, answer) == sent = [ep |-> e, server |-> d, answer |-> answer]
Responded ==
  \E e, d \in Endpoint : \E answer :
    /\ Exchange(e, d, answer)
    /\ IsOk(d, answer, http) \/ IsError(answer, http) \/ IsUiaa(d, answer, http)

Read401(e, h) == e.error = "UiaaResponse" /\ h.status = 401

ErrorRead(answer) ==
  \E kind \in DOMAIN CodeOf, status \in Status : \E fields \in SUBSET ErrorData(kind) :
    /\ Needed(kind) \subseteq fields
    /\ answer = [kind |-> "error", error |-> kind, data |-> NamesOf(fields)]
    /\ http = ErrorResponse(kind, fields, status)
    /\ Visiting(kind, NamesOf(fields))
InVisitor ==
  \E e, d \in Endpoint : \E answer :
    /\ Exchange(e, d, answer) /\ e.error # "MatrixError"
    /\ d = e => ~Read401(e, http)
    /\ d = e => ErrorRead(answer)

ObjectWritten ==
  \E object \in Object : \E v \in Values(object) :
    sent = [object |-> object, value |-> v] /\ http = [wire |-> Write(object, v)]
VariantWritten ==
  \E union \in Union : \E i \in DOMAIN union : \E v \in Values(union[i][2]) :
    /\ sent = [union |-> union, object |-> union[i][2], value |-> v]
    /\ http = [wire |-> Write(union[i][2], v)]
NameWritten ==
  \E type \in NamedType : \E variant \in DOMAIN type :
    sent = [type |-> type, value |-> variant] /\ http = [name |-> type[variant]]

ApiInv ==
  /\ pc = "request" => Requested
  /\ pc = "served" => sent.ep \in Endpoint /\ got.ep \in Endpoint /\ CallsArriveAsMeant
  /\ pc = "handler" => \E e, d \in Endpoint : sent = [ep |-> e, server |-> d]
  /\ pc = "response" => Responded
  /\ pc = "visit_map" => InVisitor
  /\ pc = "json" => ObjectWritten \/ VariantWritten \/ NameWritten
  /\ pc = "end" => AnswersArriveAsGiven /\ ValuesSurvive


-----------------------------------------------------------------------------
(***************************************************************************)
(* HttpApi: calling and answering                                          *)
(***************************************************************************)
(* The client got what the server answered.                                *)
Given(e, answer, h, g) ==
  CASE answer.kind = "ok"   -> g.result = "ok" /\ g.value = AsRead(e.response, answer.value)
    [] answer.kind = "uiaa" -> g.result = "uiaa" /\ g.value = answer.value
    [] answer.kind = "error" ->
         \/ g.result = "unknown" /\ Read401(e, h)
         \/ /\ g.result = "error" /\ g.status = h.status /\ g.errcode = CodeOf[answer.error]
            /\ g.data = IF answer.error = "_Custom" /\ e.error # "MatrixError"
                        THEN answer.data \ Reserved ELSE answer.data

(* An exchange that ends with the answer given keeps the invariant. *)
LEMMA ExchangeEnds ==
  ASSUME NEW e, NEW d, NEW answer, Exchange(e, d, answer), UNCHANGED sent, pc' = "end",
         d = e => got'.result = "Header" \/ Given(e, answer, http', got')
  PROVE  ApiInv'
<1>1. /\ DOMAIN sent' = {"ep", "server", "answer"} /\ sent'.ep = e /\ sent'.server = d /\ sent'.answer = answer
  BY DEF Exchange
<1>2. ValuesSurvive'
  BY <1>1 DEF ValuesSurvive
<1>3. ReadsUiaaInfo' <=> Read401(e, http')
  BY <1>1 DEF ReadsUiaaInfo, Read401
<1>4. AnswersArriveAsGiven'
  <2>. SUFFICES ASSUME d = e, got'.result # "Header" PROVE AnswersArriveAsGiven'
    BY <1>1 DEF AnswersArriveAsGiven
  <2>1. Given(e, answer, http', got')
    OBVIOUS
  <2>2. QED
    BY <1>1, <1>3, <2>1, Zenon DEF AnswersArriveAsGiven, Given
<1>5. QED
  BY <1>2, <1>4 DEF ApiInv

(* What the status and the body tell about an answer. *)
LEMMA StatusAndBody ==
  ASSUME NEW d, NEW answer, NEW h
  PROVE  /\ IsOk(d, answer, h) => h.status = 200 /\ answer.kind = "ok" /\ "keys" \notin DOMAIN h
         /\ IsError(answer, h) => h.status \in {401, 403} /\ answer.kind = "error" /\ "keys" \in DOMAIN h
         /\ IsUiaa(d, answer, h) => h.status = 401 /\ answer.kind = "uiaa" /\ "keys" \notin DOMAIN h
<1>1. IsOk(d, answer, h) => h.status = 200 /\ answer.kind = "ok" /\ "keys" \notin DOMAIN h
  BY DEF IsOk
<1>2. IsError(answer, h) => h.status \in {401, 403} /\ answer.kind = "error" /\ "keys" \in DOMAIN h
  BY DEF IsError, ErrorResponse, Status
<1>3. IsUiaa(d, answer, h) => h.status = 401 /\ answer.kind = "uiaa" /\ "keys" \notin DOMAIN h
  BY DEF IsUiaa
<1>4. QED
  BY <1>1, <1>2, <1>3

(* try_into_http_request *)
LEMMA CallKeeps ==
  ASSUME NEW e \in Endpoint, NEW v \in Values(e.request), NEW mode \in TokenMode, NEW as_user \in BOOLEAN,
         as_user => e.api = "client", Call(e, v, mode, as_user)
  PROVE  ApiInv'
<1>1. sent' = [ep |-> e, value |-> v]
  BY DEF Call
<1>2. CASE pc' = "request" /\ http' = HttpRequest(e, v, mode, as_user)
  <2>1. Requested'
    BY <1>1, <1>2, Zenon DEF Requested
  <2>2. QED
    BY <1>2, <2>1 DEF ApiInv
<1>3. CASE pc' = "end"
  <2>1. DOMAIN sent' = {"ep", "value"}
    BY <1>1
  <2>2. ValuesSurvive' /\ AnswersArriveAsGiven'
    BY <2>1 DEF ValuesSurvive, AnswersArriveAsGiven
  <2>3. QED
    BY <1>3, <2>2 DEF ApiInv
<1>4. QED
  BY <1>2, <1>3 DEF Call

(* try_from_http_request *)
LEMMA ServeKeeps ==
  ASSUME ApiInv, Serve
  PROVE  ApiInv'
<1>0. PICK e \in Endpoint : \E v \in Values(e.request), mode \in TokenMode, as_user \in BOOLEAN :
        /\ as_user => e.api = "client"
        /\ sent = [ep |-> e, value |-> v]
        /\ http = HttpRequest(e, v, mode, as_user)
  BY DEF ApiInv, Serve, Requested
<1>1. PICK v \in Values(e.request), mode \in TokenMode, as_user \in BOOLEAN :
        /\ as_user => e.api = "client"
        /\ sent = [ep |-> e, value |-> v]
        /\ http = HttpRequest(e, v, mode, as_user)
  BY <1>0
<1>2. PICK d \in Routed(http) :
        \/ /\ Acceptable(d, http)
           /\ got' = [result |-> "accepted", ep |-> d, value |-> IncomingRequest(d, http)]
        \/ /\ ~Acceptable(d, http)
           /\ got' = [result |-> "refused", ep |-> d]
  BY DEF Serve
<1>3. d \in Endpoint
  BY <1>2 DEF Routed
<1>4. got'.ep = d
  BY <1>2
<1>5. pc' = "served" /\ sent' = sent /\ sent.ep = e /\ sent.value = v
  BY <1>1 DEF Serve
<1>6. CallsArriveAsMeant'
  <2>1. CASE e \in Ambiguous
    BY <1>5, <2>1 DEF CallsArriveAsMeant
  <2>2. CASE e \notin Ambiguous
    <3>. DEFINE req == HttpRequest(e, v, mode, as_user)
                meant == AsRead(e.request, v) \cup AssertedPair(e, as_user)
    <3>1. /\ Routed(req) = {e} /\ req.user_id = as_user
          /\ Acceptable(e, req) <=> Missing(e.request, v) = {}
          /\ IncomingRequest(e, req) = meant
      BY <1>1, <2>2, Arrives
    <3>2. d = e /\ http.user_id = as_user /\ (Acceptable(d, http) <=> Missing(e.request, v) = {})
            /\ IncomingRequest(d, http) = meant
      BY <1>1, <1>2, <3>1, Zenon
    <3>. HIDE DEF meant
    <3>3. IF Missing(e.request, v) # {} THEN got'.result = "refused"
          ELSE got'.result = "accepted" /\ got'.value = meant
      BY <1>2, <3>2
    <3>4. got'.ep = e /\ http'.user_id = as_user
      BY <1>4, <3>2 DEF Serve
    <3>5. QED
      BY <1>5, <3>3, <3>4, Zenon DEF CallsArriveAsMeant, meant
  <2>3. QED
    BY <2>1, <2>2
<1>7. QED
  BY <1>3, <1>4, <1>5, <1>6 DEF ApiInv

(* The handler takes the request. *)
LEMMA HandleKeeps ==
  ASSUME ApiInv, Handle
  PROVE  ApiInv'
<1>1. sent.ep \in Endpoint /\ got.ep \in Endpoint /\ sent' = [ep |-> sent.ep, server |-> got.ep] /\ pc' = "handler"
  BY DEF ApiInv, Handle
<1>2. \E e, d \in Endpoint : sent' = [ep |-> e, server |-> d]
  BY <1>1, Zenon
<1>3. QED
  BY <1>1, <1>2 DEF ApiInv

(* The handler answers with a response. *)
LEMMA AnswerOkKeeps ==
  ASSUME ApiInv, pc = "handler", NEW v \in Values(sent.server.response), AnswerOk(v)
  PROVE  ApiInv'
<1>. DEFINE answer == [kind |-> "ok", value |-> v]
<1>1. PICK e \in Endpoint, d \in Endpoint : sent = [ep |-> e, server |-> d]
  BY DEF ApiInv
<1>2. sent.ep = e /\ sent.server = d
  BY <1>1
<1>3. Exchange(e, d, answer)'
  BY <1>2, Zenon DEF AnswerOk, Answered, Exchange
<1>4. CASE pc' = "response" /\ http' = [status |-> 200, wire |-> WithContentType(Write(sent.server.response, v))]
  <2>1. v \in Values(d.response) /\ http' = [status |-> 200, wire |-> WithContentType(Write(d.response, v))]
    BY <1>2, <1>4, Zenon
  <2>2. IsOk(d, answer, http')
    BY <2>1, Zenon DEF IsOk
  <2>3. Responded'
    BY <1>3, <2>2, Zenon DEF Responded
  <2>4. QED
    BY <1>4, <2>3 DEF ApiInv
<1>5. CASE pc' = "end" /\ got' = [result |-> "Header"]
  <2>1. DOMAIN sent' = {"ep", "server", "answer"} /\ got'.result = "Header"
    BY <1>3, <1>5 DEF Exchange
  <2>2. ValuesSurvive' /\ AnswersArriveAsGiven'
    BY <2>1 DEF ValuesSurvive, AnswersArriveAsGiven
  <2>3. QED
    BY <1>5, <2>2 DEF ApiInv
<1>6. QED
  BY <1>4, <1>5 DEF AnswerOk

(* The handler answers with an error. *)
LEMMA AnswerErrorKeeps ==
  ASSUME ApiInv, NEW kind \in DOMAIN CodeOf, NEW status \in Status, NEW data \in SUBSET ErrorData(kind),
         AnswerError(kind, data, status)
  PROVE  ApiInv'
<1>. DEFINE answer == [kind |-> "error", error |-> kind, data |-> NamesOf(data)]
<1>1. PICK e \in Endpoint, d \in Endpoint : sent = [ep |-> e, server |-> d]
  BY DEF ApiInv, AnswerError, Answered
<1>2. sent.ep = e /\ sent.server = d
  BY <1>1
<1>3. Exchange(e, d, answer)'
  BY <1>2, Zenon DEF AnswerError, Answered, Exchange
<1>4. IsError(answer, http')
  BY Zenon DEF AnswerError, IsError, Needed
<1>5. Responded'
  BY <1>3, <1>4, Zenon DEF Responded
<1>6. QED
  BY <1>5 DEF ApiInv, AnswerError

(* The handler asks for user-interactive authentication. *)
LEMMA AnswerUiaaKeeps ==
  ASSUME ApiInv, NEW v \in Values(UiaaInfoFields), AnswerUiaa(v)
  PROVE  ApiInv'
<1>. DEFINE answer == [kind |-> "uiaa", value |-> v]
<1>1. PICK e \in Endpoint, d \in Endpoint : sent = [ep |-> e, server |-> d]
  BY DEF ApiInv, AnswerUiaa, Answered
<1>2. sent.ep = e /\ sent.server = d
  BY <1>1
<1>3. Exchange(e, d, answer)'
  BY <1>2, Zenon DEF AnswerUiaa, Answered, Exchange
<1>4. IsUiaa(d, answer, http')
  BY <1>2, Zenon DEF AnswerUiaa, IsUiaa
<1>5. Responded'
  BY <1>3, <1>4, Zenon DEF Responded
<1>6. QED
  BY <1>5 DEF ApiInv, AnswerUiaa


-----------------------------------------------------------------------------
(***************************************************************************)
(* HttpApi: what the client makes of the answer                            *)
(***************************************************************************)
(* A response comes back. *)
LEMMA ReceiveOkKeeps ==
  ASSUME ApiInv, ReceiveOk
  PROVE  ApiInv'
<1>0. PICK e \in Endpoint, d \in Endpoint : \E answer :
        /\ Exchange(e, d, answer)
        /\ IsOk(d, answer, http) \/ IsError(answer, http) \/ IsUiaa(d, answer, http)
  BY DEF ApiInv, ReceiveOk, Responded
<1>1. PICK answer :
        /\ Exchange(e, d, answer)
        /\ IsOk(d, answer, http) \/ IsError(answer, http) \/ IsUiaa(d, answer, http)
  BY <1>0
<1>2. IsOk(d, answer, http)
  <2>1. http.status < 400
    BY DEF ReceiveOk
  <2>2. QED
    BY <1>1, <2>1, StatusAndBody
<1>3. PICK v \in Values(d.response) : answer = [kind |-> "ok", value |-> v]
        /\ http = [status |-> 200, wire |-> WithContentType(Write(d.response, v))]
  BY <1>2 DEF IsOk
<1>4. d = e => Given(e, answer, http', got')
  <2>. SUFFICES ASSUME d = e PROVE Given(e, answer, http', got')
    OBVIOUS
  <2>. DEFINE F == e.response
              w == WithContentType(Write(F, v))
  <2>1. WellFormed(F) /\ F \in SUBSET F /\ v \in SUBSET F
    BY <1>3, ResponseTables, ValuesIn
  <2>. HIDE DEF F
  <2>2. /\ Readable(F, w)
        /\ Read(F, w) = ((F \cap v) \cup Refilled(F)) \cup {f \in F : Place(f) = ContentType}
    <3>1. OwnPlaces(F) /\ Missing(F, v) = {} /\ \A f \in F : f.kind = "fragile" => Place(f) # ContentType
      BY <2>1, NoListsSkipped DEF WellFormed
    <3>2. QED
      BY <2>1, <3>1, ContentTypeAdded
  <2>3. Read(F, w) = AsRead(F, v)
    BY <2>1, <2>2 DEF AsRead
  <2>4. http.wire = w /\ sent.ep = e /\ answer.kind = "ok" /\ answer.value = v
    BY <1>1, <1>3 DEF Exchange, F
  <2>. HIDE DEF w
  <2>5. got' = [result |-> "ok", value |-> AsRead(F, v)]
    BY <2>2, <2>3, <2>4, Zenon DEF ReceiveOk, F
  <2>6. got'.result = "ok" /\ got'.value = AsRead(F, v)
    BY <2>5
  <2>7. QED
    BY <2>4, <2>6 DEF Given, F
<1>5. UNCHANGED sent /\ pc' = "end"
  BY DEF ReceiveOk
<1>6. QED
  BY <1>1, <1>4, <1>5, ExchangeEnds

(* The fields of UiaaInfo are in places of their own, and none is a list that is skipped. *)
LEMMA UiaaTable == WellFormed(UiaaInfoFields)
<1>. DEFINE Field(f) == /\ f = [at |-> f.at, kind |-> f.kind, name |-> f.name, given |-> f.given]
                        /\ f.at = "body"
                        /\ \/ f.name \in {"flows", "params"} /\ f.kind = "required" /\ f.given = TRUE
                           \/ f.name = "completed" /\ f.kind = "defaulted" /\ f.given = FALSE
                           \/ f.name \in {"session", "auth_error"} /\ f.kind = "optional" /\ f.given = FALSE
<1>1. ASSUME NEW f \in UiaaInfoFields PROVE Field(f)
  <2>1. CASE f \in Arg("body", "required", {"flows", "params"})
    BY <2>1 DEF Arg
  <2>2. CASE f \in In("body", "defaulted", {"completed"})
    BY <2>2 DEF In
  <2>3. CASE f \in In("body", "optional", {"session", "auth_error"})
    BY <2>3 DEF In
  <2>4. QED
    BY <2>1, <2>2, <2>3 DEF UiaaInfoFields
<1>2. \A f \in UiaaInfoFields : f.kind \notin {"fragile", "refilled"}
  BY <1>1
<1>3. ASSUME NEW f \in UiaaInfoFields, NEW g \in UiaaInfoFields, Place(f) = Place(g) PROVE f = g
  <2>1. f.name = g.name
    BY <1>3 DEF Place
  <2>2. Field(f) /\ Field(g)
    BY <1>1
  <2>3. f.at = g.at /\ f.kind = g.kind /\ f.given = g.given
    BY <2>1, <2>2
  <2>4. QED
    BY <2>1, <2>2, <2>3
<1>4. QED
  BY <1>2, <1>3 DEF WellFormed, OwnPlaces

(* A 401 comes back to an endpoint with user-interactive authentication. *)
LEMMA ReceiveUiaaKeeps ==
  ASSUME ApiInv, ReceiveUiaa
  PROVE  ApiInv'
<1>0. PICK e \in Endpoint, d \in Endpoint : \E answer :
        /\ Exchange(e, d, answer)
        /\ IsOk(d, answer, http) \/ IsError(answer, http) \/ IsUiaa(d, answer, http)
  BY DEF ApiInv, ReceiveUiaa, Responded
<1>1. PICK answer :
        /\ Exchange(e, d, answer)
        /\ IsOk(d, answer, http) \/ IsError(answer, http) \/ IsUiaa(d, answer, http)
  BY <1>0
<1>2. sent.ep = e /\ UNCHANGED sent /\ UNCHANGED http /\ pc' = "end"
  BY <1>1 DEF ReceiveUiaa, Exchange
<1>3. Read401(e, http')
  BY <1>2 DEF ReceiveUiaa, ReadsUiaaInfo, Read401
<1>4. CASE IsError(answer, http)
  <2>1. "keys" \in DOMAIN http /\ answer.kind = "error"
    BY <1>4, StatusAndBody
  <2>2. got' = [result |-> "unknown"]
    BY <2>1, Zenon DEF ReceiveUiaa, IsErrorBody
  <2>3. Given(e, answer, http', got')
    BY <1>3, <2>1, <2>2 DEF Given
  <2>4. QED
    BY <1>1, <1>2, <2>3, ExchangeEnds
<1>5. CASE IsUiaa(d, answer, http)
  <2>. DEFINE F == UiaaInfoFields
  <2>1. PICK v \in Values(F) : answer = [kind |-> "uiaa", value |-> v] /\ http = [status |-> 401, wire |-> Write(F, v)]
    BY <1>5 DEF IsUiaa
  <2>. DEFINE w == Write(F, v)
  <2>2. WellFormed(F)
    BY UiaaTable
  <2>. HIDE DEF F
  <2>3. v \subseteq F
    BY ValuesIn
  <2>4. Readable(F, w) /\ Read(F, w) = v
    BY <2>2, <2>3, WholeRoundTrip
  <2>5. http.wire = w /\ answer.kind = "uiaa" /\ answer.value = v /\ "keys" \notin DOMAIN http
    BY <2>1
  <2>. HIDE DEF w
  <2>6. got' = [result |-> "uiaa", value |-> v]
    BY <2>4, <2>5, Zenon DEF ReceiveUiaa, IsErrorBody, F
  <2>7. Given(e, answer, http', got')
    BY <2>5, <2>6 DEF Given
  <2>8. QED
    BY <1>1, <1>2, <2>7, ExchangeEnds
<1>6. CASE IsOk(d, answer, http)
  <2>1. http.status = 200
    BY <1>6, StatusAndBody
  <2>2. QED
    BY <2>1 DEF ReceiveUiaa, ReadsUiaaInfo
<1>7. QED
  BY <1>1, <1>4, <1>5, <1>6

(* An answer that is no success and is not read as a UiaaInfo is an error. *)
LEMMA OnlyErrorsLeft ==
  ASSUME Responded, http.status >= 400, ~ReadsUiaaInfo
  PROVE  \E e, d \in Endpoint : \E answer :
           /\ Exchange(e, d, answer) /\ sent.ep = e /\ ~Read401(e, http)
           /\ d = e => IsError(answer, http)
<1>0. PICK e \in Endpoint, d \in Endpoint : \E answer :
        /\ Exchange(e, d, answer)
        /\ IsOk(d, answer, http) \/ IsError(answer, http) \/ IsUiaa(d, answer, http)
  BY DEF Responded
<1>1. PICK answer :
        /\ Exchange(e, d, answer)
        /\ IsOk(d, answer, http) \/ IsError(answer, http) \/ IsUiaa(d, answer, http)
  BY <1>0
<1>2. sent.ep = e
  BY <1>1 DEF Exchange
<1>3. ~Read401(e, http)
  BY <1>2 DEF ReadsUiaaInfo, Read401
<1>4. ~IsOk(d, answer, http)
  BY StatusAndBody
<1>5. d = e => ~IsUiaa(d, answer, http)
  BY <1>3, StatusAndBody DEF IsUiaa, Read401
<1>6. QED
  BY <1>1, <1>2, <1>3, <1>4, <1>5

ErrorBodyIs(answer, h, kind, status, fields) ==
  /\ Needed(kind) \subseteq fields
  /\ answer = [kind |-> "error", error |-> kind, data |-> NamesOf(fields)]
  /\ h = ErrorResponse(kind, fields, status)
  /\ answer.kind = "error" /\ answer.error = kind /\ answer.data = NamesOf(fields)
  /\ h.status = status /\ h.errcode = CodeOf[kind] /\ h.keys = {"errcode", "error"} \cup NamesOf(fields)
  /\ NamesOf(fields) \cap {"errcode", "error"} = {}

(* What an error puts into its response. *)
LEMMA ErrorBody ==
  ASSUME NEW answer, NEW h, IsError(answer, h)
  PROVE  \E kind \in DOMAIN CodeOf, status \in Status : \E fields \in SUBSET ErrorData(kind) :
           ErrorBodyIs(answer, h, kind, status, fields)
<1>1. PICK kind \in DOMAIN CodeOf, status \in Status :
        \E fields \in SUBSET ErrorData(kind) :
          /\ Needed(kind) \subseteq fields
          /\ answer = [kind |-> "error", error |-> kind, data |-> NamesOf(fields)]
          /\ h = ErrorResponse(kind, fields, status)
  BY DEF IsError
<1>2. PICK fields \in SUBSET ErrorData(kind) :
        /\ Needed(kind) \subseteq fields
        /\ answer = [kind |-> "error", error |-> kind, data |-> NamesOf(fields)]
        /\ h = ErrorResponse(kind, fields, status)
  BY <1>1
<1>3. answer.kind = "error" /\ answer.error = kind /\ answer.data = NamesOf(fields)
  BY <1>2
<1>4. h.status = status /\ h.errcode = CodeOf[kind] /\ h.keys = {"errcode", "error"} \cup NamesOf(fields)
  BY <1>2 DEF ErrorResponse
<1>5. NamesOf(fields) \cap {"errcode", "error"} = {}
  <2>1. NamesOf(fields) \subseteq OwnNames(kind)
    BY DEF NamesOf, OwnNames
  <2>2. QED
    BY <2>1, ErrorNames
<1>6. ErrorBodyIs(answer, h, kind, status, fields)
  BY <1>2, <1>3, <1>4, <1>5, Zenon DEF ErrorBodyIs
<1>7. QED
  BY <1>6, Zenon

(* An error comes back as a MatrixError, with its body as it is. *)
LEMMA ReceiveMatrixErrorKeeps ==
  ASSUME ApiInv, ReceiveMatrixError
  PROVE  ApiInv'
<1>0. PICK e \in Endpoint, d \in Endpoint : \E answer :
        /\ Exchange(e, d, answer) /\ sent.ep = e /\ ~Read401(e, http)
        /\ d = e => IsError(answer, http)
  BY OnlyErrorsLeft DEF ApiInv, ReceiveMatrixError
<1>1. PICK answer :
        /\ Exchange(e, d, answer) /\ sent.ep = e /\ ~Read401(e, http)
        /\ d = e => IsError(answer, http)
  BY <1>0
<1>2. d = e => Given(e, answer, http', got')
  <2>. SUFFICES ASSUME d = e PROVE Given(e, answer, http', got')
    OBVIOUS
  <2>1. PICK kind \in DOMAIN CodeOf, status \in Status :
          \E fields \in SUBSET ErrorData(kind) : ErrorBodyIs(answer, http, kind, status, fields)
    BY <1>1, ErrorBody
  <2>2. /\ http.keys \ {"errcode", "error"} = answer.data
        /\ answer.kind = "error" /\ answer.error = kind /\ http.errcode = CodeOf[kind]
    BY <2>1 DEF ErrorBodyIs
  <2>3. /\ got'.result = "error" /\ got'.status = http.status /\ got'.errcode = http.errcode
        /\ got'.data = http.keys \ {"errcode", "error"}
    BY DEF ReceiveMatrixError
  <2>4. e.error = "MatrixError" /\ http' = http
    BY <1>1 DEF ReceiveMatrixError
  <2>5. QED
    BY <2>2, <2>3, <2>4 DEF Given
<1>3. UNCHANGED sent /\ pc' = "end"
  BY DEF ReceiveMatrixError
<1>4. QED
  BY <1>1, <1>2, <1>3, ExchangeEnds

(* An error comes back, and the visitor starts on its body. *)
LEMMA ReceiveErrorKeeps ==
  ASSUME ApiInv, ReceiveError
  PROVE  ApiInv'
<1>0. PICK e \in Endpoint, d \in Endpoint : \E answer :
        /\ Exchange(e, d, answer) /\ sent.ep = e /\ ~Read401(e, http)
        /\ d = e => IsError(answer, http)
  BY OnlyErrorsLeft DEF ApiInv, ReceiveError
<1>1. PICK answer :
        /\ Exchange(e, d, answer) /\ sent.ep = e /\ ~Read401(e, http)
        /\ d = e => IsError(answer, http)
  BY <1>0
<1>2. UNCHANGED <<sent, http>> /\ e.error # "MatrixError" /\ pc' = "visit_map"
  BY <1>1 DEF ReceiveError
<1>3. d = e => ErrorRead(answer)'
  <2>. SUFFICES ASSUME d = e PROVE ErrorRead(answer)'
    OBVIOUS
  <2>1. PICK kind \in DOMAIN CodeOf, status \in Status :
          \E fields \in SUBSET ErrorData(kind) : ErrorBodyIs(answer, http, kind, status, fields)
    BY <1>1, ErrorBody
  <2>2. PICK fields \in SUBSET ErrorData(kind) :
           /\ Needed(kind) \subseteq fields
           /\ answer = [kind |-> "error", error |-> kind, data |-> NamesOf(fields)]
           /\ http = ErrorResponse(kind, fields, status)
           /\ http.keys = {"errcode", "error"} \cup NamesOf(fields)
    BY <2>1, Zenon DEF ErrorBodyIs
  <2>. DEFINE data == NamesOf(fields)
  <2>3. got' = [result |-> "reading", left |-> {"errcode", "error"} \cup data, code |-> "", stored |-> {}]
    BY <2>2, Zenon DEF ReceiveError
  <2>. HIDE DEF data
  <2>4. Visiting(kind, data)'
    BY <2>3 DEF Visiting
  <2>5. QED
    BY <1>2, <2>2, <2>4, Zenon DEF ErrorRead, data
<1>4. InVisitor'
  <2>1. Exchange(e, d, answer)' /\ ~Read401(e, http')
    BY <1>1, <1>2, Zenon DEF Exchange
  <2>2. QED
    BY <1>2, <1>3, <2>1, Zenon DEF InVisitor
<1>5. QED
  BY <1>2, <1>4 DEF ApiInv

(* The visitor reads one key. *)
LEMMA VisitFieldKeeps ==
  ASSUME ApiInv, VisitField
  PROVE  ApiInv'
<1>0. PICK e \in Endpoint, d \in Endpoint : \E answer :
        /\ Exchange(e, d, answer) /\ e.error # "MatrixError" /\ (d = e => ~Read401(e, http))
        /\ d = e => ErrorRead(answer)
  BY Zenon DEF ApiInv, VisitField, InVisitor
<1>1. PICK answer :
        /\ Exchange(e, d, answer) /\ e.error # "MatrixError" /\ (d = e => ~Read401(e, http))
        /\ d = e => ErrorRead(answer)
  BY <1>0
<1>2. UNCHANGED <<sent, http, pc>> /\ pc = "visit_map"
  BY DEF VisitField
<1>3. d = e => ErrorRead(answer)'
  <2>. SUFFICES ASSUME d = e PROVE ErrorRead(answer)'
    OBVIOUS
  <2>1. PICK kind \in DOMAIN CodeOf, status \in Status : \E fields \in SUBSET ErrorData(kind) :
          /\ Needed(kind) \subseteq fields
          /\ answer = [kind |-> "error", error |-> kind, data |-> NamesOf(fields)]
          /\ http = ErrorResponse(kind, fields, status)
          /\ Visiting(kind, NamesOf(fields))
    BY <1>1 DEF ErrorRead
  <2>2. PICK fields \in SUBSET ErrorData(kind) :
          /\ Needed(kind) \subseteq fields
          /\ answer = [kind |-> "error", error |-> kind, data |-> NamesOf(fields)]
          /\ http = ErrorResponse(kind, fields, status)
          /\ Visiting(kind, NamesOf(fields))
    BY <2>1
  <2>. DEFINE data == NamesOf(fields)
  <2>3. KindOf(http.errcode) = kind
    <3>1. http.errcode = CodeOf[kind]
      BY <2>2 DEF ErrorResponse
    <3>2. QED
      BY <3>1, CodesRead
  <2>4. data \cap {"errcode", "error"} = {}
    <3>1. data \subseteq OwnNames(kind)
      BY DEF NamesOf, OwnNames
    <3>2. QED
      BY <3>1, ErrorNames
  <2>5. PICK key \in got.left : got' = SetField(key)
    BY DEF VisitField
  <2>. HIDE DEF data
  <2>6. Visiting(kind, data)'
    BY <2>2, <2>3, <2>4, <2>5, VisitKeeps DEF data
  <2>7. QED
    BY <1>2, <2>2, <2>6, Zenon DEF ErrorRead, data
<1>4. InVisitor'
  <2>1. Exchange(e, d, answer)' /\ (d = e => ~Read401(e, http'))
    BY <1>1, <1>2, Zenon DEF Exchange
  <2>2. QED
    BY <1>1, <1>3, <2>1, Zenon DEF InVisitor
<1>5. QED
  BY <1>2, <1>4 DEF ApiInv

(* The visitor has read every key. *)
LEMMA VisitEndKeeps ==
  ASSUME ApiInv, VisitEnd
  PROVE  ApiInv'
<1>0. PICK e \in Endpoint, d \in Endpoint : \E answer :
        /\ Exchange(e, d, answer) /\ e.error # "MatrixError" /\ (d = e => ~Read401(e, http))
        /\ d = e => ErrorRead(answer)
  BY Zenon DEF ApiInv, VisitEnd, InVisitor
<1>1. PICK answer :
        /\ Exchange(e, d, answer) /\ e.error # "MatrixError" /\ (d = e => ~Read401(e, http))
        /\ d = e => ErrorRead(answer)
  BY <1>0
<1>2. UNCHANGED <<sent, http>> /\ pc' = "end"
  BY DEF VisitEnd
<1>3. d = e => Given(e, answer, http', got')
  <2>. SUFFICES ASSUME d = e PROVE Given(e, answer, http', got')
    OBVIOUS
  <2>1. PICK kind \in DOMAIN CodeOf, status \in Status : \E fields \in SUBSET ErrorData(kind) :
          /\ Needed(kind) \subseteq fields
          /\ answer = [kind |-> "error", error |-> kind, data |-> NamesOf(fields)]
          /\ http = ErrorResponse(kind, fields, status)
          /\ Visiting(kind, NamesOf(fields))
    BY <1>1 DEF ErrorRead
  <2>2. PICK fields \in SUBSET ErrorData(kind) :
          /\ Needed(kind) \subseteq fields
          /\ answer = [kind |-> "error", error |-> kind, data |-> NamesOf(fields)]
          /\ http = ErrorResponse(kind, fields, status)
          /\ Visiting(kind, NamesOf(fields))
    BY <2>1
  <2>. DEFINE data == NamesOf(fields)
              own == IF kind = "_Custom" THEN got.stored \ Reserved ELSE NamesOf(ErrorData(kind)) \cap got.stored
  <2>3. /\ got.code = kind /\ NamesOf(Needed(kind)) \subseteq own
        /\ own = IF kind = "_Custom" THEN data \ Reserved ELSE data
    <3>1. got.left = {}
      BY DEF VisitEnd
    <3>2. QED
      BY <2>2, <3>1, VisitedFields
  <2>. HIDE DEF data
  <2>4. got' = [result |-> "error", status |-> http.status, errcode |-> CodeOf[kind], data |-> own]
    BY <2>3, Zenon DEF VisitEnd, Needed
  <2>. HIDE DEF own
  <2>5. /\ got'.result = "error" /\ got'.status = http.status /\ got'.errcode = CodeOf[kind]
        /\ got'.data = own
    BY <2>4
  <2>6. answer.kind = "error" /\ answer.error = kind /\ answer.data = data
    BY <2>2 DEF data
  <2>7. QED
    BY <1>1, <1>2, <2>3, <2>5, <2>6 DEF Given
<1>4. QED
  BY <1>1, <1>2, <1>3, ExchangeEnds

-----------------------------------------------------------------------------
(* A JSON value on its own.                                                *)
LEMMA ReadObjectKeeps ==
  ASSUME ApiInv, ReadObject
  PROVE  ApiInv'
<1>1. ObjectWritten
  BY DEF ApiInv, ReadObject, VariantWritten, NameWritten
<1>2. PICK object \in Object : \E v \in Values(object) :
        sent = [object |-> object, value |-> v] /\ http = [wire |-> Write(object, v)]
  BY <1>1 DEF ObjectWritten
<1>3. PICK v \in Values(object) : sent = [object |-> object, value |-> v] /\ http = [wire |-> Write(object, v)]
  BY <1>2
<1>4. /\ DOMAIN sent' = {"object", "value"} /\ sent.object = object /\ sent'.object = object /\ sent'.value = v
      /\ http.wire = Write(object, v) /\ pc' = "end"
  BY <1>3 DEF ReadObject
<1>5. object \notin Lossy => got'.result = "ok" /\ got'.object = object /\ got'.value = v
  <2>. SUFFICES ASSUME object \notin Lossy PROVE got'.result = "ok" /\ got'.object = object /\ got'.value = v
    OBVIOUS
  <2>1. WellFormed(object) /\ v \subseteq object
    BY ObjectTables, ValuesIn
  <2>2. Readable(object, Write(object, v)) /\ Read(object, Write(object, v)) = v
    BY <2>1, WholeRoundTrip
  <2>3. got' = [result |-> "ok", object |-> object, value |-> v]
    BY <1>4, <2>2, Zenon DEF ReadObject
  <2>4. QED
    BY <2>3
<1>6. ValuesSurvive' /\ AnswersArriveAsGiven'
  BY <1>4, <1>5 DEF ValuesSurvive, AnswersArriveAsGiven
<1>7. QED
  BY <1>4, <1>6 DEF ApiInv

(* A variant of a union is read. *)
LEMMA ReadVariantKeeps ==
  ASSUME ApiInv, ReadVariant
  PROVE  ApiInv'
<1>1. VariantWritten
  BY DEF ApiInv, ReadVariant, ObjectWritten, NameWritten
<1>2. PICK union \in Union : \E i \in DOMAIN union : \E v \in Values(union[i][2]) :
        /\ sent = [union |-> union, object |-> union[i][2], value |-> v]
        /\ http = [wire |-> Write(union[i][2], v)]
  BY <1>1 DEF VariantWritten
<1>3. PICK i \in DOMAIN union : \E v \in Values(union[i][2]) :
        /\ sent = [union |-> union, object |-> union[i][2], value |-> v]
        /\ http = [wire |-> Write(union[i][2], v)]
  BY <1>2
<1>4. PICK v \in Values(union[i][2]) :
        /\ sent = [union |-> union, object |-> union[i][2], value |-> v]
        /\ http = [wire |-> Write(union[i][2], v)]
  BY <1>3
<1>5. UNCHANGED sent /\ pc' = "end"
  BY DEF ReadVariant
<1>6. /\ DOMAIN sent' = {"union", "object", "value"} /\ sent.union = union /\ sent'.object = union[i][2]
      /\ sent'.value = v /\ http.wire = Write(union[i][2], v)
  BY <1>4, <1>5
<1>7. union[i][2] \notin Lossy => got'.result = "ok" /\ got'.object = union[i][2] /\ got'.value = v
  <2>. SUFFICES ASSUME union[i][2] \notin Lossy
                PROVE  got'.result = "ok" /\ got'.object = union[i][2] /\ got'.value = v
    OBVIOUS
  <2>. DEFINE first == FirstFit(union, http.wire)
  <2>1. first # 0 /\ union[first][2] = union[i][2] /\ Read(union[first][2], http.wire) = v
    <3>. DEFINE w == Write(union[i][2], v)
    <3>1. FirstFit(union, w) # 0 /\ union[FirstFit(union, w)][2] = union[i][2]
            /\ Read(union[FirstFit(union, w)][2], w) = v
      BY VariantRead
    <3>2. QED
      BY <1>6, <3>1, Zenon
  <2>2. got' = IF first = 0 THEN [result |-> "unreadable"]
               ELSE [result |-> "ok", object |-> union[first][2], value |-> Read(union[first][2], http.wire)]
    BY <1>6, Zenon DEF ReadVariant, FirstFit
  <2>. HIDE DEF first
  <2>3. got' = [result |-> "ok", object |-> union[i][2], value |-> v]
    BY <2>1, <2>2, Zenon
  <2>4. QED
    BY <2>3
<1>8. ValuesSurvive' /\ AnswersArriveAsGiven'
  BY <1>6, <1>7 DEF ValuesSurvive, AnswersArriveAsGiven
<1>9. QED
  BY <1>5, <1>8 DEF ApiInv

(* A name of a string enum is read. *)
LEMMA ReadNameKeeps ==
  ASSUME ApiInv, ReadName
  PROVE  ApiInv'
<1>1. NameWritten
  BY DEF ApiInv, ReadName, ObjectWritten, VariantWritten
<1>2. PICK type \in NamedType : \E variant \in DOMAIN type :
        sent = [type |-> type, value |-> variant] /\ http = [name |-> type[variant]]
  BY <1>1 DEF NameWritten
<1>3. PICK variant \in DOMAIN type : sent = [type |-> type, value |-> variant] /\ http = [name |-> type[variant]]
  BY <1>2
<1>4. /\ DOMAIN sent' = {"type", "value"} /\ sent.type = type /\ sent'.value = variant
      /\ http.name = type[variant] /\ pc' = "end"
  BY <1>3 DEF ReadName
<1>5. PICK v \in DOMAIN type : type[v] = type[variant] /\ got' = [result |-> "ok", value |-> v]
  BY <1>4 DEF ReadName
<1>6. v = variant
  BY <1>5, NameTables
<1>7. got'.result = "ok" /\ got'.value = variant
  BY <1>5, <1>6
<1>8. ValuesSurvive' /\ AnswersArriveAsGiven'
  BY <1>4, <1>7 DEF ValuesSurvive, AnswersArriveAsGiven
<1>9. QED
  BY <1>4, <1>8 DEF ApiInv

(* Every step keeps the invariant.                                         *)
LEMMA ApiSteps == ApiInv /\ [NextApi]_varsApi => ApiInv'
<1>. SUFFICES ASSUME ApiInv, [NextApi]_varsApi PROVE ApiInv'
  OBVIOUS
<1>1. ASSUME NEW e \in Endpoint, NEW v \in Values(e.request), NEW mode \in TokenMode, NEW as_user \in BOOLEAN,
             (as_user => e.api = "client") /\ Call(e, v, mode, as_user)
      PROVE  ApiInv'
  BY <1>1, CallKeeps
<1>2. ASSUME pc = "handler", NEW v \in Values(sent.server.response), AnswerOk(v) PROVE ApiInv'
  BY <1>2, AnswerOkKeeps
<1>3. ASSUME NEW kind \in DOMAIN CodeOf, NEW status \in Status, NEW data \in SUBSET ErrorData(kind),
             AnswerError(kind, data, status)
      PROVE  ApiInv'
  BY <1>3, AnswerErrorKeeps
<1>4. ASSUME NEW v \in Values(UiaaInfoFields), AnswerUiaa(v) PROVE ApiInv'
  BY <1>4, AnswerUiaaKeeps
<1>5. ASSUME NEW object \in Object, NEW v \in Values(object), WriteObject(object, v) PROVE ApiInv'
  <2>1. pc' = "json" /\ ObjectWritten'
    BY <1>5, Zenon DEF WriteObject, ObjectWritten
  <2>2. QED
    BY <2>1 DEF ApiInv
<1>6. ASSUME NEW union \in Union, NEW i \in DOMAIN union, NEW v \in Values(union[i][2]), WriteVariant(union, i, v)
      PROVE  ApiInv'
  <2>1. pc' = "json" /\ VariantWritten'
    BY <1>6, Zenon DEF WriteVariant, VariantWritten
  <2>2. QED
    BY <2>1 DEF ApiInv
<1>7. ASSUME NEW type \in NamedType, NEW variant \in DOMAIN type, WriteName(type, variant) PROVE ApiInv'
  <2>1. pc' = "json" /\ NameWritten'
    BY <1>7, Zenon DEF WriteName, NameWritten
  <2>2. QED
    BY <2>1 DEF ApiInv
<1>8. CASE Done
  BY <1>8 DEF Done, ApiInv
<1>9. CASE UNCHANGED varsApi
  <2>1. pc' = pc /\ sent' = sent /\ http' = http /\ got' = got
    BY <1>9 DEF varsApi
  <2>2. (Requested' <=> Requested) /\ (CallsArriveAsMeant' <=> CallsArriveAsMeant)
    BY <2>1, Zenon DEF Requested, CallsArriveAsMeant
  <2>3. Responded' <=> Responded
    BY <2>1, Zenon DEF Responded, Exchange
  <2>4. InVisitor' <=> InVisitor
    <3>1. \A answer : ErrorRead(answer)' <=> ErrorRead(answer)
      <4>1. \A kind, data : Visiting(kind, data)' <=> Visiting(kind, data)
        BY <2>1, Zenon DEF Visiting
      <4>2. QED
        BY <2>1, <4>1, Zenon DEF ErrorRead
    <3>2. \A e, d, answer : Exchange(e, d, answer)' <=> Exchange(e, d, answer)
      BY <2>1, Zenon DEF Exchange
    <3>3. QED
      BY <2>1, <3>1, <3>2, Zenon DEF InVisitor
  <2>5. /\ ObjectWritten' <=> ObjectWritten
        /\ VariantWritten' <=> VariantWritten
        /\ NameWritten' <=> NameWritten
    BY <2>1, Zenon DEF ObjectWritten, VariantWritten, NameWritten
  <2>6. AnswersArriveAsGiven' <=> AnswersArriveAsGiven
    BY <2>1 DEF AnswersArriveAsGiven, ReadsUiaaInfo
  <2>7. ValuesSurvive' <=> ValuesSurvive
    BY <2>1, Zenon DEF ValuesSurvive
  <2>8. QED
    BY <2>1, <2>2, <2>3, <2>4, <2>5, <2>6, <2>7, Zenon DEF ApiInv
<1>10. QED
  BY <1>1, <1>2, <1>3, <1>4, <1>5, <1>6, <1>7, <1>8, <1>9, ServeKeeps, HandleKeeps, ReceiveOkKeeps, ReceiveUiaaKeeps,
     ReceiveMatrixErrorKeeps, ReceiveErrorKeeps, VisitFieldKeeps, VisitEndKeeps, ReadObjectKeeps, ReadVariantKeeps,
     ReadNameKeeps, Zenon DEF NextApi

(* The message on the wire is always what the writing side made of its value, and what the reading
   side has made of it so far is part of that value. *)
THEOREM ApiInvariant == SpecApi => []ApiInv
<1>1. InitApi => ApiInv
  BY DEF InitApi, ApiInv
<1>2. QED
  BY <1>1, ApiSteps, PTL DEF SpecApi

(* A request arrives at its own endpoint with its value, for every set of endpoint declarations that
   keeps to the assumptions: it is refused just when a list of its query that the reader demands was
   empty, and read with what the reader adds, the default of an empty list and the asserted user ID of
   an endpoint that takes the whole query (try_into_http_request, try_from_http_request). *)
THEOREM RequestsArrive == SpecApi => []CallsArriveAsMeant
<1>1. ApiInv => CallsArriveAsMeant
  BY DEF ApiInv, CallsArriveAsMeant
<1>2. QED
  BY <1>1, ApiInvariant, PTL

(* The client gets the answer that the handler gave, in whatever order the keys of an error come
   (OutgoingResponse, IncomingResponse, ErrorKindVisitor). *)
THEOREM AnswersArrive == SpecApi => []AnswersArriveAsGiven
<1>1. ApiInv => AnswersArriveAsGiven
  BY DEF ApiInv, AnswersArriveAsGiven
<1>2. QED
  BY <1>1, ApiInvariant, PTL

(* What one side serializes, the other deserializes to the same value: objects, variants of unions
   and names, but for the types in Lossy (Serialize, Deserialize). *)
THEOREM ValuesComeBack == SpecApi => []ValuesSurvive
<1>1. ApiInv => ValuesSurvive
  BY DEF ApiInv, ValuesSurvive
<1>2. QED
  BY <1>1, ApiInvariant, PTL


=============================================================================
