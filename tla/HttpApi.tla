------------------------------- MODULE HttpApi ------------------------------
(***************************************************************************)
(* One use of an endpoint, from the client's typed request to the client's *)
(* typed result: the code that ruma_api! generates for both sides          *)
(* (ruma-api-macros), the error types of ruma-api and ruma-client-api, and *)
(* the router of the server, which is not ruma's.  Beside it, a single     *)
(* JSON value that one side writes and the other reads.                    *)
(*                                                                         *)
(* Values are sets of filled fields (module Wire).  The segment of a path  *)
(* that holds a parameter's value is written as the parameter's name: the  *)
(* value is taken to differ from every literal segment.                    *)
(***************************************************************************)
EXTENDS Wire, Integers, FiniteSets, Sequences, SequencesExt

CONSTANTS
  Endpoint,   \* the ruma_api! blocks
  Object,     \* the JSON objects, each the set of its fields
  Union,      \* the enums of objects: sequences of <<chosen by, object>> (module Unions)
  NamedType,  \* the string enums: variant |-> name on the wire
  CodeOf,     \* the errcode that each ErrorKind is written with
  KnownCode,  \* the errcode that each ErrCode is read from
  Ambiguous,  \* the endpoints that share their method and path with another
  Lossy       \* the objects that do not come back in every case

VARIABLES
  pc,     \* where the value is
  sent,   \* what the writing side holds: its endpoint or type, and the value
  http,   \* the message on the wire
  got     \* what the reading side made of it

varsApi == <<pc, sent, http, got>>

Nothing == [result |-> "none"]
InitApi == pc = "idle" /\ sent = Nothing /\ http = Nothing /\ got = Nothing

-----------------------------------------------------------------------------
(***************************************************************************)
(* OutgoingRequest::try_into_http_request                                  *)
(***************************************************************************)
Params(e) == {f.name : f \in {g \in e.request : g.at = "path"}}

\* send_state_event and get_state_events_for_key leave out an empty last segment
OptionalTail(e) == \E f \in e.request : Place(f) = <<"path", Last(e.path)>> /\ f.kind = "defaulted"
PathOf(e, value) ==
  IF OptionalTail(e) /\ \A f \in value : Place(f) # <<"path", Last(e.path)>>
  THEN Front(e.path) ELSE e.path

ContentType == <<"header", "CONTENT_TYPE">>
HasBody(F) == \E f \in F : f.at \in {"body", "newtype_body", "raw_body"}
\* application/json is inserted first and a content type of the value's own replaces it
WithContentType(wire) == [p \in DOMAIN wire \cup {ContentType} |-> p = ContentType \/ wire[p]]

\* SendAccessToken::get_required_for_endpoint, get_not_required_for_endpoint
TokenMode == {"IfRequired", "Always", "None"}
Bearer(e, mode) ==
  \/ e.auth = "AccessToken" /\ mode # "None"
  \/ e.auth = "None" /\ mode = "Always"

HttpRequest(e, value, mode, as_user) ==
  LET wire == Write({f \in e.request : f.at # "path"}, value)
  IN  [api |-> e.api, method |-> e.method, path |-> PathOf(e, value),
       wire |-> IF HasBody(e.request) THEN WithContentType(wire) ELSE wire,
       bearer |-> Bearer(e, mode), user_id |-> as_user]

\* a header's value, like an access token, may hold characters that no header can carry
BadHeader(F, value) == \E f \in F \cap value : f.at = "header"

Call(e, value, mode, as_user) ==
  /\ pc = "idle"
  /\ sent' = [ep |-> e, value |-> value]
  /\ \/ /\ e.auth = "AccessToken" => mode # "None"
        /\ http' = HttpRequest(e, value, mode, as_user)
        /\ pc' = "request"
        /\ UNCHANGED got
     \/ /\ e.auth = "AccessToken" /\ mode = "None"
        /\ got' = [result |-> "NeedsAuthentication"]
        /\ pc' = "end"
        /\ UNCHANGED http
     \/ /\ BadHeader(e.request, value) \/ Bearer(e, mode)
        /\ got' = [result |-> "Header"]
        /\ pc' = "end"
        /\ UNCHANGED http

-----------------------------------------------------------------------------
(***************************************************************************)
(* The server: a router that knows the methods and paths of METADATA, and  *)
(* IncomingRequest::try_from_http_request of the endpoint it picks.        *)
(***************************************************************************)
Pattern(e, path) == IF OptionalTail(e) /\ Len(path) < Len(e.path) THEN Front(e.path) ELSE e.path
Literals(e, path) == {i \in DOMAIN path : Pattern(e, path)[i] \notin Params(e)}
Matches(e, req) ==
  /\ e.api = req.api /\ e.method = req.method
  /\ Len(Pattern(e, req.path)) = Len(req.path)
  /\ \A i \in Literals(e, req.path) : e.path[i] = req.path[i]

\* of the endpoints that match, one with the most literal segments
Routed(req) ==
  LET candidates == {e \in Endpoint : Matches(e, req)}
  IN  {e \in candidates : \A d \in candidates :
         Cardinality(Literals(d, req.path)) <= Cardinality(Literals(e, req.path))}

\* a user_id parameter of the endpoint's own beside the asserted one is a duplicate
Acceptable(e, req) ==
  /\ e.method = req.method
  /\ Readable({f \in e.request : f.at # "path"}, req.wire)
  /\ req.user_id => \A f \in e.request : Place(f) # <<"query", "user_id">>

\* the asserted user ID is one more pair of the query, and a query_map takes every pair for its own
AssertedPair(e, as_user) ==
  {f \in In("query_map", "optional", {"user_id"}) : as_user /\ \E g \in e.request : g.at = "query_map"}

IncomingRequestShifted(e, req) ==
  Read({f \in e.request : f.at # "path"}, req.wire)
    \cup {f \in e.request : f.at = "path" /\ \E i \in DOMAIN req.path : i > 1 /\ e.path[i - 1] = f.name}
    \cup AssertedPair(e, req.user_id)
IncomingRequest(e, req) ==
  Read({f \in e.request : f.at # "path"}, req.wire)
    \cup {f \in e.request : f.at = "path" /\ \E i \in DOMAIN req.path : e.path[i] = f.name}
    \cup AssertedPair(e, req.user_id)

Serve ==
  /\ pc = "request"
  /\ \E e \in Routed(http) :
       \/ /\ Acceptable(e, http)
          /\ got' = [result |-> "accepted", ep |-> e, value |-> IncomingRequest(e, http)]
       \/ /\ ~Acceptable(e, http)
          /\ got' = [result |-> "refused", ep |-> e]
  /\ pc' = "served"
  /\ UNCHANGED <<sent, http>>

-----------------------------------------------------------------------------
(***************************************************************************)
(* The server's handler takes the request, and its answer goes back        *)
(* (OutgoingResponse).  From here on `sent' is the endpoint of each side   *)
(* and the answer.                                                         *)
(***************************************************************************)
Handle ==
  /\ pc = "served" /\ got.result = "accepted"
  /\ sent' = [ep |-> sent.ep, server |-> got.ep]
  /\ http' = Nothing /\ got' = Nothing
  /\ pc' = "handler"

Answered(answer) ==
  /\ pc = "handler"
  /\ sent' = [ep |-> sent.ep, server |-> sent.server, answer |-> answer]

AnswerOk(value) ==
  /\ Answered([kind |-> "ok", value |-> value])
  /\ \/ /\ http' = [status |-> 200, wire |-> WithContentType(Write(sent.server.response, value))]
        /\ pc' = "response"
        /\ UNCHANGED got
     \/ /\ BadHeader(sent.server.response, value)
        /\ got' = [result |-> "Header"]
        /\ pc' = "end"
        /\ UNCHANGED http

\* what each ErrorKind carries; _Custom keeps fields of any name
Reserved == {"soft_logout", "retry_after_ms", "room_version", "admin_contact"}
ErrorData(kind) ==
  CASE kind = "UnknownToken"            -> Has("defaulted", {"soft_logout"})
    [] kind = "LimitExceeded"           -> Has("optional", {"retry_after_ms"})
    [] kind = "IncompatibleRoomVersion" -> Has("required", {"room_version"})
    [] kind = "ResourceLimitExceeded"   -> Has("required", {"admin_contact"})
    [] kind = "_Custom"                 -> Has("optional", {"reason", "retry_after_ms"})
    [] OTHER                            -> {}
NamesOf(F) == {f.name : f \in F}

Status == {401, 403}
ErrorResponse(kind, data, status) ==
  [status |-> status, errcode |-> CodeOf[kind],
   keys |-> {"errcode", "error"} \cup NamesOf(data)]

\* Error, or MatrixError whose JSON body the server puts together in the same form
AnswerError(kind, data, status) ==
  /\ {f \in ErrorData(kind) : f.kind = "required"} \subseteq data
  /\ Answered([kind |-> "error", error |-> kind, data |-> NamesOf(data)])
  /\ http' = ErrorResponse(kind, data, status)
  /\ pc' = "response"
  /\ UNCHANGED got

UiaaInfoFields == Arg("body", "required", {"flows", "params"}) \cup In("body", "defaulted", {"completed"})
                  \cup In("body", "optional", {"session", "auth_error"})
AnswerUiaa(value) ==
  /\ sent.server.error = "UiaaResponse"
  /\ Answered([kind |-> "uiaa", value |-> value])
  /\ http' = [status |-> 401, wire |-> Write(UiaaInfoFields, value)]
  /\ pc' = "response"
  /\ UNCHANGED got

-----------------------------------------------------------------------------
(***************************************************************************)
(* IncomingResponse::try_from_http_response and the EndpointErrors.        *)
(***************************************************************************)
ReceiveOk ==
  /\ pc = "response" /\ http.status < 400
  /\ got' = IF Readable(sent.ep.response, http.wire)
            THEN [result |-> "ok", value |-> Read(sent.ep.response, http.wire)]
            ELSE [result |-> "unreadable"]
  /\ pc' = "end"
  /\ UNCHANGED <<sent, http>>

IsErrorBody == "keys" \in DOMAIN http
\* UiaaResponse takes every 401 for a UiaaInfo
ReadsUiaaInfo == sent.ep.error = "UiaaResponse" /\ http.status = 401

ReceiveUiaa ==
  /\ pc = "response" /\ http.status >= 400 /\ ReadsUiaaInfo
  /\ got' = IF ~IsErrorBody /\ Readable(UiaaInfoFields, http.wire)
            THEN [result |-> "uiaa", value |-> Read(UiaaInfoFields, http.wire)]
            ELSE [result |-> "unknown"]
  /\ pc' = "end"
  /\ UNCHANGED <<sent, http>>

\* MatrixError keeps the body as it is
ReceiveMatrixError ==
  /\ pc = "response" /\ http.status >= 400 /\ ~ReadsUiaaInfo /\ sent.ep.error = "MatrixError"
  /\ got' = [result |-> "error", status |-> http.status, errcode |-> http.errcode,
             data |-> http.keys \ {"errcode", "error"}]
  /\ pc' = "end"
  /\ UNCHANGED <<sent, http>>

(***************************************************************************)
(* ErrorKindVisitor::visit_map: the keys come in any order, the code may   *)
(* come after the fields it decides about.                                 *)
(***************************************************************************)
ReceiveError ==
  /\ pc = "response" /\ http.status >= 400 /\ ~ReadsUiaaInfo /\ sent.ep.error # "MatrixError"
  /\ got' = [result |-> "reading", left |-> http.keys, code |-> "", stored |-> {}]
  /\ pc' = "visit_map"
  /\ UNCHANGED <<sent, http>>

VariantContaining == [soft_logout |-> "UnknownToken", retry_after_ms |-> "LimitExceeded",
                      room_version |-> "IncompatibleRoomVersion", admin_contact |-> "ResourceLimitExceeded"]
\* From<&str> for ErrCode
KindOf(errcode) ==
  LET known == {k \in DOMAIN KnownCode \ {"_Custom"} : KnownCode[k] = errcode}
  IN  IF known = {} THEN "_Custom" ELSE CHOOSE k \in known : TRUE

SetFieldAfterCode(key) ==
  [got EXCEPT !.left = @ \ {key},
              !.code = IF key = "errcode" THEN KindOf(http.errcode) ELSE @,
              !.stored = IF \/ key \in {"errcode", "error"}
                            \/ key \in Reserved /\ got.code # VariantContaining[key]
                         THEN @ ELSE @ \cup {key}]
SetField(key) ==
  [got EXCEPT !.left = @ \ {key},
              !.code = IF key = "errcode" THEN KindOf(http.errcode) ELSE @,
              !.stored = IF \/ key \in {"errcode", "error"}
                            \/ key \in Reserved /\ got.code \notin {"", VariantContaining[key]}
                         THEN @ ELSE @ \cup {key}]
VisitField ==
  /\ pc = "visit_map"
  /\ \E key \in got.left : got' = SetField(key)
  /\ UNCHANGED <<pc, sent, http>>

\* a variant takes its own fields from what is stored, _Custom what was not a known field
VisitEnd ==
  /\ pc = "visit_map" /\ got.left = {}
  /\ LET kind == got.code
         own  == IF kind = "_Custom" THEN got.stored \ Reserved ELSE NamesOf(ErrorData(kind)) \cap got.stored
     IN  got' = IF NamesOf({f \in ErrorData(kind) : f.kind = "required"}) \subseteq own
                THEN [result |-> "error", status |-> http.status, errcode |-> CodeOf[kind], data |-> own]
                ELSE [result |-> "unknown"]
  /\ pc' = "end"
  /\ UNCHANGED <<sent, http>>

-----------------------------------------------------------------------------
(***************************************************************************)
(* A JSON value on its own: an object, a variant of a tagged union, a name *)
(* of a string enum; Serialize, then Deserialize.                          *)
(***************************************************************************)
WriteObject(object, value) ==
  /\ pc = "idle"
  /\ sent' = [object |-> object, value |-> value]
  /\ http' = [wire |-> Write(object, value)]
  /\ pc' = "json"
  /\ UNCHANGED got
ReadObject ==
  /\ pc = "json" /\ "object" \in DOMAIN sent /\ "union" \notin DOMAIN sent
  /\ got' = IF Readable(sent.object, http.wire)
            THEN [result |-> "ok", object |-> sent.object, value |-> Read(sent.object, http.wire)]
            ELSE [result |-> "unreadable"]
  /\ pc' = "end"
  /\ UNCHANGED <<sent, http>>

\* the reader of a tagged union looks for the tag first
Fits(variant, wire) ==
  /\ variant[1] # "" => <<"body", variant[1]>> \in DOMAIN wire
  /\ Readable(variant[2], wire)
WriteVariant(union, i, value) ==
  /\ pc = "idle"
  /\ sent' = [union |-> union, object |-> union[i][2], value |-> value]
  /\ http' = [wire |-> Write(union[i][2], value)]
  /\ pc' = "json"
  /\ UNCHANGED got
ReadVariantLast ==
  /\ pc = "json" /\ "union" \in DOMAIN sent
  /\ LET last == SelectLastInSeq(sent.union, LAMBDA v : Fits(v, http.wire))
     IN  got' = IF last = 0 THEN [result |-> "unreadable"]
                ELSE [result |-> "ok", object |-> sent.union[last][2],
                      value |-> Read(sent.union[last][2], http.wire)]
  /\ pc' = "end"
  /\ UNCHANGED <<sent, http>>
ReadVariant ==
  /\ pc = "json" /\ "union" \in DOMAIN sent
  /\ LET first == SelectInSeq(sent.union, LAMBDA v : Fits(v, http.wire))
     IN  got' = IF first = 0 THEN [result |-> "unreadable"]
                ELSE [result |-> "ok", object |-> sent.union[first][2],
                      value |-> Read(sent.union[first][2], http.wire)]
  /\ pc' = "end"
  /\ UNCHANGED <<sent, http>>

\* StringEnum: AsRef<str>, then From<&str>
WriteName(type, variant) ==
  /\ pc = "idle"
  /\ sent' = [type |-> type, value |-> variant]
  /\ http' = [name |-> type[variant]]
  /\ pc' = "json"
  /\ UNCHANGED got
ReadName ==
  /\ pc = "json" /\ "type" \in DOMAIN sent
  /\ \E v \in {u \in DOMAIN sent.type : sent.type[u] = http.name} :
       got' = [result |-> "ok", value |-> v]
  /\ pc' = "end"
  /\ UNCHANGED <<sent, http>>

-----------------------------------------------------------------------------
\* the next use starts afresh: the conversions keep nothing
Done ==
  /\ \/ pc = "end"
     \/ pc = "served" /\ got.result = "refused"
  /\ pc' = "idle" /\ sent' = Nothing /\ http' = Nothing /\ got' = Nothing

NextApi ==
  \/ \E e \in Endpoint : \E value \in Values(e.request), mode \in TokenMode, as_user \in BOOLEAN :
       (as_user => e.api = "client") /\ Call(e, value, mode, as_user)
  \/ Serve
  \/ Handle
  \/ pc = "handler"
       /\ \/ \E value \in Values(sent.server.response) : AnswerOk(value)
          \/ \E kind \in DOMAIN CodeOf, status \in Status : \E data \in SUBSET ErrorData(kind) :
               AnswerError(kind, data, status)
          \/ \E value \in Values(UiaaInfoFields) : AnswerUiaa(value)
  \/ ReceiveOk \/ ReceiveUiaa \/ ReceiveMatrixError
  \/ ReceiveError \/ VisitField \/ VisitEnd
  \/ \E object \in Object : \E value \in Values(object) : WriteObject(object, value)
  \/ ReadObject
  \/ \E union \in Union : \E i \in DOMAIN union : \E value \in Values(union[i][2]) : WriteVariant(union, i, value)
  \/ ReadVariant
  \/ \E type \in NamedType : \E variant \in DOMAIN type : WriteName(type, variant)
  \/ ReadName
  \/ Done

SpecApi == InitApi /\ [][NextApi]_varsApi

-----------------------------------------------------------------------------
(***************************************************************************)
(* What the declarations have to keep to.  TLC evaluates these on the      *)
(* tables of all endpoints and types.                                      *)
(***************************************************************************)

OwnPlaces(F) == \A f, g \in F : Place(f) = Place(g) => f = g

\* no two fields in one place, and none that is skipped though its reader demands or replaces it
WellFormed(F) == OwnPlaces(F) /\ \A f \in F : f.kind \notin {"fragile", "refilled"}

\* A parameter of the path has a segment, and one that may be empty has the last one.  Only lists in a
\* query are skipped though their reader demands or replaces them.  The query parameter user_id of the
\* client API is free for the asserted user ID.
ASSUME RequestTables ==
  \A e \in Endpoint \ Ambiguous :
    /\ OwnPlaces(e.request)
    /\ \A f \in e.request : f.kind \in {"fragile", "refilled"} => f.at = "query"
    /\ (\E f \in e.request : Place(f) = ContentType) => HasBody(e.request)
    /\ e.api = "client" => \A f \in e.request : Place(f) # <<"query", "user_id">>
    /\ \A f \in e.request : f.at = "path" =>
         \/ f.kind = "required" /\ \E i \in DOMAIN e.path : e.path[i] = f.name
         \/ f.kind = "defaulted" /\ {i \in DOMAIN e.path : e.path[i] = f.name} = {Len(e.path)}

\* the paths a request of e may have
PathsOf(e) == {e.path} \cup (IF OptionalTail(e) THEN {Front(e.path)} ELSE {})

\* another endpoint that a path of e matches has fewer literal segments
ASSUME Routes ==
  /\ \A e \in Endpoint : e.path \in Seq(STRING) /\ e.path # <<>>
  /\ \A e \in Endpoint \ Ambiguous : \A d \in Endpoint \ {e} : \A path \in PathsOf(e) :
       Matches(d, [api |-> e.api, method |-> e.method, path |-> path]) =>
         Cardinality(Literals(d, path)) < Cardinality(Literals(e, path))

ASSUME ResponseTables == \A e \in Endpoint : WellFormed(e.response)

ASSUME ObjectTables == \A object \in Object \ Lossy : WellFormed(object)

\* nothing written with the fields F has all that the reader of the variant asks for
Apart(variant, F) ==
  \/ variant[1] # "" /\ \A f \in F : Place(f) # <<"body", variant[1]>>
  \/ \E g \in variant[2] : g.kind = "required" /\ \A f \in F : Place(f) # Place(g)

\* a variant writes its tag, and the variants that are tried before it do not take what it writes
ASSUME UnionTables ==
  \A union \in Union :
    /\ DOMAIN union = 1 .. Len(union) /\ Len(union) \in Nat
    /\ \A i \in DOMAIN union : union[i][2] \notin Lossy =>
         /\ WellFormed(union[i][2])
         /\ union[i][1] # "" => \E f \in union[i][2] : Place(f) = <<"body", union[i][1]>> /\ f.kind \notin Skippable
         /\ \A j \in 1 .. i - 1 : union[j][2] = union[i][2] \/ Apart(union[j], union[i][2])

ASSUME NameTables == \A type \in NamedType : \A u, v \in DOMAIN type : type[u] = type[v] => u = v

\* every kind of error is written with the code that it is read from
ASSUME CodeTables ==
  LET known == DOMAIN KnownCode \ {"_Custom"}
  IN  /\ \A j, k \in known : KnownCode[j] = KnownCode[k] => j = k
      /\ \A k \in DOMAIN CodeOf \ {"_Custom"} : k \in known /\ CodeOf[k] = KnownCode[k]
      /\ "_Custom" \in DOMAIN CodeOf => \A j \in known : KnownCode[j] # CodeOf["_Custom"]

-----------------------------------------------------------------------------
(***************************************************************************)
(* Properties                                                              *)
(***************************************************************************)

\* an absent content type is read as the application/json that was put in its place
AsRead(F, value) == value \cup {f \in F : Place(f) = ContentType} \cup Refilled(F)

\* A request of an endpoint that is not known to share its route arrives there, is accepted, and holds what the
\* client put into it, whatever fields were left out, whether or not the last path segment was, with
\* or without an access token and an asserted user ID (try_into_http_request, try_from_http_request).
\* Three exceptions the code makes: a list in a query that its reader demands is not there when it is
\* empty, and the request is refused; one with a default of its own is read as that default instead; and
\* the asserted user ID is read into the map of an endpoint that takes the whole query.
CallsArriveAsMeant ==
  pc = "served" =>
    \/ sent.ep \in Ambiguous
    \/ /\ got.ep = sent.ep
       /\ IF Missing(sent.ep.request, sent.value) # {}
          THEN got.result = "refused"
          ELSE /\ got.result = "accepted"
               /\ got.value = AsRead(sent.ep.request, sent.value) \cup AssertedPair(sent.ep, http.user_id)

\* Whatever the handler answers, the client gets that answer: the response with its fields, the
\* authentication information, or the error with its code, status and data in whatever order its keys
\* come.  Two exceptions the code makes: a 401 that is not a UiaaInfo is unknown to an endpoint with
\* user-interactive authentication, and a custom error loses fields with a name that is ErrorKind's.
AnswersArriveAsGiven ==
  pc = "end" /\ "answer" \in DOMAIN sent /\ sent.server = sent.ep /\ got.result # "Header" =>
    LET answer == sent.answer
    IN  CASE answer.kind = "ok"   -> got.result = "ok" /\ got.value = AsRead(sent.ep.response, answer.value)
          [] answer.kind = "uiaa" -> got.result = "uiaa" /\ got.value = answer.value
          [] answer.kind = "error" ->
               \/ got.result = "unknown" /\ ReadsUiaaInfo
               \/ /\ got.result = "error" /\ got.status = http.status /\ got.errcode = CodeOf[answer.error]
                  /\ got.data = IF answer.error = "_Custom" /\ sent.ep.error # "MatrixError"
                                THEN answer.data \ Reserved ELSE answer.data

\* A value that one side serializes, the other deserializes to the same value: every struct, with any
\* of its fields at their defaults, every variant of a union, every name of a string enum.  Not so the
\* types in Lossy, which skip a field that their reader demands or write a tag that it does not know.
ValuesSurvive ==
  pc = "end" /\ "value" \in DOMAIN sent /\ "ep" \notin DOMAIN sent =>
    \/ got.result = "ok" /\ got.value = sent.value
         /\ ("object" \in DOMAIN sent => got.object = sent.object)
    \/ "object" \in DOMAIN sent /\ sent.object \in Lossy
=============================================================================
