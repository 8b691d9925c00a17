---------------------------- MODULE SignedEventMC ---------------------------
(***************************************************************************)
(* SignedEvent with the event types that redaction treats each in its own  *)
(* way, one it knows nothing of, and the one that verify_event excepts.    *)
(* Long contents are cut down to fields that are kept and fields that are  *)
(* not.                                                                    *)
(***************************************************************************)
EXTENDS SignedEvent, TLC

\* the restricted rule, whose list is flattened beside its name
RoomJoinRulesEventContent == Takes("required", {"join_rule", "allow"})
MCContentOf ==
  "m.room.member" :> {f \in RoomMemberEventContent : f.name \in {"membership", "displayname", JoinAuthorizedVia}}
    @@ "m.room.create" :> {f \in RoomCreateEventContent : f.name \in {"creator", "m.federate"}}
    @@ "m.room.join_rules" :> RoomJoinRulesEventContent
    @@ "m.room.power_levels" :> {f \in RoomPowerLevelsEventContent : f.name \in {"ban", "invite", "users"}}
    @@ "m.room.aliases" :> RoomAliasesEventContent
    @@ "m.room.history_visibility" :> RoomHistoryVisibilityEventContent
    @@ "m.room.redaction" :> RoomRedactionEventContent @@ "m.room.name" :> RoomNameEventContent
    @@ "m.room.third_party_invite" :> {f \in RoomThirdPartyInviteEventContent : f.name = "public_key"}
MCKnownUnreadable == {"m.room.join_rules", "m.room.redaction"}
=============================================================================
