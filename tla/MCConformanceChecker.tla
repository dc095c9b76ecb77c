------------------------- MODULE MCConformanceChecker -------------------------
(***************************************************************************)
(* Small documents for ConformanceChecker.  One OpenAI document with four  *)
(* paths; Hadrian documents that vary one thing at a time:                 *)
(*   - the chat request schema: a documented missing field, an             *)
(*     undocumented one, a nested one, and three kinds of extension field; *)
(*   - the chat 200 response present or absent;                            *)
(*   - the widgets endpoint absent, or present with or without its query   *)
(*     parameter and with either request schema;                           *)
(*   - endpoints only Hadrian has, inside and outside /api/v1/ and admin.  *)
(* Both documents name their components alike (ChatReq, ChatResp, WReq),   *)
(* as the real documents do, so a resolver cache shared between them      *)
(* would show.                                                             *)
(***************************************************************************)
EXTENDS ConformanceChecker

Str == Leaf("string")
IntS == Leaf("integer")
Null == Leaf("null")
R(n) == "$ref" :> SchemaRef(n)
Marker == "**Hadrian Extension:** adds x"
Marked(s) == Put(s, "description", Marker)
Body(s) == "content" :> ("application/json" :> ("schema" :> s))
Op(req, resp) ==
    IF resp = EmptyDict THEN "requestBody" :> Body(req)
    ELSE ("requestBody" :> Body(req)) @@ ("responses" :> ("200" :> Body(resp)))
QueryParam(n) == ("in" :> "query") @@ ("name" :> n)
WithParams(op, ps) == Put(op, "parameters", ps)

CC == <<"chat", "completions">>
W == <<"widgets">>
U == <<"users">>
UX == <<"usersettings">>

\* "/usersettings".startswith("/users")
MCLonger == {<<"usersettings", "users">>}

\* --endpoint absent, or --endpoint chat (which "/widgets" does not contain).
MCFilters == {{}, {W}}

\* The entries of DOCUMENTED_MISSING_FIELDS for the paths above.
MCDocumentedMissing == {<<CC, "POST", "request", "n">>}

MCMarked == {Marker}

ChatReq == Obj(("model" :> Str) @@ ("n" :> IntS) @@ ("meta" :> Obj("tag" :> Str, {})),
               {"model", "n"})
ChatResp == Obj("id" :> Str, {"id"})
WReq == Obj("name" :> Str, {"name"})

OpenAIDoc ==
    ("paths" :>
        ((CC :> (("post" :> Op(R("ChatReq"), R("ChatResp"))) @@ ("get" :> EmptyDict)))
         @@ (W :> ("post" :> WithParams(Op(R("WReq"), EmptyDict), <<QueryParam("limit")>>)))
         @@ (U :> ("get" :> EmptyDict))
         @@ (UX :> ("get" :> EmptyDict))))
    @@ ("components" :> ("schemas" :>
            [ChatReq |-> ChatReq, ChatResp |-> ChatResp, WReq |-> WReq]))

\* Hadrian's ChatReq: "n" (documented) missing, plus one variant each.
HChatBase == ("model" :> Str) @@ ("meta" :> Obj("tag" :> Str, {}))
HChatReqs ==
    { Obj(HChatBase, {"model"}),
      Obj("model" :> Str, {"model"}),                                  \* meta missing
      Obj(("model" :> Str) @@ ("meta" :> Obj(EmptyDict, {})), {"model"}), \* meta.tag missing
      Obj(("x" :> Marked(Str)) @@ HChatBase, {"model"}),
      Obj(("x" :> Str) @@ HChatBase, {"model"}),
      Obj(("x" :> Marked("oneOf" :> <<Null, Str>>)) @@ HChatBase, {"model"}) }

HWReqs == {WReq, Obj("name" :> IntS, {"name"})}

\* The widgets path: absent, or present with or without "limit".
HWidgets == {EmptyDict} \cup
    {<<"api", "v1", "widgets">> :> ("post" :> WithParams(Op(R("WReq"), EmptyDict), ps)) :
        ps \in {<<>>, <<QueryParam("limit")>>}}

\* Paths only Hadrian has.
HExtras == {EmptyDict,
            (<<"api", "v1", "extras">> :> ("get" :> EmptyDict))
            @@ (<<"health">> :> ("get" :> EmptyDict))
            @@ (<<"admin", "users">> :> ("get" :> EmptyDict))}

HadrianDoc(chatReq, withResp, widgets, extras, wreq) ==
    ("paths" :>
        ((<<"api", "v1", "chat", "completions">> :>
            ("post" :> Op(R("ChatReq"), IF withResp THEN R("ChatResp") ELSE EmptyDict)))
         @@ widgets @@ extras))
    @@ ("components" :> ("schemas" :>
            [ChatReq |-> chatReq, ChatResp |-> ChatResp, WReq |-> wreq]))

MCDocuments ==
    {<<OpenAIDoc, HadrianDoc(c, b, w, e, wr)>> :
        c \in HChatReqs, b \in BOOLEAN, w \in HWidgets, e \in HExtras, wr \in HWReqs}
=============================================================================
