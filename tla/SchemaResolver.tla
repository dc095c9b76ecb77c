---------------------------- MODULE SchemaResolver ----------------------------
(***************************************************************************)
(* The resolution algorithm of class OpenAPIResolver                       *)
(* (scripts/openapi-conformance.py), as pure operators over one document   *)
(* `doc` (self.spec).                                                      *)
(*                                                                         *)
(* Each Python call is an operator that takes the cache and the depth of   *)
(* the Python stack and returns a record [ok, val, cache]: `val` is the    *)
(* return value and `cache` the cache after the call.  ok = FALSE is the   *)
(* RecursionError Python raises once the stack is RecursionLimit frames    *)
(* deep; nothing in the script catches it.                                 *)
(***************************************************************************)
EXTENDS OpenAPIDoc

CONSTANT RecursionLimit   \* nested resolve_schema frames before RecursionError

Ok(v, c) == [ok |-> TRUE, val |-> v, cache |-> c]
Overflow(c) == [ok |-> FALSE, val |-> EmptyDict, cache |-> c]

\* `for part in parts: result = result.get(part, {})` from the root.
RECURSIVE Walk(_, _)
Walk(node, parts) ==
    IF parts = <<>> THEN node ELSE Walk(Get(node, Head(parts), EmptyDict), Tail(parts))

\* isinstance(opt, dict) and opt.get("type") == "null": the option as
\* written, before any of it is resolved.
IsNullOption(opt) == Get(opt, "type", TyList(<<>>)) = Ty("null")

\* The accumulator allOf starts from.
AllOfSeed == ("type" :> Ty("object")) @@ ("properties" :> EmptyDict)
             @@ ("required" :> {})

RECURSIVE ResolveSchema(_, _, _, _), ResolveRef(_, _, _, _), ResolveRefNode(_, _, _, _),
          ResolveAllOf(_, _, _, _, _), MergeSchemas(_, _, _, _, _),
          ResolveOneOf(_, _, _, _), ResolveLeaf(_, _, _, _), ResolveKey(_, _, _, _, _),
          ResolveEach(_, _, _, _, _)

\* resolve_ref: a cached reference is returned as it is; a reference not
\* starting with "#/" resolves to {}; otherwise the target is resolved and
\* only then registered in the cache.
ResolveRef(doc, ref, c, d) ==
    IF ref \in DOMAIN c THEN Ok(c[ref], c)
    ELSE IF ~ref.local THEN Ok(EmptyDict, c)
    ELSE LET r == ResolveSchema(doc, Walk(doc, ref.parts), c, d + 1)
         IN  IF r.ok THEN Ok(r.val, Put(r.cache, ref, r.val)) ELSE r

\* Mutant: the siblings are written into the cached target itself
\* (`resolved.update(...)` instead of `dict(resolved)`).
ResolveRefNodeInPlace(doc, s, c, d) ==
    LET r == ResolveRef(doc, s["$ref"], c, d)
        v == OverlayExcept(r.val, s, "$ref")
    IN  IF r.ok /\ s["$ref"].local THEN Ok(v, Put(r.cache, s["$ref"], v))
        ELSE IF r.ok THEN Ok(v, r.cache) ELSE r

\* The "$ref" case of resolve_schema: a copy of the resolved target with
\* the node's other keys laid over it.
ResolveRefNode(doc, s, c, d) ==
    LET r == ResolveRef(doc, s["$ref"], c, d)
    IN  IF r.ok THEN Ok(OverlayExcept(r.val, s, "$ref"), r.cache) ELSE r

\* _merge_schemas(target, source): the source's properties are resolved
\* again and laid over the target's, the required sets are united, and
\* "type" and "description" are copied forward.
MergeSchemas(doc, target, source, c, d) ==
    LET hasProps == "properties" \in DOMAIN source
        p == IF hasProps
             THEN ResolveSchema(doc, "properties" :> source["properties"], c, d + 1)
             ELSE Ok(EmptyDict, c)
        t1 == IF hasProps
              THEN Put(target, "properties",
                       Get(p.val, "properties", EmptyDict)
                         @@ Get(target, "properties", EmptyDict))
              ELSE target
        t2 == IF "required" \in DOMAIN source
              THEN Put(t1, "required", Get(t1, "required", {}) \cup source["required"])
              ELSE t1
        copied == DOMAIN source \cap {"type", "description"}
    IN  IF ~p.ok THEN p
        ELSE Ok([k \in DOMAIN t2 \cup copied |->
                    IF k \in copied THEN source[k] ELSE t2[k]], p.cache)

\* The "allOf" loop: resolve each sub-schema in order and merge it in.
ResolveAllOf(doc, subs, merged, c, d) ==
    IF subs = <<>> THEN Ok(merged, c)
    ELSE LET r == ResolveSchema(doc, Head(subs), c, d + 1)
             m == MergeSchemas(doc, merged, r.val, r.cache, d)
         IN  IF ~r.ok THEN r
             ELSE IF ~m.ok THEN m
             ELSE ResolveAllOf(doc, Tail(subs), m.val, m.cache, d)

\* Mutant: the flag is written under the key "nullable".
ResolveOneOfNullableKey(doc, s, c, d) ==
    LET options == IF Get(s, "oneOf", <<>>) # <<>> THEN s["oneOf"]
                   ELSE Get(s, "anyOf", <<>>)
        nonNull == SelectSeq(options, LAMBDA o : ~IsNullOption(o))
        r == ResolveSchema(doc, nonNull[1], c, d + 1)
    IN  IF nonNull = <<>>
        THEN Ok(("type" :> Ty("null")) @@ ("nullable" :> TRUE), c)
        ELSE IF r.ok THEN Ok(Put(r.val, "nullable", TRUE), r.cache) ELSE r

\* The "oneOf"/"anyOf" case: the first option not written as a null type
\* is resolved and marked _nullable; the node's other keys are dropped.
ResolveOneOf(doc, s, c, d) ==
    LET options == IF Get(s, "oneOf", <<>>) # <<>> THEN s["oneOf"]
                   ELSE Get(s, "anyOf", <<>>)
        nonNull == SelectSeq(options, LAMBDA o : ~IsNullOption(o))
        r == ResolveSchema(doc, nonNull[1], c, d + 1)
    IN  IF nonNull = <<>>
        THEN Ok(("type" :> Ty("null")) @@ ("_nullable" :> TRUE), c)
        ELSE IF r.ok THEN Ok(Put(r.val, "_nullable", TRUE), r.cache) ELSE r

\* {key: resolve_schema(value) for key, value in m.items()} over `keys`.
ResolveEach(doc, keys, m, c, d) ==
    IF keys = {} THEN Ok(EmptyDict, c)
    ELSE LET k == CHOOSE x \in keys : TRUE
             r == ResolveSchema(doc, m[k], c, d + 1)
             rest == ResolveEach(doc, keys \ {k}, m, r.cache, d)
         IN  IF ~r.ok THEN r
             ELSE IF ~rest.ok THEN rest
             ELSE Ok((k :> r.val) @@ rest.val, rest.cache)

\* Resolve s[k] in place when it is present and is an object.
ResolveKey(doc, s, k, c, d) ==
    IF k \in DOMAIN s /\ IsDict(s[k])
    THEN LET r == ResolveSchema(doc, s[k], c, d + 1)
         IN  IF r.ok THEN Ok(Put(s, k, r.val), r.cache) ELSE r
    ELSE Ok(s, c)

\* The last case: a copy with properties, items and additionalProperties
\* resolved.
ResolveLeaf(doc, s, c, d) ==
    LET e == ResolveEach(doc, DOMAIN Get(s, "properties", EmptyDict),
                         Get(s, "properties", EmptyDict), c, d)
        r1 == IF "properties" \in DOMAIN s
              THEN IF e.ok THEN Ok(Put(s, "properties", e.val), e.cache) ELSE e
              ELSE Ok(s, c)
        r2 == IF r1.ok THEN ResolveKey(doc, r1.val, "items", r1.cache, d) ELSE r1
    IN  IF r2.ok THEN ResolveKey(doc, r2.val, "additionalProperties", r2.cache, d)
        ELSE r2

\* resolve_schema: $ref first, then allOf, then oneOf/anyOf, else a leaf.
ResolveSchema(doc, s, c, d) ==
    IF d > RecursionLimit THEN Overflow(c)
    ELSE IF "$ref" \in DOMAIN s THEN ResolveRefNode(doc, s, c, d)
    ELSE IF "allOf" \in DOMAIN s
         THEN LET r == ResolveAllOf(doc, s["allOf"], AllOfSeed, c, d)
              IN  IF r.ok THEN Ok(OverlayExcept(r.val, s, "allOf"), r.cache) ELSE r
    ELSE IF "oneOf" \in DOMAIN s \/ "anyOf" \in DOMAIN s THEN ResolveOneOf(doc, s, c, d)
    ELSE ResolveLeaf(doc, s, c, d)

=============================================================================
