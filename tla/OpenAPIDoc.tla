----------------------------- MODULE OpenAPIDoc -----------------------------
(***************************************************************************)
(* The JSON trees that scripts/openapi-conformance.py works on, as TLA+    *)
(* values.  A JSON object (a Python dict) is a function from its keys to   *)
(* its values, so `key in d` is `key \in DOMAIN d` and `dict(d)` is `d`.   *)
(* TLC cannot compare a string with a tuple or a record, so each key of a  *)
(* schema holds one kind of value:                                         *)
(*   "$ref"                  a reference record (RefTo)                    *)
(*   "allOf" "oneOf" "anyOf" a sequence of schemas                         *)
(*   "type"                  a type record (Ty / TyList)                   *)
(*   "properties"            a function from field names to schemas        *)
(*   "required"              a set of field names                          *)
(*   "items"                 a schema                                      *)
(*   "additionalProperties"  a schema, or JsonTrue / JsonFalse             *)
(*   "description"           a string                                      *)
(*   "enum"                  a sequence of values                          *)
(*   "_nullable"             TRUE (written by the resolver only)           *)
(***************************************************************************)
EXTENDS Naturals, Sequences, TLC

CONSTANTS JsonTrue, JsonFalse   \* the JSON booleans true / false

\* The keys a schema object may have.
SchemaKeys == {"$ref", "allOf", "oneOf", "anyOf", "type", "properties",
               "required", "items", "additionalProperties", "description",
               "enum", "_nullable"}

\* The empty JSON object {}.
EmptyDict == <<>>

\* d.get(k, default)
Get(d, k, default) == IF k \in DOMAIN d THEN d[k] ELSE default

\* d with d[k] = v
Put(d, k, v) == (k :> v) @@ d

\* `result = dict(base); for key, value in over.items(): if key != skip:
\*  result[key] = value` -- the keys of `over` except `skip` win.
OverlayExcept(base, over, skip) ==
    [k \in DOMAIN base \cup (DOMAIN over \ {skip}) |->
        IF k \in DOMAIN over /\ k # skip THEN over[k] ELSE base[k]]

\* A "type" value: a single type name, or an OpenAPI 3.1 list of names.
Ty(name) == [list |-> FALSE, names |-> <<name>>]
TyList(names) == [list |-> TRUE, names |-> names]

\* A "$ref" string.  A local reference "#/p1/p2/..." is kept as the
\* sequence of its segments after "#/"; any other reference is not local.
RefTo(parts) == [local |-> TRUE, parts |-> parts]
ExternalRef(parts) == [local |-> FALSE, parts |-> parts]
SchemaRef(name) == RefTo(<<"components", "schemas", name>>)

\* The trailing segment of a reference: ref.split("/")[-1].
RefName(ref) == ref.parts[Len(ref.parts)]

\* isinstance(x, dict) for the value of "additionalProperties".
IsDict(x) == x \notin {JsonTrue, JsonFalse}

(***************************************************************************)
(* A small constructor for object schemas, used by the MC modules.         *)
(***************************************************************************)
Leaf(t) == "type" :> Ty(t)
Obj(props, req) == ("type" :> Ty("object")) @@ ("properties" :> props)
                   @@ ("required" :> req)
=============================================================================
