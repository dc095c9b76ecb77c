-------------------------- MODULE ConformanceCompare --------------------------
(***************************************************************************)
(* The comparison half of ConformanceChecker (scripts/openapi-conformance  *)
(* .py): type strings, type compatibility, the recursive comparison of two *)
(* resolved schemas, the query-parameter comparison, and the policy that   *)
(* turns differences into CI violations.  All of it is pure.               *)
(*                                                                         *)
(* A SchemaDiff is [ctx, field, kind]: ctx is the comparison context       *)
(* f"{path} request.a.b" kept as the sequence <<"request", "a", "b">>.     *)
(* The type strings and messages a diff carries are display only and left *)
(* out.  Diffs and violations are sets: two equal violations (the same     *)
(* field name missing at two depths) are one element here.                *)
(***************************************************************************)
EXTENDS OpenAPIDoc

CONSTANTS
    DocumentedMissing,    \* keys <<path, method, location, field>> of DOCUMENTED_MISSING_FIELDS
    MarkedDescriptions    \* the descriptions that contain EXTENSION_MARKER

RECURSIVE JoinTypes(_)
JoinTypes(ts) ==
    IF ts = <<>> THEN ""
    ELSE IF Len(ts) = 1 THEN Head(ts)
    ELSE Head(ts) \o "|" \o JoinTypes(Tail(ts))

\* schema.get("type"), with an OpenAPI 3.1 list reduced to its non-null
\* names joined by "|"; "" stands for a missing or empty type.
DeclaredType(s) ==
    IF "type" \notin DOMAIN s THEN ""
    ELSE IF ~s["type"].list THEN s["type"].names[1]
    ELSE JoinTypes(SelectSeq(s["type"].names, LAMBDA t : t # "null"))

\* _get_type_string
RECURSIVE TypeString(_)
TypeString(s) ==
    IF ~IsDict(s) THEN IF s = JsonTrue THEN "True" ELSE "False"
    ELSE LET t == DeclaredType(s)
         IN  CASE t = "array" ->
                    "array<" \o TypeString(Get(s, "items", EmptyDict)) \o ">"
               [] t = "object" /\ "additionalProperties" \in DOMAIN s ->
                    "map<string, " \o TypeString(s["additionalProperties"]) \o ">"
               [] t = "object" -> "object"
               [] t # "" -> t
               [] "enum" \in DOMAIN s -> "enum"
               [] "$ref" \in DOMAIN s -> RefName(s["$ref"])
               [] OTHER -> "unknown"

\* _types_compatible
TypesCompatible(a, b) ==
    \/ a = b
    \/ {a, b} \subseteq {"integer", "number"}
    \/ a = "number" /\ b = "double"
    \/ b = "number" /\ a = "double"

Diff(ctx, f, kind) == [ctx |-> ctx, field |-> f, kind |-> kind]

Violation(kind, path, method, f, loc) ==
    [kind |-> kind, path |-> path, method |-> method, field |-> f, location |-> loc]

Outcome(ds, vs) == [diffs |-> ds, violations |-> vs]

\* Mutant: the documented missing fields are left out of the diffs too.
ReportMissingHidingDocumented(op, hp, ctx, ep, m, loc) ==
    LET missing == {g \in DOMAIN op \ DOMAIN hp : <<ep, m, loc, g>> \notin DocumentedMissing}
    IN  Outcome({Diff(ctx, f, "missing_in_hadrian") : f \in missing},
                {Violation("undocumented_missing", ep, m, f, loc) : f \in missing})

\* The fields of the reference schema missing in Hadrian: every one is a
\* diff; the ones not in DOCUMENTED_MISSING_FIELDS are also violations.
ReportMissing(op, hp, ctx, ep, m, loc) ==
    LET missing == DOMAIN op \ DOMAIN hp
    IN  Outcome({Diff(ctx, f, "missing_in_hadrian") : f \in missing},
                {Violation("undocumented_missing", ep, m, f, loc) :
                    f \in {g \in missing : <<ep, m, loc, g>> \notin DocumentedMissing}})

\* The fields only Hadrian has: every one is a diff; the ones whose
\* description lacks the marker are also violations.
ReportExtensions(op, hp, ctx, ep, m, loc) ==
    LET extra == DOMAIN hp \ DOMAIN op
    IN  Outcome({Diff(ctx, f, "hadrian_extension") : f \in extra},
                {Violation("unmarked_extension", ep, m, f, loc) :
                    f \in {g \in extra : Get(hp[g], "description", "") \notin MarkedDescriptions}})

IsObjectField(s) == Get(s, "type", TyList(<<>>)) = Ty("object")

\* _compare_schemas: missing and extension fields, then for the common
\* fields a type mismatch, a required-in-reference-only mismatch, and the
\* recursion into fields both sides declare as "object".
RECURSIVE CompareSchemas(_, _, _, _, _, _)
CompareSchemas(o, h, ctx, ep, m, loc) ==
    LET op == Get(o, "properties", EmptyDict)
        hp == Get(h, "properties", EmptyDict)
        oreq == Get(o, "required", {})
        hreq == Get(h, "required", {})
        common == DOMAIN op \cap DOMAIN hp
        miss == ReportMissing(op, hp, ctx, ep, m, loc)
        ext == ReportExtensions(op, hp, ctx, ep, m, loc)
        mismatched == {f \in common : ~TypesCompatible(TypeString(op[f]), TypeString(hp[f]))}
        optional == {f \in common : f \in oreq /\ f \notin hreq}
        nested == {CompareSchemas(op[f], hp[f], Append(ctx, f), ep, m, loc) :
                      f \in {g \in common : IsObjectField(op[g]) /\ IsObjectField(hp[g])}}
    IN  Outcome(miss.diffs \cup ext.diffs
                  \cup {Diff(ctx, f, "type_mismatch") : f \in mismatched}
                  \cup {Diff(ctx, f, "required_mismatch") : f \in optional}
                  \cup UNION {n.diffs : n \in nested},
                miss.violations \cup ext.violations \cup UNION {n.violations : n \in nested})

\* {p.get("name"): p for p in op.get("parameters", []) if p.get("in") == "query"}:
\* the last parameter of a name wins; a {"$ref": ...} parameter has no "in".
QueryParams(op) ==
    LET ps == Get(op, "parameters", <<>>)
        idx == {i \in DOMAIN ps : Get(ps[i], "in", "") = "query"}
    IN  [n \in {ps[i]["name"] : i \in idx} |->
            ps[CHOOSE i \in idx : ps[i]["name"] = n
                                  /\ \A j \in idx : ps[j]["name"] = n => j <= i]]

\* The query-parameter part of _compare_endpoint: flat, no recursion.
CompareParams(oop, hop, ep, m) ==
    LET miss == ReportMissing(QueryParams(oop), QueryParams(hop), <<"params">>, ep, m, "param")
        ext == ReportExtensions(QueryParams(oop), QueryParams(hop), <<"params">>, ep, m, "param")
    IN  Outcome(miss.diffs \cup ext.diffs, miss.violations \cup ext.violations)

\* op["requestBody"]["content"]["application/json"]["schema"] and the same
\* under responses["200"], each step defaulting to {}.
JsonSchemaOf(x) == Get(Get(Get(x, "content", EmptyDict), "application/json", EmptyDict),
                       "schema", EmptyDict)
RequestSchema(op) == JsonSchemaOf(Get(op, "requestBody", EmptyDict))
ResponseSchema(op) == JsonSchemaOf(Get(Get(op, "responses", EmptyDict), "200", EmptyDict))
=============================================================================
