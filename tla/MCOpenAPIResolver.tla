-------------------------- MODULE MCOpenAPIResolver --------------------------
(***************************************************************************)
(* Bounded documents for OpenAPIResolver.  Components A and B; "Missing"  *)
(* names a component that does not exist (a dangling $ref).               *)
(***************************************************************************)
EXTENDS OpenAPIResolver

CONSTANT Documents   \* the documents a run starts from

Str  == Leaf("string")
Int  == Leaf("integer")
Null == Leaf("null")
R(n) == "$ref" :> SchemaRef(n)
Described(s) == Put(s, "description", "see also")

\* Component schemas whose $refs point only at `targets`.
Shapes(targets) ==
    {Obj("id" :> ch, {"id"}) :
        ch \in {Str} \cup {R(t) : t \in targets} \cup {Described(R(t)) : t \in targets}}
    \cup {"allOf" :> <<R(t), Obj("extra" :> Int, {})>> : t \in targets}
    \cup {("allOf" :> <<R(t)>>) @@ ("properties" :> ("id" :> R(t))) : t \in targets}
    \cup {"oneOf" :> <<Null, R(t)>> : t \in targets}
    \cup {Null, Str}

Doc(a, b) == "components" :> ("schemas" :> [A |-> a, B |-> b])

\* A may refer to B, B to nothing that exists: no cycles.
AcyclicDocs == {Doc(a, b) : a \in Shapes({"B", "Missing"}), b \in Shapes({"Missing"})}

\* A refers to itself through a property.
CyclicDocs == {Doc(Obj("id" :> R("A"), {"id"}), Str)}

MCRequests ==
    {R("A"), R("B"), Described(R("A")), "anyOf" :> <<R("B"), Str>>}

MCInit == \E doc \in Documents : InitResolver(doc)
MCNext == NextResolver
MCSpec == MCInit /\ [][MCNext]_vars
=============================================================================
