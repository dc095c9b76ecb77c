--------------------------- MODULE OpenAPIResolver ---------------------------
(***************************************************************************)
(* class OpenAPIResolver (scripts/openapi-conformance.py) as a component:  *)
(* one document, a cache of resolved references that lives as long as the *)
(* resolver, and calls of resolve_schema one at a time.  The algorithm is  *)
(* in SchemaResolver.                                                      *)
(***************************************************************************)
EXTENDS SchemaResolver

CONSTANT Requests   \* schemas the checker hands to resolve_schema

VARIABLES
    spec,      \* self.spec: the document (never changes)
    cache,     \* self._cache: reference -> resolved schema
    request,   \* the schema the last call was given
    result,    \* the value the last call returned
    crashed    \* a call raised RecursionError

vars == <<spec, cache, request, result, crashed>>

-----------------------------------------------------------------------------
(***************************************************************************)
(* The resolver as a component: the checker calls resolve_schema on the    *)
(* schemas of one document, one call at a time, with the same cache.       *)
(***************************************************************************)
InitResolver(doc) ==
    /\ spec = doc
    /\ cache = EmptyDict
    /\ request = EmptyDict
    /\ result = EmptyDict
    /\ crashed = FALSE

\* One call self.resolver.resolve_schema(s); a RecursionError ends the run.
Resolve(s) ==
    /\ ~crashed
    /\ LET r == ResolveSchema(spec, s, cache, 1)
       IN  IF r.ok
           THEN /\ cache' = r.cache
                /\ request' = s
                /\ result' = r.val
                /\ UNCHANGED <<spec, crashed>>
           ELSE /\ crashed' = TRUE
                /\ UNCHANGED <<spec, cache, request, result>>

NextResolver == \E s \in Requests : Resolve(s)

\* What s resolves to on a resolver that has resolved nothing yet.
FreshResolve(s) == ResolveSchema(spec, s, EmptyDict, 1)

-----------------------------------------------------------------------------
TypeOK ==
    /\ \A r \in DOMAIN cache : r.local /\ r.parts # <<>>
    /\ DOMAIN result \subseteq SchemaKeys
    /\ crashed \in BOOLEAN

(***************************************************************************)
(* The cache is shared by every call on one document: an entry written     *)
(* while resolving one endpoint's schema is returned, as it is, to every   *)
(* later call.  What a call returns must not depend on what was resolved   *)
(* before it: it equals what a resolver with an empty cache returns.       *)
(***************************************************************************)
ResolutionIndependentOfHistory ==
    ~crashed => result = FreshResolve(request).val

(***************************************************************************)
(* Spec 4.1: a cyclic $ref chain must fail only that one resolution, with  *)
(* an "unresolved" placeholder, and never end the whole run.  resolve_ref  *)
(* registers a reference in the cache only after its target is resolved,  *)
(* so a reference reached again from inside its own target recurses until *)
(* RecursionError, which nothing catches.                                  *)
(***************************************************************************)
NoRecursionError == ~crashed
=============================================================================
