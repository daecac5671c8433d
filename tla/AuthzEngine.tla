---------------------------- MODULE AuthzEngine ----------------------------
(***************************************************************************)
(* internal/authz: the engine New builds from the slices' contributions,   *)
(* the authn and authz middleware, and the getter through which Cedar      *)
(* pulls entities, for requests that run while keys and facts change.      *)
(*                                                                         *)
(* Cedar is external.  It evaluates every policy, in no fixed order, and   *)
(* reads entities through the getter while it does; it allows when some    *)
(* permit applies and no forbid does, and a policy that reads an attribute *)
(* of a missing entity does not apply.  "admin" and "user" are the shipped *)
(* policies; "onlyOpen" (permit) and "notCompleted" (forbid) stand for     *)
(* policies on a resource's attributes, which a deployment may add.        *)
(***************************************************************************)
EXTENDS Integers, Sequences, FiniteSets

CONSTANTS
    Requests,     \* requests being authorized at once
    Slices,       \* the contributions New may be given
    Dirs,         \* the policy directories it may be given
    MaxSlices     \* bound: contributions New is given

AnyPolicy == {"admin", "user", "onlyOpen", "notCompleted"}

\* A document is the sequence of its policies; one that does not parse has a "malformed".
Documents == Seq(AnyPolicy \cup {"malformed"})
Contribution == [types : Seq(STRING), resolver : BOOLEAN, policies : Documents]
PolicyDir == [kind : {"embedded", "missing", "files"},
              files : Seq([cedar : BOOLEAN, readable : BOOLEAN, doc : Documents])]

ASSUME SliceAssumption ==
    MaxSlices \in Nat /\ Slices \subseteq Contribution /\ Dirs \subseteq PolicyDir

VARIABLES
    contributions,   \* what New is given
    policyDir,       \* the authz-policy-dir setting and what is found there
    engine,          \* whether New has accepted it
    policies,        \* the merged policy set
    keys,            \* the api_keys table: whether it has the key, and its roles
    facts,           \* the entities the slices own
    auth             \* per request: its authentication and authorization

setup == <<contributions, policyDir, engine, policies>>
vars == <<setup, keys, facts, auth>>

-----------------------------------------------------------------------------
(* Entities.                                                               *)

Reserved == {"User", "Anonymous"}
Todo == [type |-> "Todo", id |-> "t"]
Peer == [type |-> "Service", id |-> "other"]

\* The callers: one of each principal type, the last minted by an injected authenticator.
Caller == [key |-> [type |-> "User", id |-> "u"], anonymous |-> [type |-> "Anonymous", id |-> "anonymous"],
           service |-> [type |-> "Service", id |-> "s"]]
Credentials == {"none", "key", "service"}
Roles == {"admin", "user"}

Resources == {Todo, Peer, Caller.service}
Entities == Resources \cup {Caller[c] : c \in DOMAIN Caller}

Miss == [src |-> "none", roles |-> {}, status |-> "none"]
FromClaims(roles) == [src |-> "claims", roles |-> roles, status |-> "none"]
FromSlice(status) == [src |-> "slice", roles |-> {}, status |-> status]

-----------------------------------------------------------------------------
(* New.                                                                    *)

Lists == UNION {[1..n -> Slices] : n \in 0..MaxSlices}

\* MUTANT: two slices may claim a type.
ValidateTypeOwnership_Shared(cs) ==
    \A i \in DOMAIN cs :
        /\ cs[i].resolver => cs[i].types # <<>>
        /\ \A a \in DOMAIN cs[i].types : cs[i].types[a] \notin Reserved

\* Every resolver owns a type, no type is reserved, and none is claimed twice.
ValidateTypeOwnership(cs) ==
    /\ \A i \in DOMAIN cs :
          /\ cs[i].resolver => cs[i].types # <<>>
          /\ \A a \in DOMAIN cs[i].types : cs[i].types[a] \notin Reserved
    /\ \A i, j \in DOMAIN cs : \A a \in DOMAIN cs[i].types, b \in DOMAIN cs[j].types :
          cs[i].types[a] = cs[j].types[b] => i = j /\ a = b

\* The .cedar files one after the other.
Concatenated(files) ==
    LET document[n \in 0..Len(files)] ==
            IF n = 0 THEN <<>>
            ELSE document[n - 1] \o (IF files[n].cedar THEN files[n].doc ELSE <<>>)
    IN document[Len(files)]

\* The embedded policy, or the directory's: there must be a .cedar file, and all of
\* them must be readable.
LoadBasePolicies(dir) ==
    CASE dir.kind = "embedded" -> [ok |-> TRUE, doc |-> <<"admin">>]
      [] dir.kind = "missing" -> [ok |-> FALSE, doc |-> <<>>]
      [] dir.kind = "files" ->
            [ok |-> /\ \E n \in DOMAIN dir.files : dir.files[n].cedar
                    /\ \A n \in DOMAIN dir.files : dir.files[n].cedar => dir.files[n].readable,
             doc |-> Concatenated(dir.files)]

\* MUTANT: the id is the index alone, and a later slice's policy takes an earlier one's place.
PolicyID_Unprefixed(slice, n) == n

PolicyID(slice, n) == <<slice, n>>

\* mergePolicies, for the base (slice 0) and every contribution: Add replaces the
\* policy that has the id already.
MergePolicies(base, cs) ==
    LET doc(i) == IF i = 0 THEN base ELSE cs[i].policies
        added == UNION {{i} \X DOMAIN doc(i) : i \in 0..Len(cs)}
        kept == {x \in added : \A y \in added :
                    PolicyID(x[1], x[2]) = PolicyID(y[1], y[2]) => y[1] <= x[1]}
    IN {doc(x[1])[x[2]] : x \in kept}

New ==
    LET base == LoadBasePolicies(policyDir)
        merged == MergePolicies(base.doc, contributions)
        accepted == ValidateTypeOwnership(contributions) /\ base.ok /\ "malformed" \notin merged
    IN /\ engine = "none"
       /\ engine' = IF accepted THEN "ready" ELSE "refused"
       /\ policies' = IF accepted THEN merged ELSE {}
       /\ UNCHANGED <<contributions, policyDir, keys, facts, auth>>

-----------------------------------------------------------------------------
(* The getter.                                                             *)

Claims(i, type) ==
    contributions[i].resolver /\ \E a \in DOMAIN contributions[i].types : contributions[i].types[a] = type

\* byType, before the principal is routed: a later contribution overwrites.
ByType(type) ==
    IF \E i \in DOMAIN contributions : Claims(i, type)
    THEN CHOOSE i \in DOMAIN contributions :
            Claims(i, type) /\ \A j \in DOMAIN contributions : Claims(j, type) => j <= i
    ELSE 0

\* MUTANT: a slice that owns the principal's type keeps it.
Route_SliceFirst(principal, uid) ==
    IF ByType(uid.type) # 0 THEN "slice"
    ELSE IF uid = principal.uid THEN "principal" ELSE "miss"

\* The resolver that answers: the principal's for the principal itself, whatever slice
\* owns its type, then the slice that owns the type, then nobody.
Route(principal, uid) ==
    IF uid = principal.uid THEN "principal"
    ELSE IF ByType(uid.type) # 0 THEN "slice" ELSE "miss"

Uncached == [Miss EXCEPT !.src = "uncached"]
NewGetter == [e \in Entities |-> Uncached]

-----------------------------------------------------------------------------
(* Requests.                                                               *)

NoAuth == [pc |-> "idle", cred |-> "none", decl |-> "undeclared", resource |-> Todo,
           principal |-> [uid |-> Caller.anonymous, roles |-> {}], cache |-> NewGetter,
           failed |-> FALSE, todo |-> {}, applied |-> {}, seen |-> {}, loads |-> 0, code |-> 0]

Step(r, a) == auth' = [auth EXCEPT ![r] = a] /\ UNCHANGED <<setup, keys, facts>>
Refuse(r, status) == Step(r, [auth[r] EXCEPT !.pc = "done", !.code = status])
Proceed(r) == Step(r, [auth[r] EXCEPT !.pc = "done", !.code = 200])

\* An operation declares Require(action, id), Require of another slice's action, Public
\* or nothing.
Declarations == {"todo", "other", "public", "undeclared"}

Arrive(r) ==
    /\ engine = "ready" /\ auth[r].pc = "idle"
    /\ \E cred \in Credentials, decl \in Declarations, resource \in Resources :
          Step(r, [NoAuth EXCEPT !.pc = "authn", !.cred = cred, !.decl = decl, !.resource = resource])

\* Authenticate: no credential is anonymous; an unknown key and a store failure are 401.
Authenticate(r) ==
    LET As(uid, roles) ==
            Step(r, [auth[r] EXCEPT !.pc = "authz", !.principal = [uid |-> uid, roles |-> roles]])
    IN /\ auth[r].pc = "authn"
       /\ \/ auth[r].cred = "none" /\ As(Caller.anonymous, {})
          \/ auth[r].cred = "key" /\ keys.known /\ As(Caller.key, keys.roles)
          \/ auth[r].cred = "service" /\ \E roles \in SUBSET Roles : As(Caller.service, roles)
          \/ auth[r].cred # "none" /\ Refuse(r, 401)

\* authorize, up to the evaluation.
Authorize(r) ==
    /\ auth[r].pc = "authz"
    /\ CASE auth[r].decl = "undeclared" -> Refuse(r, 403)
         [] auth[r].decl = "public" -> Proceed(r)
         [] OTHER -> Step(r, [auth[r] EXCEPT !.pc = "eval", !.todo = policies])

\* Cedar, for one policy that has read entity e.
Reads(a, policy) == IF policy \in {"admin", "user"} THEN a.principal.uid ELSE a.resource
Applies(a, policy, e) ==
    CASE policy = "admin" -> "admin" \in e.roles
      [] policy = "user" -> "user" \in e.roles /\ a.decl = "todo"
      [] policy = "onlyOpen" -> e.status = "open"
      [] policy = "notCompleted" -> e.status = "completed"

\* What a resolver may answer, and whether the load failed: facts.Resolve reports a
\* failure on the context and answers with a miss.
Resolved(a, uid) ==
    CASE Route(a.principal, uid) = "principal" -> {<<FromClaims(a.principal.roles), FALSE>>}
      [] Route(a.principal, uid) = "slice" ->
            {<<IF facts[uid] = "missing" THEN Miss ELSE FromSlice(facts[uid]), FALSE>>, <<Miss, TRUE>>}
      [] OTHER -> {<<Miss, FALSE>>}

\* MUTANT: nothing is remembered.
Get_Uncached(a, uid) ==
    {[entity |-> x[1], failed |-> a.failed \/ x[2], cache |-> a.cache,
      loads |-> IF Route(a.principal, uid) = "slice" THEN a.loads + 1 ELSE a.loads] : x \in Resolved(a, uid)}

\* getter.Get: the cached answer, misses included, or the resolver's, which is cached.
Get(a, uid) ==
    IF a.cache[uid] # Uncached
    THEN {[entity |-> a.cache[uid], failed |-> a.failed, cache |-> a.cache, loads |-> a.loads]}
    ELSE {[entity |-> x[1], failed |-> a.failed \/ x[2], cache |-> [a.cache EXCEPT ![uid] = x[1]],
           loads |-> IF Route(a.principal, uid) = "slice" THEN a.loads + 1 ELSE a.loads]
          : x \in Resolved(a, uid)}

EvalPolicy(r) ==
    /\ auth[r].pc = "eval"
    /\ \E policy \in auth[r].todo : \E g \in Get(auth[r], Reads(auth[r], policy)) :
          Step(r, [auth[r] EXCEPT
                !.todo = @ \ {policy}, !.cache = g.cache, !.failed = g.failed, !.loads = g.loads,
                !.seen = @ \cup {<<Reads(auth[r], policy), g.entity>>},
                !.applied = IF Applies(auth[r], policy, g.entity) THEN @ \cup {policy} ELSE @])

Permits == {"admin", "user", "onlyOpen"}
CedarAllows(a) == a.applied \cap Permits # {} /\ "notCompleted" \notin a.applied

\* MUTANT: a denied instance is reported as missing.
Deny_Hidden(a) == IF a.principal.uid.type = "Anonymous" THEN 401 ELSE 404

Deny(a) == IF a.principal.uid.type = "Anonymous" THEN 401 ELSE 403

\* MUTANT: an Allow is taken before the getter's error is looked at.
Decide_ErrorLast(r) ==
    /\ auth[r].pc = "eval" /\ auth[r].todo = {}
    /\ CASE CedarAllows(auth[r]) -> Proceed(r)
         [] ~CedarAllows(auth[r]) /\ auth[r].failed -> Refuse(r, 500)
         [] OTHER -> Refuse(r, Deny(auth[r]))

\* The rest of evaluate, and what authorize makes of it: a load error comes first.
Decide(r) ==
    /\ auth[r].pc = "eval" /\ auth[r].todo = {}
    /\ CASE auth[r].failed -> Refuse(r, 500)
         [] ~auth[r].failed /\ CedarAllows(auth[r]) -> Proceed(r)
         [] OTHER -> Refuse(r, Deny(auth[r]))

-----------------------------------------------------------------------------
(* The environment: keys are granted and revoked, facts change.            *)

ChangeKey ==
    /\ engine = "ready" /\ \E roles \in SUBSET Roles :
          keys' \in {[known |-> TRUE, roles |-> roles], [known |-> FALSE, roles |-> {}]}
    /\ UNCHANGED <<setup, facts, auth>>
ChangeFact ==
    /\ engine = "ready"
    /\ \E e \in {Todo, Peer}, v \in {"missing", "open", "completed"} : facts' = [facts EXCEPT ![e] = v]
    /\ UNCHANGED <<setup, keys, auth>>

Init ==
    /\ contributions \in Lists /\ policyDir \in Dirs
    /\ engine = "none" /\ policies = {}
    /\ keys = [known |-> TRUE, roles |-> {"user"}]
    /\ facts = [e \in Entities |-> "open"]
    /\ auth = [r \in Requests |-> NoAuth]

Serve(r) == Arrive(r) \/ Authenticate(r) \/ Authorize(r) \/ EvalPolicy(r) \/ Decide(r)
Next == New \/ ChangeKey \/ ChangeFact \/ \E r \in Requests : Serve(r)

Spec == Init /\ [][Next]_vars

-----------------------------------------------------------------------------
(* Properties.                                                             *)

Reached(r) == auth[r].pc = "done" /\ auth[r].code = 200

\* Every variable keeps its type.
TypeOK ==
    /\ contributions \in Lists /\ policyDir \in Dirs
    /\ engine \in {"none", "ready", "refused"} /\ policies \subseteq AnyPolicy
    /\ facts \in [Entities -> {"missing", "open", "completed"}]
    /\ \A r \in Requests :
          /\ auth[r].pc \in {"idle", "authn", "authz", "eval", "done"}
          /\ auth[r].principal.uid \in Entities /\ auth[r].principal.roles \subseteq Roles
          /\ auth[r].todo \subseteq policies /\ auth[r].applied \subseteq policies
          /\ auth[r].code \in {0, 200, 401, 403, 500}

\* The policies New was given.
Supplied == {p \in AnyPolicy :
    \/ \E n \in DOMAIN LoadBasePolicies(policyDir).doc : LoadBasePolicies(policyDir).doc[n] = p
    \/ \E i \in DOMAIN contributions : \E n \in DOMAIN contributions[i].policies :
          contributions[i].policies[n] = p}

\* A request reaches its handler only if its operation says Public, or if every policy
\* New was given, of any slice or file, has looked at what it reads, one of them permits
\* the request and none forbids it; an anonymous caller has no role to be permitted by
\* (New, authorize and evaluate: deny by default, and no policy is lost in the merge).
ProceedJustified ==
    \A r \in Requests : Reached(r) =>
        LET a == auth[r]
            Role(role) == role \in Supplied \cap a.principal.roles /\ a.principal.uid # Caller.anonymous
        IN \/ a.decl = "public"
           \/ /\ a.decl \in {"todo", "other"}
              /\ \A p \in Supplied : \E x \in a.seen : x[1] = Reads(a, p)
              /\ "notCompleted" \in Supplied => <<a.resource, FromSlice("completed")>> \notin a.seen
              /\ \/ Role("admin") \/ (Role("user") /\ a.decl = "todo")
                 \/ "onlyOpen" \in Supplied /\ <<a.resource, FromSlice("open")>> \in a.seen

\* Once a load has failed the request is answered 500, even if Cedar allowed it on
\* the entities it had (evaluate checks getter.Err before the decision).
LoadErrorFailsClosed ==
    \A r \in Requests : auth[r].pc = "done" /\ auth[r].failed => auth[r].code = 500

\* All policies of one evaluation see one version of an entity, and a slice is asked
\* for it once, whatever changes meanwhile and also when it was missing (getter.Get).
OneSnapshot ==
    \A r \in Requests :
        /\ \A x, y \in auth[r].seen : x[1] = y[1] => x[2] = y[2]
        /\ auth[r].loads <= 1

\* The principal's own entity always comes from the claims of this request, although
\* a slice may own the principal's type (routePrincipal, principalFirst).
PrincipalNotShadowed ==
    \A r \in Requests : \A x \in auth[r].seen :
        x[1] = auth[r].principal.uid => x[2] = FromClaims(auth[r].principal.roles)

\* In an engine New accepted, the order of the contributions does not matter: a type
\* is routed to the only slice that claims it, and every resolver is routed to.
RoutingUnambiguous ==
    engine = "ready" =>
        \A i \in DOMAIN contributions : contributions[i].resolver =>
            /\ contributions[i].types # <<>>
            /\ \A a \in DOMAIN contributions[i].types : ByType(contributions[i].types[a]) = i
=============================================================================
