-------------------------- MODULE AuthzEngineProofs --------------------------
(***************************************************************************)
(* Proofs about AuthzEngine, for any requests, slices, policy directories  *)
(* and number of contributions: what New accepts, and what one request's   *)
(* evaluation rests on while keys and facts change.                        *)
(*                                                                         *)
(* The invariant is a property of New's result and of one request's record *)
(* given that result.                                                      *)
(***************************************************************************)
EXTENDS AuthzEngine, SequenceTheorems, WellFoundedInduction, TLAPS

Callers == {Caller[c] : c \in DOMAIN Caller}
EntityValue == {Miss, Uncached} \cup {FromClaims(roles) : roles \in SUBSET Roles}
                   \cup {FromSlice(status) : status \in {"open", "completed"}}

Phases == {"idle", "authn", "authz", "eval", "done"}
Codes == {0, 200, 401, 403, 500}
Principals == [uid : Callers, roles : SUBSET Roles]
Caches == [Entities -> EntityValue]
Readings == SUBSET (Entities \X EntityValue)
PolicySets == SUBSET AnyPolicy

Record == [pc : Phases, cred : Credentials, decl : Declarations, resource : Resources,
           principal : Principals, cache : Caches, failed : BOOLEAN, todo : PolicySets,
           applied : PolicySets, seen : Readings, loads : Nat, code : Codes]

\* Nothing has been read before the evaluation starts.
FreshInv(a) ==
    a.pc \in {"idle", "authn", "authz"} =>
        /\ a.cache = NewGetter /\ a.failed = FALSE /\ a.todo = {} /\ a.applied = {}
        /\ a.seen = {} /\ a.loads = 0 /\ a.code = 0

\* The principal's roles are its credential's, and so is its entity.
PrincipalInv(a) ==
    /\ a.principal.uid = Caller.anonymous => a.principal.roles = {}
    /\ a.cache[a.principal.uid] \in {Uncached, FromClaims(a.principal.roles)}

\* The policies saw what the cache holds, and a slice was asked for the resource only.
CacheInv(a) ==
    /\ \A x \in a.seen : x[2] = a.cache[x[1]] /\ x[2] # Uncached
    /\ a.loads <= (IF a.cache[a.resource] # Uncached /\ a.resource # a.principal.uid THEN 1 ELSE 0)

\* Where the decision comes from an evaluation of the policies P.
Judged(a) == a.pc = "eval" \/ (a.pc = "done" /\ a.code = 200 /\ a.decl # "public")

\* Every policy but those still to come has been evaluated on what the cache holds.
EvalInv(a, P) ==
    /\ a.todo \subseteq P /\ a.applied \subseteq P
    /\ Judged(a) =>
          /\ a.decl \in {"todo", "other"} /\ a.applied \subseteq P \ a.todo
          /\ \A p \in P \ a.todo :
                LET e == a.cache[Reads(a, p)]
                IN <<Reads(a, p), e>> \in a.seen /\ (p \in a.applied <=> Applies(a, p, e))

\* A failed load ends in a 500, and a success was allowed.
DoneInv(a) ==
    /\ a.pc = "done" /\ a.failed => a.code = 500
    /\ a.pc = "done" /\ Judged(a) => a.todo = {} /\ CedarAllows(a)

Good(a, P) == a \in Record /\ FreshInv(a) /\ PrincipalInv(a) /\ CacheInv(a) /\ EvalInv(a, P) /\ DoneInv(a)

\* New accepts only what is routed in one way, keeps every policy, and comes before
\* every request.
EngineInv ==
    /\ contributions \in Lists /\ policyDir \in Dirs /\ engine \in {"none", "ready", "refused"}
    /\ engine = "ready" => ValidateTypeOwnership(contributions) /\ policies = Supplied
    /\ engine # "ready" => policies = {} /\ auth = [r \in Requests |-> NoAuth]

Inv ==
    /\ EngineInv
    /\ keys \in [known : BOOLEAN, roles : SUBSET Roles]
    /\ facts \in [Entities -> {"missing", "open", "completed"}]
    /\ auth \in [Requests -> Record] /\ \A r \in Requests : Good(auth[r], policies)

-----------------------------------------------------------------------------
(* Documents.                                                              *)

\* Induction over the naturals, for a set.
LEMMA Induction ==
    ASSUME NEW S \in SUBSET Nat, 0 \in S, \A n \in Nat : n \in S => n + 1 \in S
    PROVE  S = Nat
  <1> DEFINE R == {ss \in Nat \X Nat : ss[1] < ss[2]}
             T == Nat \ S
  <1> SUFFICES ASSUME T # {} PROVE FALSE
    OBVIOUS
  <1>1. IsWellFoundedOn(R, Nat)
    BY NatLessThanWellFounded, Zenon DEF OpToRel
  <1>2. PICK x \in T : \A y \in T : ~(<<y, x>> \in R)
    <2>1. T \subseteq Nat
      OBVIOUS
    <2> HIDE DEF R, T
    <2> QED BY <1>1, <2>1, WFMin, Zenon
  <1>3. x \in Nat /\ x \notin S /\ x # 0 /\ x - 1 \in Nat
    OBVIOUS
  <1>4. <<x - 1, x>> \in R
    BY <1>3
  <1>5. x - 1 \in S
    BY <1>2, <1>3, <1>4
  <1>6. (x - 1) + 1 \in S
    BY <1>3, <1>5
  <1> QED BY <1>3, <1>6

Files == Seq([cedar : BOOLEAN, readable : BOOLEAN, doc : Documents])

\* Files of policies, one after the other, are a document.
LEMMA ConcatenatedType ==
    ASSUME NEW files \in Files
    PROVE  Concatenated(files) \in Documents
  <1> DEFINE L == Len(files)
             D(n) == IF files[n].cedar THEN files[n].doc ELSE <<>>
             document[n \in 0..L] == IF n = 0 THEN <<>> ELSE document[n - 1] \o D(n)
             Defines(g) == g = [n \in 0..L |-> IF n = 0 THEN <<>> ELSE g[n - 1] \o D(n)]
  <1>1. L \in Nat /\ <<>> \in Documents /\ \A n \in 1..L : D(n) \in Documents
    <2>1. L \in Nat /\ <<>> \in Documents
      BY DEF Files, Documents
    <2>2. \A n \in 1..L : files[n].doc \in Documents
      <3> SUFFICES ASSUME NEW n \in 1..L PROVE files[n].doc \in Documents
        OBVIOUS
      <3> DEFINE F == [cedar : BOOLEAN, readable : BOOLEAN, doc : Documents]
      <3>1. files \in Seq(F)
        BY DEF Files
      <3> HIDE DEF F
      <3>2. files[n] \in F
        BY <3>1
      <3> QED BY <3>2 DEF F
    <2> QED BY <2>1, <2>2
  <1>2. \A s, t \in Documents : s \o t \in Documents
    BY DEF Documents
  <1>3. Concatenated(files) = document[L]
    BY DEF Concatenated
  <1>4. document = CHOOSE g : Defines(g)
    BY DEF document
  <1> HIDE DEF L, D, document
  <1>5. \E g : Defines(g)
    <2> DEFINE Partial(m, g) == g[0] = <<>> /\ \A n \in 1..m : g[n] = g[n - 1] \o D(n)
               S == {m \in Nat : m <= L => \E g \in [0..m -> Documents] : Partial(m, g)}
    <2>1. 0 \in S
      <3>1. [n \in 0..0 |-> <<>>] \in [0..0 -> Documents] /\ Partial(0, [n \in 0..0 |-> <<>>])
        BY <1>1
      <3> QED BY <3>1
    <2>2. ASSUME NEW m \in Nat, m \in S PROVE m + 1 \in S
      <3>0. m + 1 \in Nat
        OBVIOUS
      <3>1. SUFFICES ASSUME m + 1 <= L PROVE \E g \in [0..m + 1 -> Documents] : Partial(m + 1, g)
        BY <3>0, Zenon
      <3>2. PICK g \in [0..m -> Documents] : Partial(m, g)
        BY <1>1, <2>2, <3>1
      <3>3. m + 1 \in 1..L /\ m \in 0..m
        BY <1>1, <3>1
      <3>4. PICK d \in Documents : d = g[m] \o D(m + 1)
        BY <1>1, <1>2, <3>3
      <3> DEFINE h == [n \in 0..m + 1 |-> IF n = m + 1 THEN d ELSE g[n]]
      <3>5. \A n \in 0..m : h[n] = g[n] /\ n # m + 1
        OBVIOUS
      <3>6. h[m + 1] = d
        OBVIOUS
      <3>7. h \in [0..m + 1 -> Documents]
        <4>1. \A n \in 0..m + 1 : n # m + 1 => n \in 0..m
          OBVIOUS
        <4> QED BY <4>1
      <3> HIDE DEF h
      <3>8. ASSUME NEW n \in 1..m + 1 PROVE h[n] = h[n - 1] \o D(n)
        <4>1. CASE n = m + 1
          <5>1. n - 1 = m /\ h[n - 1] = g[m]
            BY <3>3, <3>5, <4>1
          <5> QED BY <3>4, <3>6, <4>1, <5>1
        <4>2. CASE n # m + 1
          <5>1. n \in 1..m /\ n \in 0..m /\ n - 1 \in 0..m
            BY <4>2
          <5> QED BY <3>2, <3>5, <5>1
        <4> QED BY <4>1, <4>2
      <3>9. h[0] = <<>>
        BY <3>2, <3>5
      <3> QED BY <3>7, <3>8, <3>9
    <2>3. L \in S
      <3> HIDE DEF S
      <3>1. S \in SUBSET Nat
        BY DEF S
      <3>2. S = Nat
        BY <2>1, <2>2, <3>1, Induction
      <3> QED BY <1>1, <3>2
    <2>4. PICK g \in [0..L -> Documents] : Partial(L, g)
      <3>1. L <= L
        BY <1>1
      <3>2. L <= L => \E g \in [0..L -> Documents] : Partial(L, g)
        BY <2>3, Zenon
      <3> QED BY <3>1, <3>2, Zenon
    <2>5. ASSUME NEW n \in 0..L PROVE g[n] = IF n = 0 THEN <<>> ELSE g[n - 1] \o D(n)
      <3>1. n # 0 => n \in 1..L
        BY <1>1
      <3> QED BY <2>4, <3>1
    <2>6. Defines(g)
      BY <2>4, <2>5
    <2> QED BY <2>6
  <1>6. Defines(document)
    BY <1>4, <1>5
  <1>7. L \in {n \in Nat : n <= L => document[n] \in Documents}
    <2> DEFINE S == {n \in Nat : n <= L => document[n] \in Documents}
    <2>1. 0 \in S
      BY <1>1, <1>6
    <2>2. ASSUME NEW n \in Nat, n \in S PROVE n + 1 \in S
      <3> SUFFICES ASSUME n + 1 <= L PROVE document[n + 1] \in Documents
        OBVIOUS
      <3>1. n + 1 \in 0..L /\ n + 1 \in 1..L /\ n + 1 # 0 /\ (n + 1) - 1 = n /\ n <= L
        BY <1>1
      <3>2. document[n + 1] = document[n] \o D(n + 1)
        BY <1>6, <3>1
      <3>3. document[n] \in Documents /\ D(n + 1) \in Documents
        BY <1>1, <2>2, <3>1
      <3> QED BY <1>2, <3>2, <3>3
    <2>3. S \in SUBSET Nat
      OBVIOUS
    <2> HIDE DEF S
    <2>4. S = Nat
      BY <2>1, <2>2, <2>3, Induction
    <2> QED BY <1>1, <2>4 DEF S
  <1> QED BY <1>1, <1>3, <1>7

\* The contributions are a sequence.
LEMMA ListsLemma ==
    ASSUME NEW cs \in Lists
    PROVE  /\ Len(cs) \in Nat /\ DOMAIN cs = 1..Len(cs)
           /\ \A i \in DOMAIN cs : cs[i] \in Contribution
  <1>1. PICK n \in 0..MaxSlices : cs \in [1..n -> Slices]
    BY DEF Lists
  <1>2. n \in Nat
    BY SliceAssumption
  <1>3. cs \in Seq(Slices)
    BY <1>1, <1>2
  <1> QED BY <1>1, <1>2, <1>3, SliceAssumption

\* Merging loses no policy and adds none.
LEMMA MergeLemma ==
    ASSUME NEW base, NEW cs \in Lists, NEW p
    PROVE  p \in MergePolicies(base, cs) <=>
              \/ \E n \in DOMAIN base : base[n] = p
              \/ \E i \in DOMAIN cs : \E n \in DOMAIN cs[i].policies : cs[i].policies[n] = p
  <1> DEFINE doc(i) == IF i = 0 THEN base ELSE cs[i].policies
             added == UNION {{i} \X DOMAIN doc(i) : i \in 0..Len(cs)}
             kept == {x \in added : \A y \in added :
                        PolicyID(x[1], x[2]) = PolicyID(y[1], y[2]) => y[1] <= x[1]}
  <1>1. MergePolicies(base, cs) = {doc(x[1])[x[2]] : x \in kept}
    BY DEF MergePolicies
  <1>2. \A x : x \in added <=> \E i \in 0..Len(cs) : \E n \in DOMAIN doc(i) : x = <<i, n>>
    <2>1. \A x : x \in added <=> \E i \in 0..Len(cs) : x \in {i} \X DOMAIN doc(i)
      BY Zenon
    <2> HIDE DEF doc, added
    <2> QED BY <2>1
  <1>3. Len(cs) \in Nat /\ DOMAIN cs = 1..Len(cs)
    BY ListsLemma
  <1> HIDE DEF doc, added
  <1>4. kept = added
    <2>1. ASSUME NEW x \in added, NEW y \in added, PolicyID(x[1], x[2]) = PolicyID(y[1], y[2])
          PROVE  y[1] <= x[1]
      <3>1. x[1] = y[1]
        BY <2>1 DEF PolicyID
      <3>2. x[1] \in 0..Len(cs)
        BY <1>2
      <3> QED BY <1>3, <3>1, <3>2
    <2> QED BY <2>1
  <1>5. p \in MergePolicies(base, cs) <=> \E i \in 0..Len(cs) : \E n \in DOMAIN doc(i) : p = doc(i)[n]
    <2>1. \A i, n : <<i, n>>[1] = i /\ <<i, n>>[2] = n
      OBVIOUS
    <2>2. p \in MergePolicies(base, cs) <=> \E x \in added : p = doc(x[1])[x[2]]
      BY <1>1, <1>4
    <2> HIDE DEF kept
    <2>3. ASSUME NEW x \in added PROVE \E i \in 0..Len(cs) : \E n \in DOMAIN doc(i) : doc(x[1])[x[2]] = doc(i)[n]
      <3>1. PICK i \in 0..Len(cs) : \E n \in DOMAIN doc(i) : x = <<i, n>>
        BY <1>2
      <3>2. PICK n \in DOMAIN doc(i) : x = <<i, n>>
        BY <3>1
      <3>3. x[1] = i /\ x[2] = n
        BY <3>2
      <3> QED BY <3>3
    <2>4. ASSUME NEW i \in 0..Len(cs), NEW n \in DOMAIN doc(i) PROVE \E x \in added : doc(i)[n] = doc(x[1])[x[2]]
      <3>1. <<i, n>> \in added
        BY <1>2
      <3> QED BY <2>1, <3>1
    <2>5. ASSUME p \in MergePolicies(base, cs)
          PROVE  \E i \in 0..Len(cs) : \E n \in DOMAIN doc(i) : p = doc(i)[n]
      BY <2>2, <2>3, <2>5
    <2>6. ASSUME NEW i \in 0..Len(cs), NEW n \in DOMAIN doc(i), p = doc(i)[n]
          PROVE  p \in MergePolicies(base, cs)
      BY <2>2, <2>4, <2>6
    <2> QED BY <2>5, <2>6
  <1>6. 0 \in 0..Len(cs) /\ doc(0) = base
    BY <1>3 DEF doc
  <1>7. \A i \in DOMAIN cs : i \in 0..Len(cs) /\ doc(i) = cs[i].policies
    BY <1>3 DEF doc
  <1>8. \A i \in 0..Len(cs) : i # 0 => i \in DOMAIN cs
    BY <1>3
  <1> QED BY <1>5, <1>6, <1>7, <1>8

\* What New accepts is what it was given.
LEMMA AcceptedLemma ==
    ASSUME contributions \in Lists, policyDir \in Dirs,
           "malformed" \notin MergePolicies(LoadBasePolicies(policyDir).doc, contributions)
    PROVE  MergePolicies(LoadBasePolicies(policyDir).doc, contributions) = Supplied
  <1> DEFINE base == LoadBasePolicies(policyDir).doc
             merged == MergePolicies(base, contributions)
  <1>1. base \in Documents
    <2>1. policyDir.kind \in {"embedded", "missing", "files"} /\ policyDir.files \in Files
      BY SliceAssumption DEF PolicyDir, Files
    <2>2. CASE policyDir.kind = "files"
      <3>1. base = Concatenated(policyDir.files)
        BY <2>2 DEF LoadBasePolicies
      <3> QED BY <2>1, <3>1, ConcatenatedType
    <2>3. CASE policyDir.kind = "missing"
      <3>1. base = <<>>
        BY <2>3 DEF LoadBasePolicies
      <3> QED BY <3>1 DEF Documents
    <2>4. CASE policyDir.kind = "embedded"
      <3>1. base = <<"admin">>
        BY <2>4 DEF LoadBasePolicies
      <3> QED BY <3>1 DEF Documents, AnyPolicy
    <2> QED BY <2>1, <2>2, <2>3, <2>4
  <1> HIDE DEF base
  <1>2. \A p : p \in merged <=>
              \/ \E n \in DOMAIN base : base[n] = p
              \/ \E i \in DOMAIN contributions : \E n \in DOMAIN contributions[i].policies :
                    contributions[i].policies[n] = p
    BY MergeLemma
  <1>3. \A n \in DOMAIN base : base[n] \in AnyPolicy \cup {"malformed"}
    BY <1>1 DEF Documents
  <1>4. \A i \in DOMAIN contributions : \A n \in DOMAIN contributions[i].policies :
           contributions[i].policies[n] \in AnyPolicy \cup {"malformed"}
    <2>1. \A i \in DOMAIN contributions : contributions[i].policies \in Documents
      BY ListsLemma DEF Contribution
    <2> QED BY <2>1 DEF Documents
  <1>5. "malformed" \notin merged
    BY DEF base
  <1>6. \A p \in merged : p \in AnyPolicy
    BY <1>2, <1>3, <1>4, <1>5
  <1>7. \A p : p \in Supplied <=> p \in AnyPolicy /\ p \in merged
    <2> HIDE DEF merged
    <2> QED BY <1>2 DEF Supplied, base
  <1> QED BY <1>6, <1>7 DEF base

\* An engine New accepted routes every type to the slice that claims it.
LEMMA RoutingLemma ==
    ASSUME contributions \in Lists, ValidateTypeOwnership(contributions)
    PROVE  \A i \in DOMAIN contributions : contributions[i].resolver =>
              /\ contributions[i].types # <<>>
              /\ \A a \in DOMAIN contributions[i].types : ByType(contributions[i].types[a]) = i
  <1> SUFFICES ASSUME NEW i \in DOMAIN contributions, contributions[i].resolver
               PROVE  /\ contributions[i].types # <<>>
                      /\ \A a \in DOMAIN contributions[i].types : ByType(contributions[i].types[a]) = i
    OBVIOUS
  <1>1. contributions[i].types # <<>>
    BY DEF ValidateTypeOwnership
  <1>2. ASSUME NEW a \in DOMAIN contributions[i].types PROVE ByType(contributions[i].types[a]) = i
    <2> DEFINE type == contributions[i].types[a]
    <2>1. Claims(i, type)
      BY DEF Claims
    <2>2. \A j \in DOMAIN contributions : Claims(j, type) => j = i
      BY DEF Claims, ValidateTypeOwnership
    <2>3. i \in Nat
      BY ListsLemma
    <2> HIDE DEF type
    <2>4. \A k \in DOMAIN contributions :
             (Claims(k, type) /\ \A j \in DOMAIN contributions : Claims(j, type) => j <= k) <=> k = i
      BY <2>1, <2>2, <2>3
    <2>5. (CHOOSE k \in DOMAIN contributions :
             Claims(k, type) /\ \A j \in DOMAIN contributions : Claims(j, type) => j <= k) = i
      BY <2>4
    <2> QED BY <2>1, <2>5 DEF ByType, type
  <1> QED BY <1>1, <1>2

-----------------------------------------------------------------------------
(* Entities and what is known of them.                                     *)

LEMMA EntityLemma ==
    /\ Callers = {Caller.key, Caller.anonymous, Caller.service}
    /\ Callers \subseteq Entities /\ Resources \subseteq Entities
    /\ Todo \in Resources /\ Caller.anonymous # Caller.key /\ Caller.anonymous # Caller.service
  BY DEF Callers, Caller, Entities, Resources, Todo, Peer

LEMMA ValueLemma ==
    /\ Miss \in EntityValue /\ Miss # Uncached /\ Uncached \in EntityValue
    /\ \A roles \in SUBSET Roles : /\ FromClaims(roles) \in EntityValue /\ FromClaims(roles) # Uncached
                                   /\ FromClaims(roles).roles = roles
                                   /\ FromClaims(roles).status = "none"
    /\ \A s \in {"open", "completed"} : /\ FromSlice(s) \in EntityValue /\ FromSlice(s) # Uncached
                                        /\ FromSlice(s).status = s
    /\ \A v \in EntityValue : v.status \in {"open", "completed"} => v = FromSlice(v.status)
  <1>1. /\ Uncached.src = "uncached" /\ Uncached.status = "none"
        /\ Miss.src = "none" /\ Miss.status = "none"
    BY DEF Uncached, Miss
  <1>2. \A roles : /\ FromClaims(roles).src = "claims" /\ FromClaims(roles).status = "none"
                   /\ FromClaims(roles).roles = roles
    BY DEF FromClaims
  <1>3. \A s : FromSlice(s).src = "slice" /\ FromSlice(s).status = s
    BY DEF FromSlice
  <1>4. ASSUME NEW v \in EntityValue, v.status \in {"open", "completed"} PROVE v = FromSlice(v.status)
    <2>1. \/ v \in {Miss, Uncached}
          \/ \E roles \in SUBSET Roles : v = FromClaims(roles)
          \/ \E s \in {"open", "completed"} : v = FromSlice(s)
      BY DEF EntityValue
    <2> QED BY <1>1, <1>2, <1>3, <1>4, <2>1
  <1>5. Miss \in EntityValue /\ Uncached \in EntityValue
    BY DEF EntityValue
  <1>6. \A roles \in SUBSET Roles : FromClaims(roles) \in EntityValue
    BY DEF EntityValue
  <1>7. \A s \in {"open", "completed"} : FromSlice(s) \in EntityValue
    BY DEF EntityValue
  <1>8. Miss # Uncached
    BY <1>1
  <1>9. \A roles : FromClaims(roles) # Uncached
    BY <1>1, <1>2
  <1>10. \A s : FromSlice(s) # Uncached
    BY <1>1, <1>3
  <1> QED BY <1>2, <1>3, <1>4, <1>5, <1>6, <1>7, <1>8, <1>9, <1>10

\* The getter: what it answers is then in the cache, and what was there stays.
LEMMA GetLemma ==
    ASSUME facts \in [Entities -> {"missing", "open", "completed"}],
           NEW a \in Record, NEW uid \in Entities, NEW g \in Get(a, uid),
           uid = a.principal.uid => a.cache[uid] \in {Uncached, FromClaims(a.principal.roles)}
    PROVE  /\ g.entity \in EntityValue /\ g.entity # Uncached
           /\ g.cache = [a.cache EXCEPT ![uid] = g.entity]
           /\ a.cache[uid] # Uncached => g.entity = a.cache[uid] /\ g.loads = a.loads
           /\ g.failed \in BOOLEAN /\ g.loads \in Nat /\ g.loads <= a.loads + 1
           /\ uid = a.principal.uid => g.entity = FromClaims(a.principal.roles) /\ g.loads = a.loads
  <1>1. /\ a.cache \in [Entities -> EntityValue] /\ a.failed \in BOOLEAN /\ a.loads \in Nat
        /\ a.principal.roles \in SUBSET Roles
    BY DEF Record, Principals, Caches
  <1>2. CASE a.cache[uid] # Uncached
    <2>1. g = [entity |-> a.cache[uid], failed |-> a.failed, cache |-> a.cache, loads |-> a.loads]
      BY <1>2 DEF Get
    <2>2. /\ g.entity = a.cache[uid] /\ g.failed = a.failed /\ g.cache = a.cache /\ g.loads = a.loads
      BY <2>1
    <2>3. a.cache = [a.cache EXCEPT ![uid] = a.cache[uid]]
      BY <1>1
    <2> QED BY <1>1, <1>2, <2>2, <2>3
  <1>3. CASE a.cache[uid] = Uncached
    <2> DEFINE n == IF Route(a.principal, uid) = "slice" THEN a.loads + 1 ELSE a.loads
    <2>1. PICK x \in Resolved(a, uid) :
             g = [entity |-> x[1], failed |-> a.failed \/ x[2], cache |-> [a.cache EXCEPT ![uid] = x[1]],
                  loads |-> n]
      BY <1>3 DEF Get
    <2>2. /\ g.entity = x[1] /\ g.failed = (a.failed \/ x[2]) /\ g.loads = n
          /\ g.cache = [a.cache EXCEPT ![uid] = x[1]]
      BY <2>1
    <2>3. n \in Nat /\ n <= a.loads + 1
      BY <1>1
    <2>4. Route(a.principal, uid) \in {"principal", "slice", "miss"}
      BY DEF Route
    <2>5. x[1] \in EntityValue /\ x[1] # Uncached /\ x[2] \in BOOLEAN
      <3>1. CASE Route(a.principal, uid) = "principal"
        <4>1. x = <<FromClaims(a.principal.roles), FALSE>>
          BY <3>1 DEF Resolved
        <4> QED BY <1>1, <4>1, ValueLemma
      <3>2. CASE Route(a.principal, uid) = "slice"
        <4> DEFINE v == IF facts[uid] = "missing" THEN Miss ELSE FromSlice(facts[uid])
        <4>1. x \in {<<v, FALSE>>, <<Miss, TRUE>>}
          BY <3>2 DEF Resolved
        <4>2. v \in EntityValue /\ v # Uncached
          <5>1. facts[uid] \in {"missing", "open", "completed"}
            OBVIOUS
          <5> QED BY <5>1, ValueLemma
        <4> HIDE DEF v
        <4>3. CASE x = <<v, FALSE>>
          <5>1. x[1] = v /\ x[2] = FALSE
            BY <4>3
          <5> QED BY <4>2, <5>1
        <4>4. CASE x = <<Miss, TRUE>>
          <5>1. x[1] = Miss /\ x[2] = TRUE
            BY <4>4
          <5> QED BY <5>1, ValueLemma
        <4> QED BY <4>1, <4>3, <4>4
      <3>3. CASE Route(a.principal, uid) = "miss"
        <4>1. x = <<Miss, FALSE>>
          BY <3>3 DEF Resolved
        <4> QED BY <4>1, ValueLemma
      <3> QED BY <2>4, <3>1, <3>2, <3>3
    <2>6. uid = a.principal.uid => x[1] = FromClaims(a.principal.roles) /\ n = a.loads
      <3> SUFFICES ASSUME uid = a.principal.uid PROVE x[1] = FromClaims(a.principal.roles) /\ n = a.loads
        OBVIOUS
      <3>1. Route(a.principal, uid) = "principal"
        BY DEF Route
      <3>2. x = <<FromClaims(a.principal.roles), FALSE>>
        BY <3>1 DEF Resolved
      <3> QED BY <3>1, <3>2
    <2> HIDE DEF n
    <2>7. g.failed \in BOOLEAN
      BY <1>1, <2>2, <2>5
    <2> QED BY <1>3, <2>2, <2>3, <2>5, <2>6, <2>7
  <1> QED BY <1>2, <1>3

-----------------------------------------------------------------------------
(* Steps of one request.                                                   *)

\* A request that goes on to its handler.
LEMMA ProceedLemma ==
    ASSUME NEW P, NEW a, Good(a, P), ~a.failed,
           a.decl = "public" \/ (a.pc = "eval" /\ a.todo = {} /\ CedarAllows(a))
    PROVE  Good([a EXCEPT !.pc = "done", !.code = 200], P)
  <1> DEFINE b == [a EXCEPT !.pc = "done", !.code = 200]
  <1>1. a \in Record
    BY DEF Good
  <1>2. /\ b.pc = "done" /\ b.code = 200 /\ b.decl = a.decl /\ b.resource = a.resource
        /\ b.principal = a.principal /\ b.cache = a.cache /\ b.failed = a.failed /\ b.todo = a.todo
        /\ b.applied = a.applied /\ b.seen = a.seen /\ b.loads = a.loads
    BY <1>1 DEF Record
  <1>3. b \in Record
    <2>1. PICK code \in Codes : code = 200
      BY DEF Codes
    <2>2. "done" \in Phases
      BY DEF Phases
    <2>3. b = [a EXCEPT !.pc = "done", !.code = code]
      BY <2>1
    <2> HIDE DEF b
    <2> QED BY <1>1, <2>2, <2>3 DEF Record
  <1> HIDE DEF b
  <1>4. FreshInv(b) /\ PrincipalInv(b) /\ CacheInv(b)
    BY <1>2 DEF Good, FreshInv, PrincipalInv, CacheInv
  <1>5. Judged(b) => a.pc = "eval" /\ a.todo = {} /\ CedarAllows(a) /\ Judged(a)
    BY <1>2 DEF Judged
  <1>6. \A p : Reads(b, p) = Reads(a, p) /\ \A e : Applies(b, p, e) <=> Applies(a, p, e)
    BY <1>2 DEF Reads, Applies
  <1>7. EvalInv(b, P)
    BY <1>2, <1>5, <1>6 DEF Good, EvalInv
  <1>8. DoneInv(b)
    <2>1. CedarAllows(b) <=> CedarAllows(a)
      BY <1>2 DEF CedarAllows
    <2> QED BY <1>2, <1>5, <2>1 DEF DoneInv
  <1> QED BY <1>3, <1>4, <1>7, <1>8 DEF Good, b

\* One policy is evaluated.
LEMMA EvalLemma ==
    ASSUME facts \in [Entities -> {"missing", "open", "completed"}],
           NEW P \in SUBSET AnyPolicy, NEW a, Good(a, P), a.pc = "eval", NEW policy \in a.todo,
           NEW g \in Get(a, Reads(a, policy))
    PROVE  Good([a EXCEPT !.todo = @ \ {policy}, !.cache = g.cache, !.failed = g.failed, !.loads = g.loads,
                          !.seen = @ \cup {<<Reads(a, policy), g.entity>>},
                          !.applied = IF Applies(a, policy, g.entity) THEN @ \cup {policy} ELSE @], P)
  <1> DEFINE uid == Reads(a, policy)
             t == a.todo \ {policy}
             s == a.seen \cup {<<uid, g.entity>>}
             ap == IF Applies(a, policy, g.entity) THEN a.applied \cup {policy} ELSE a.applied
             b == [a EXCEPT !.todo = t, !.cache = g.cache, !.failed = g.failed, !.loads = g.loads,
                            !.seen = s, !.applied = ap]
  <1>1. a \in Record /\ a.todo \subseteq P /\ a.applied \subseteq P /\ policy \in AnyPolicy
    BY DEF Good, EvalInv
  <1>2. /\ a.principal.uid \in Entities /\ a.resource \in Entities /\ a.principal.roles \in SUBSET Roles
        /\ a.cache \in [Entities -> EntityValue] /\ a.loads \in Nat /\ a.seen \subseteq Entities \X EntityValue
    BY <1>1, EntityLemma DEF Record, Principals, Caches, Readings
  <1>3. uid \in {a.principal.uid, a.resource} /\ \A p : Reads(a, p) \in {a.principal.uid, a.resource}
    BY DEF Reads
  <1>4. uid \in Entities
    BY <1>2, <1>3
  <1> HIDE DEF uid
  <1>5. /\ g.entity \in EntityValue /\ g.entity # Uncached
        /\ g.cache = [a.cache EXCEPT ![uid] = g.entity]
        /\ a.cache[uid] # Uncached => g.entity = a.cache[uid] /\ g.loads = a.loads
        /\ g.failed \in BOOLEAN /\ g.loads \in Nat /\ g.loads <= a.loads + 1
        /\ uid = a.principal.uid => g.entity = FromClaims(a.principal.roles) /\ g.loads = a.loads
    <2>1. uid = a.principal.uid => a.cache[uid] \in {Uncached, FromClaims(a.principal.roles)}
      BY DEF Good, PrincipalInv
    <2>2. g \in Get(a, uid)
      BY DEF uid
    <2> QED BY <1>1, <1>4, <2>1, <2>2, GetLemma
  <1>6. /\ g.cache \in [Entities -> EntityValue] /\ g.cache[uid] = g.entity
        /\ \A e \in Entities : e # uid => g.cache[e] = a.cache[e]
        /\ \A e \in Entities : a.cache[e] # Uncached => g.cache[e] = a.cache[e]
    BY <1>2, <1>4, <1>5
  <1>7. s \subseteq Entities \X EntityValue /\ t \subseteq AnyPolicy /\ ap \subseteq AnyPolicy
    BY <1>1, <1>2, <1>4, <1>5 DEF Record
  <1>8. b \in Record
    <2>1. t \in PolicySets /\ ap \in PolicySets /\ s \in Readings /\ g.cache \in Caches
      BY <1>6, <1>7 DEF PolicySets, Readings, Caches
    <2> HIDE DEF t, s, ap
    <2> QED BY <1>1, <1>5, <2>1 DEF Record
  <1>9. /\ b.pc = "eval" /\ b.decl = a.decl /\ b.resource = a.resource /\ b.principal = a.principal
        /\ b.cache = g.cache /\ b.failed = g.failed /\ b.todo = t /\ b.applied = ap /\ b.seen = s
        /\ b.loads = g.loads /\ b.code = a.code
    <2> HIDE DEF t, s, ap
    <2> QED BY <1>1 DEF Record
  <1>10. [a EXCEPT !.todo = @ \ {policy}, !.cache = g.cache, !.failed = g.failed, !.loads = g.loads,
                   !.seen = @ \cup {<<Reads(a, policy), g.entity>>},
                   !.applied = IF Applies(a, policy, g.entity) THEN @ \cup {policy} ELSE @] = b
    BY <1>1 DEF Record, uid
  <1> HIDE DEF b, t, s, ap
  <1>11. \A p : Reads(b, p) = Reads(a, p) /\ \A e : Applies(b, p, e) <=> Applies(a, p, e)
    BY <1>9 DEF Reads, Applies
  <1>12. FreshInv(b) /\ DoneInv(b)
    BY <1>9 DEF FreshInv, DoneInv
  <1>13. PrincipalInv(b)
    <2>1. CASE uid = a.principal.uid
      BY <1>5, <1>6, <1>9, <2>1 DEF Good, PrincipalInv
    <2>2. CASE uid # a.principal.uid
      BY <1>2, <1>6, <1>9, <2>2 DEF Good, PrincipalInv
    <2> QED BY <2>1, <2>2
  <1>14. CacheInv(b)
    <2>1. ASSUME NEW x \in s PROVE x[2] = g.cache[x[1]] /\ x[2] # Uncached
      <3>1. CASE x \in a.seen
        <4>1. x[2] = a.cache[x[1]] /\ x[2] # Uncached /\ x[1] \in Entities
          BY <1>2, <3>1 DEF Good, CacheInv
        <4> QED BY <1>6, <4>1
      <3>2. CASE x = <<uid, g.entity>>
        BY <1>5, <1>6, <3>2
      <3> QED BY <2>1, <3>1, <3>2 DEF s
    <2>2. a.loads <= (IF a.cache[a.resource] # Uncached /\ a.resource # a.principal.uid THEN 1 ELSE 0)
      BY DEF Good, CacheInv
    <2>3. g.loads <= (IF g.cache[a.resource] # Uncached /\ a.resource # a.principal.uid THEN 1 ELSE 0)
      <3>1. CASE a.cache[uid] # Uncached \/ uid = a.principal.uid
        <4>1. g.loads = a.loads
          BY <1>5, <3>1
        <4>2. a.cache[a.resource] # Uncached => g.cache[a.resource] # Uncached
          BY <1>2, <1>6
        <4> QED BY <1>2, <1>5, <2>2, <4>1, <4>2
      <3>2. CASE a.cache[uid] = Uncached /\ uid # a.principal.uid
        <4>1. uid = a.resource
          BY <1>3, <3>2
        <4>2. a.loads <= 0 /\ g.cache[a.resource] # Uncached /\ a.resource # a.principal.uid
          BY <1>5, <1>6, <2>2, <3>2, <4>1
        <4>3. g.loads <= 1
          BY <1>2, <1>5, <4>2
        <4> QED BY <4>2, <4>3
      <3> QED BY <3>1, <3>2
    <2> QED BY <1>9, <2>1, <2>3 DEF CacheInv
  <1>15. EvalInv(b, P)
    <2>1. Judged(a)
      BY DEF Judged
    <2>2. /\ a.decl \in {"todo", "other"} /\ a.applied \subseteq P \ a.todo
          /\ \A p \in P \ a.todo :
                LET e == a.cache[Reads(a, p)]
                IN <<Reads(a, p), e>> \in a.seen /\ (p \in a.applied <=> Applies(a, p, e))
      BY <2>1 DEF Good, EvalInv
    <2>3. t \subseteq P /\ ap \subseteq P /\ ap \subseteq P \ t
      BY <1>1, <2>2 DEF t, ap
    <2>4. ASSUME NEW p \in P \ t
          PROVE  LET e == g.cache[Reads(a, p)]
                 IN <<Reads(a, p), e>> \in s /\ (p \in ap <=> Applies(a, p, e))
      <3>1. CASE p = policy
        <4>1. g.cache[Reads(a, p)] = g.entity /\ Reads(a, p) = uid /\ policy \notin a.applied
          BY <1>6, <2>2, <3>1 DEF uid
        <4> QED BY <3>1, <4>1 DEF s, ap
      <3>2. CASE p # policy
        <4>1. p \in P \ a.todo
          BY <3>2 DEF t
        <4> DEFINE e == a.cache[Reads(a, p)]
        <4>2. <<Reads(a, p), e>> \in a.seen /\ (p \in a.applied <=> Applies(a, p, e))
          BY <2>2, <4>1
        <4>3. g.cache[Reads(a, p)] = e
          <5>1. \A x \in a.seen : x[2] = a.cache[x[1]] /\ x[2] # Uncached
            BY DEF Good, CacheInv
          <5>2. e # Uncached
            BY <4>2, <5>1
          <5>3. Reads(a, p) \in Entities
            BY <1>2, <1>3
          <5> QED BY <1>6, <5>2, <5>3
        <4> QED BY <3>2, <4>2, <4>3 DEF s, ap
      <3> QED BY <3>1, <3>2
    <2> QED BY <1>9, <1>11, <2>2, <2>3, <2>4 DEF EvalInv
  <1> QED BY <1>8, <1>10, <1>12, <1>13, <1>14, <1>15 DEF Good

\* A request that is new, and one that is authenticated or about to be evaluated.
LEMMA FreshLemma ==
    ASSUME NEW P, NEW a \in Record, a.pc \in {"idle", "authn", "authz"}, FreshInv(a),
           a.principal.uid = Caller.anonymous => a.principal.roles = {}
    PROVE  Good(a, P)
  <1>1. a.principal.uid \in Entities /\ a.resource \in Entities
    BY EntityLemma DEF Record, Principals
  <1>2. /\ a.cache = NewGetter /\ a.failed = FALSE /\ a.todo = {} /\ a.applied = {}
        /\ a.seen = {} /\ a.loads = 0 /\ a.code = 0
    BY DEF FreshInv
  <1>3. \A e \in Entities : a.cache[e] = Uncached
    BY <1>2 DEF NewGetter
  <1>4. PrincipalInv(a) /\ CacheInv(a)
    BY <1>1, <1>2, <1>3 DEF PrincipalInv, CacheInv
  <1>5. EvalInv(a, P) /\ DoneInv(a)
    BY <1>2 DEF EvalInv, DoneInv, Judged
  <1> QED BY <1>4, <1>5 DEF Good

LEMMA NoAuthLemma == NoAuth \in Record
  <1>1. NewGetter \in Caches
    BY ValueLemma DEF NewGetter, Caches
  <1>2. PICK who \in Principals : who = [uid |-> Caller.anonymous, roles |-> {}]
    BY EntityLemma DEF Principals
  <1>3. "none" \in Credentials /\ "undeclared" \in Declarations /\ Todo \in Resources
    BY EntityLemma DEF Credentials, Declarations
  <1>4. "idle" \in Phases /\ 0 \in Codes /\ {} \in PolicySets /\ {} \in Readings
    BY DEF Phases, Codes, PolicySets, Readings
  <1> QED BY <1>1, <1>2, <1>3, <1>4 DEF NoAuth, Record

LEMMA NoAuthGood == ASSUME NEW P PROVE Good(NoAuth, P)
  <1>1. NoAuth.pc = "idle" /\ FreshInv(NoAuth) /\ NoAuth.principal.roles = {}
    BY DEF NoAuth, FreshInv
  <1> QED BY <1>1, NoAuthLemma, FreshLemma

-----------------------------------------------------------------------------
(* The actions.                                                            *)

\* Only an engine that is ready serves.
LEMMA ServeReady ==
    ASSUME Inv, NEW r \in Requests, Serve(r)
    PROVE  /\ engine = "ready" /\ auth[r] \in Record /\ Good(auth[r], policies)
           /\ policies \in SUBSET AnyPolicy
           /\ facts \in [Entities -> {"missing", "open", "completed"}]
           /\ keys.roles \in SUBSET Roles
  <1>1. engine = "ready"
    <2> SUFFICES ASSUME engine # "ready" PROVE FALSE
      OBVIOUS
    <2>1. auth[r] = NoAuth
      BY DEF Inv, EngineInv
    <2>2. auth[r].pc = "idle"
      BY <2>1 DEF NoAuth
    <2> QED BY <2>2 DEF Serve, Arrive, Authenticate, Authorize, EvalPolicy, Decide
  <1>2. policies \in SUBSET AnyPolicy
    BY <1>1 DEF Inv, EngineInv, Supplied
  <1> QED BY <1>1, <1>2 DEF Inv

LEMMA StepInv ==
    ASSUME Inv, engine = "ready", NEW r \in Requests, NEW a, Good(a, policies), Step(r, a)
    PROVE  Inv'
  <1>1. /\ auth' = [auth EXCEPT ![r] = a] /\ contributions' = contributions /\ policyDir' = policyDir
        /\ engine' = engine /\ policies' = policies /\ keys' = keys /\ facts' = facts
    BY DEF Step, setup
  <1>2. a \in Record
    BY DEF Good
  <1>3. auth' \in [Requests -> Record] /\ \A q \in Requests : Good(auth'[q], policies)
    BY <1>1, <1>2 DEF Inv
  <1>4. Supplied' = Supplied
    BY <1>1 DEF Supplied
  <1>5. EngineInv'
    BY <1>1, <1>4 DEF Inv, EngineInv
  <1> QED BY <1>1, <1>3, <1>5 DEF Inv

\* A refusal: a request whose load failed is refused with a 500.
LEMMA RefuseStep ==
    ASSUME Inv, engine = "ready", NEW r \in Requests, NEW status \in Codes, status # 200,
           ~auth[r].failed \/ status = 500, Refuse(r, status)
    PROVE  Inv'
  <1> DEFINE a == auth[r]
             b == [a EXCEPT !.pc = "done", !.code = status]
  <1>1. a \in Record /\ Good(a, policies)
    BY DEF Inv
  <1>2. /\ b.pc = "done" /\ b.code = status /\ b.decl = a.decl /\ b.resource = a.resource
        /\ b.principal = a.principal /\ b.cache = a.cache /\ b.failed = a.failed /\ b.todo = a.todo
        /\ b.applied = a.applied /\ b.seen = a.seen /\ b.loads = a.loads
    BY <1>1 DEF Record
  <1>3. b \in Record
    <2>1. "done" \in Phases
      BY DEF Phases
    <2> QED BY <1>1, <2>1 DEF Record
  <1>4. Step(r, b) /\ (~a.failed \/ status = 500)
    BY DEF Refuse
  <1> HIDE DEF a, b
  <1>5. FreshInv(b) /\ PrincipalInv(b) /\ CacheInv(b)
    BY <1>1, <1>2 DEF Good, FreshInv, PrincipalInv, CacheInv
  <1>6. ~Judged(b)
    BY <1>2 DEF Judged
  <1>7. EvalInv(b, policies) /\ DoneInv(b)
    BY <1>1, <1>2, <1>4, <1>6 DEF Good, EvalInv, DoneInv
  <1>8. Good(b, policies)
    BY <1>3, <1>5, <1>7 DEF Good
  <1> QED BY <1>4, <1>8, StepInv

LEMMA ArriveStep ==
    ASSUME Inv, NEW r \in Requests, Arrive(r)
    PROVE  Inv'
  <1>1. engine = "ready"
    BY DEF Arrive
  <1>2. PICK cred \in Credentials, decl \in Declarations, resource \in Resources :
           Step(r, [NoAuth EXCEPT !.pc = "authn", !.cred = cred, !.decl = decl, !.resource = resource])
    BY DEF Arrive
  <1> DEFINE a == [NoAuth EXCEPT !.pc = "authn", !.cred = cred, !.decl = decl, !.resource = resource]
  <1>3. a \in Record
    <2>1. "authn" \in Phases
      BY DEF Phases
    <2> QED BY <2>1, NoAuthLemma DEF Record
  <1>4. a.pc = "authn" /\ a.principal.roles = {} /\ FreshInv(a)
    BY DEF NoAuth, FreshInv
  <1> HIDE DEF a
  <1>5. Good(a, policies)
    BY <1>3, <1>4, FreshLemma
  <1> QED BY <1>1, <1>2, <1>5, StepInv DEF a

LEMMA AuthenticateStep ==
    ASSUME Inv, NEW r \in Requests, Authenticate(r)
    PROVE  Inv'
  <1>1. /\ engine = "ready" /\ auth[r] \in Record /\ Good(auth[r], policies)
        /\ keys.roles \in SUBSET Roles
    BY ServeReady DEF Serve
  <1>2. auth[r].pc = "authn" /\ FreshInv(auth[r]) /\ ~auth[r].failed
    BY <1>1 DEF Authenticate, Good, FreshInv
  <1>3. ASSUME NEW uid \in Callers, NEW roles \in SUBSET Roles, uid = Caller.anonymous => roles = {},
               Step(r, [auth[r] EXCEPT !.pc = "authz", !.principal = [uid |-> uid, roles |-> roles]])
        PROVE  Inv'
    <2> DEFINE who == [uid |-> uid, roles |-> roles]
               a == [auth[r] EXCEPT !.pc = "authz", !.principal = who]
    <2>1. a \in Record
      <3>1. "authz" \in Phases /\ who \in Principals
        BY DEF Phases, Principals
      <3> HIDE DEF who
      <3> QED BY <1>1, <3>1 DEF Record
    <2>2. /\ a.pc = "authz" /\ a.principal = who /\ a.cache = auth[r].cache
          /\ a.failed = auth[r].failed /\ a.todo = auth[r].todo /\ a.applied = auth[r].applied
          /\ a.seen = auth[r].seen /\ a.loads = auth[r].loads /\ a.code = auth[r].code
      <3> HIDE DEF who
      <3> QED BY <1>1 DEF Record
    <2>3. a.principal.uid = uid /\ a.principal.roles = roles
      BY <2>2
    <2> HIDE DEF a
    <2>4. FreshInv(a)
      BY <1>2, <2>2 DEF FreshInv
    <2>5. Good(a, policies)
      BY <1>3, <2>1, <2>2, <2>3, <2>4, FreshLemma
    <2> QED BY <1>1, <1>3, <2>5, StepInv DEF a
  <1>4. CASE Refuse(r, 401)
    <2>1. PICK status \in Codes : status = 401
      BY DEF Codes
    <2>2. Refuse(r, status)
      BY <1>4, <2>1
    <2> QED BY <1>1, <1>2, <2>1, <2>2, RefuseStep
  <1>5. Caller.anonymous \in Callers /\ Caller.key \in Callers /\ Caller.service \in Callers
        /\ Caller.anonymous # Caller.key /\ Caller.anonymous # Caller.service
    BY EntityLemma
  <1> DEFINE As(uid, roles) ==
               Step(r, [auth[r] EXCEPT !.pc = "authz", !.principal = [uid |-> uid, roles |-> roles]])
  <1>6. \/ As(Caller.anonymous, {}) \/ As(Caller.key, keys.roles)
        \/ \E roles \in SUBSET Roles : As(Caller.service, roles)
        \/ Refuse(r, 401)
    BY DEF Authenticate
  <1>7. CASE As(Caller.anonymous, {})
    <2>1. {} \in SUBSET Roles
      OBVIOUS
    <2> QED BY <1>3, <1>5, <1>7, <2>1, Zenon
  <1>8. CASE As(Caller.key, keys.roles)
    BY <1>1, <1>3, <1>5, <1>8
  <1>9. CASE \E roles \in SUBSET Roles : As(Caller.service, roles)
    BY <1>3, <1>5, <1>9
  <1> QED BY <1>4, <1>6, <1>7, <1>8, <1>9

LEMMA AuthorizeStep ==
    ASSUME Inv, NEW r \in Requests, Authorize(r)
    PROVE  Inv'
  <1>1. /\ engine = "ready" /\ auth[r] \in Record /\ Good(auth[r], policies)
        /\ policies \in SUBSET AnyPolicy
    BY ServeReady DEF Serve
  <1>2. auth[r].pc = "authz" /\ FreshInv(auth[r]) /\ ~auth[r].failed /\ auth[r].decl \in Declarations
    BY <1>1 DEF Authorize, Good, FreshInv, Record
  <1>3. CASE auth[r].decl = "undeclared"
    <2>1. Refuse(r, 403)
      BY <1>3 DEF Authorize
    <2>2. PICK status \in Codes : status = 403
      BY DEF Codes
    <2>3. Refuse(r, status)
      BY <2>1, <2>2
    <2> QED BY <1>1, <1>2, <2>2, <2>3, RefuseStep
  <1>4. CASE auth[r].decl = "public"
    <2>1. Proceed(r)
      BY <1>4 DEF Authorize
    <2>2. Good([auth[r] EXCEPT !.pc = "done", !.code = 200], policies)
      BY <1>1, <1>2, <1>4, ProceedLemma
    <2> QED BY <1>1, <2>1, <2>2, StepInv DEF Proceed
  <1>5. CASE auth[r].decl \in {"todo", "other"}
    <2> DEFINE a == [auth[r] EXCEPT !.pc = "eval", !.todo = policies]
    <2>1. Step(r, a)
      BY <1>5 DEF Authorize
    <2>2. a \in Record
      <3>1. "eval" \in Phases /\ policies \in PolicySets
        BY <1>1 DEF Phases, PolicySets
      <3> QED BY <1>1, <3>1 DEF Record
    <2>3. /\ a.pc = "eval" /\ a.principal = auth[r].principal /\ a.cache = auth[r].cache
          /\ a.todo = policies /\ a.applied = auth[r].applied /\ a.resource = auth[r].resource
          /\ a.seen = auth[r].seen /\ a.loads = auth[r].loads /\ a.decl = auth[r].decl
      BY <1>1 DEF Record
    <2> HIDE DEF a
    <2>4. FreshInv(a) /\ DoneInv(a)
      BY <2>3 DEF FreshInv, DoneInv
    <2>5. PrincipalInv(a) /\ CacheInv(a)
      BY <1>1, <2>3 DEF Good, PrincipalInv, CacheInv
    <2>6. EvalInv(a, policies)
      BY <1>2, <1>5, <2>3 DEF EvalInv, FreshInv
    <2>7. Good(a, policies)
      BY <2>2, <2>4, <2>5, <2>6 DEF Good
    <2> QED BY <1>1, <2>1, <2>7, StepInv
  <1> QED BY <1>2, <1>3, <1>4, <1>5 DEF Declarations

LEMMA EvalStep ==
    ASSUME Inv, NEW r \in Requests, EvalPolicy(r)
    PROVE  Inv'
  <1>1. /\ engine = "ready" /\ Good(auth[r], policies) /\ policies \in SUBSET AnyPolicy
        /\ facts \in [Entities -> {"missing", "open", "completed"}]
    BY ServeReady DEF Serve
  <1>2. auth[r].pc = "eval"
    BY DEF EvalPolicy
  <1>3. PICK policy \in auth[r].todo : \E g \in Get(auth[r], Reads(auth[r], policy)) :
          Step(r, [auth[r] EXCEPT
                !.todo = @ \ {policy}, !.cache = g.cache, !.failed = g.failed, !.loads = g.loads,
                !.seen = @ \cup {<<Reads(auth[r], policy), g.entity>>},
                !.applied = IF Applies(auth[r], policy, g.entity) THEN @ \cup {policy} ELSE @])
    BY DEF EvalPolicy
  <1>4. PICK g \in Get(auth[r], Reads(auth[r], policy)) :
          Step(r, [auth[r] EXCEPT
                !.todo = @ \ {policy}, !.cache = g.cache, !.failed = g.failed, !.loads = g.loads,
                !.seen = @ \cup {<<Reads(auth[r], policy), g.entity>>},
                !.applied = IF Applies(auth[r], policy, g.entity) THEN @ \cup {policy} ELSE @])
    BY <1>3
  <1> DEFINE a == auth[r]
             b == [a EXCEPT !.todo = @ \ {policy}, !.cache = g.cache, !.failed = g.failed, !.loads = g.loads,
                            !.seen = @ \cup {<<Reads(a, policy), g.entity>>},
                            !.applied = IF Applies(a, policy, g.entity) THEN @ \cup {policy} ELSE @]
  <1>5. Good(b, policies)
    <2>1. Good(a, policies) /\ a.pc = "eval" /\ policy \in a.todo /\ g \in Get(a, Reads(a, policy))
      BY <1>1, <1>2
    <2> HIDE DEF a
    <2> QED BY <1>1, <2>1, EvalLemma
  <1>6. Step(r, b)
    BY <1>4
  <1> HIDE DEF b
  <1> QED BY <1>1, <1>5, <1>6, StepInv

LEMMA DecideStep ==
    ASSUME Inv, NEW r \in Requests, Decide(r)
    PROVE  Inv'
  <1>1. engine = "ready" /\ Good(auth[r], policies)
    BY ServeReady DEF Serve
  <1>2. auth[r].pc = "eval" /\ auth[r].todo = {}
    BY DEF Decide
  <1>3. ASSUME NEW status \in Codes, status # 200, auth[r].failed => status = 500, Refuse(r, status)
        PROVE  Inv'
    BY <1>1, <1>3, RefuseStep
  <1>4. CASE auth[r].failed
    <2>1. Refuse(r, 500)
      BY <1>4 DEF Decide
    <2>2. PICK status \in Codes : status = 500
      BY DEF Codes
    <2>3. Refuse(r, status)
      BY <2>1, <2>2
    <2> QED BY <1>3, <2>2, <2>3
  <1>5. CASE ~auth[r].failed /\ CedarAllows(auth[r])
    <2>1. Proceed(r)
      BY <1>5 DEF Decide
    <2>2. Good([auth[r] EXCEPT !.pc = "done", !.code = 200], policies)
      BY <1>1, <1>2, <1>5, ProceedLemma
    <2> QED BY <1>1, <2>1, <2>2, StepInv DEF Proceed
  <1>6. CASE ~auth[r].failed /\ ~CedarAllows(auth[r])
    <2>1. Refuse(r, Deny(auth[r]))
      BY <1>6 DEF Decide
    <2>2. Deny(auth[r]) \in Codes /\ Deny(auth[r]) # 200
      BY DEF Deny, Codes
    <2> QED BY <1>3, <1>6, <2>1, <2>2
  <1> QED BY <1>4, <1>5, <1>6

LEMMA NewStep == ASSUME Inv, New PROVE Inv'
  <1> DEFINE base == LoadBasePolicies(policyDir)
             merged == MergePolicies(base.doc, contributions)
             accepted == ValidateTypeOwnership(contributions) /\ base.ok /\ "malformed" \notin merged
  <1>1. /\ engine = "none" /\ engine' = (IF accepted THEN "ready" ELSE "refused")
        /\ policies' = (IF accepted THEN merged ELSE {})
        /\ contributions' = contributions /\ policyDir' = policyDir /\ keys' = keys /\ facts' = facts
        /\ auth' = auth
    BY DEF New
  <1>2. contributions \in Lists /\ policyDir \in Dirs /\ auth = [r \in Requests |-> NoAuth]
    BY <1>1 DEF Inv, EngineInv
  <1>3. accepted => merged = Supplied
    BY <1>2, AcceptedLemma
  <1>4. Supplied' = Supplied
    BY <1>1 DEF Supplied
  <1>5. ValidateTypeOwnership(contributions)' <=> ValidateTypeOwnership(contributions)
    BY <1>1 DEF ValidateTypeOwnership
  <1> HIDE DEF merged, base
  <1>6. EngineInv'
    <2>1. CASE accepted
      BY <1>1, <1>2, <1>3, <1>4, <1>5, <2>1 DEF EngineInv
    <2>2. CASE ~accepted
      BY <1>1, <1>2, <2>2 DEF EngineInv
    <2> QED BY <2>1, <2>2
  <1>7. \A r \in Requests : auth'[r] = NoAuth
    BY <1>1, <1>2
  <1>8. \A r \in Requests : Good(auth'[r], policies')
    BY <1>7, NoAuthGood
  <1>9. auth' \in [Requests -> Record]
    BY <1>1 DEF Inv
  <1> QED BY <1>1, <1>6, <1>8, <1>9 DEF Inv

LEMMA WorldStep == ASSUME Inv, ChangeKey \/ ChangeFact PROVE Inv'
  <1>1. /\ contributions' = contributions /\ policyDir' = policyDir /\ engine' = engine
        /\ policies' = policies /\ auth' = auth
    BY DEF ChangeKey, ChangeFact, setup
  <1>2. Supplied' = Supplied
    BY <1>1 DEF Supplied
  <1>3. EngineInv'
    BY <1>1, <1>2 DEF Inv, EngineInv
  <1>4. keys' \in [known : BOOLEAN, roles : SUBSET Roles]
    <2>1. CASE ChangeKey
      <3>1. PICK roles \in SUBSET Roles :
               keys' \in {[known |-> TRUE, roles |-> roles], [known |-> FALSE, roles |-> {}]}
        BY <2>1 DEF ChangeKey
      <3>2. CASE keys' = [known |-> TRUE, roles |-> roles]
        BY <3>2
      <3>3. CASE keys' = [known |-> FALSE, roles |-> {}]
        BY <3>3
      <3> QED BY <3>1, <3>2, <3>3
    <2>2. CASE ChangeFact
      BY <2>2 DEF ChangeFact, Inv
    <2> QED BY <2>1, <2>2
  <1>5. facts' \in [Entities -> {"missing", "open", "completed"}]
    BY DEF ChangeKey, ChangeFact, Inv
  <1> QED BY <1>1, <1>3, <1>4, <1>5 DEF Inv

-----------------------------------------------------------------------------
(* The theorems.                                                           *)

LEMMA InitInv == Init => Inv
  <1> SUFFICES ASSUME Init PROVE Inv
    OBVIOUS
  <1>1. EngineInv
    BY DEF Init, EngineInv
  <1>2. keys \in [known : BOOLEAN, roles : SUBSET Roles]
    <2>1. {"user"} \in SUBSET Roles
      BY DEF Roles
    <2> QED BY <2>1 DEF Init
  <1>3. facts \in [Entities -> {"missing", "open", "completed"}]
    BY DEF Init
  <1>4. auth \in [Requests -> Record] /\ \A r \in Requests : auth[r] = NoAuth
    BY NoAuthLemma DEF Init
  <1> QED BY <1>1, <1>2, <1>3, <1>4, NoAuthGood DEF Inv

LEMMA NextInv == Inv /\ [Next]_vars => Inv'
  <1> SUFFICES ASSUME Inv, [Next]_vars PROVE Inv'
    OBVIOUS
  <1>1. CASE New \/ ChangeKey \/ ChangeFact
    BY <1>1, NewStep, WorldStep
  <1>2. ASSUME NEW r \in Requests, Serve(r) PROVE Inv'
    BY <1>2, ArriveStep, AuthenticateStep, AuthorizeStep, EvalStep, DecideStep DEF Serve
  <1>3. CASE UNCHANGED vars
    <2>1. /\ contributions' = contributions /\ policyDir' = policyDir /\ engine' = engine
          /\ policies' = policies /\ auth' = auth /\ keys' = keys /\ facts' = facts
      BY <1>3 DEF vars, setup
    <2>2. Supplied' = Supplied
      BY <2>1 DEF Supplied
    <2>3. EngineInv'
      BY <2>1, <2>2 DEF Inv, EngineInv
    <2> QED BY <2>1, <2>3 DEF Inv
  <1> QED BY <1>1, <1>2, <1>3 DEF Next

\* The inductive invariant: what New accepted, and what every request's record rests on.
THEOREM Invariance == Spec => []Inv
  <1> QED BY InitInv, NextInv, PTL DEF Spec

\* Every variable keeps its type: the files of a policy directory are merged into
\* policies, and an engine that runs has no malformed one.
THEOREM TypeCorrect == Spec => []TypeOK
  <1>1. Inv => TypeOK
    <2> SUFFICES ASSUME Inv PROVE TypeOK
      OBVIOUS
    <2>1. policies \subseteq AnyPolicy
      BY DEF Inv, EngineInv, Supplied
    <2>2. ASSUME NEW r \in Requests
          PROVE  /\ auth[r].pc \in {"idle", "authn", "authz", "eval", "done"}
                 /\ auth[r].principal.uid \in Entities /\ auth[r].principal.roles \subseteq Roles
                 /\ auth[r].todo \subseteq policies /\ auth[r].applied \subseteq policies
                 /\ auth[r].code \in {0, 200, 401, 403, 500}
      <3>1. auth[r] \in Record /\ Good(auth[r], policies)
        BY DEF Inv
      <3>2. auth[r].pc \in {"idle", "authn", "authz", "eval", "done"}
        BY <3>1 DEF Record, Phases
      <3>3. auth[r].principal.uid \in Entities /\ auth[r].principal.roles \subseteq Roles
        BY <3>1, EntityLemma DEF Record, Principals
      <3>4. auth[r].code \in {0, 200, 401, 403, 500}
        BY <3>1 DEF Record, Codes
      <3>5. auth[r].todo \subseteq policies /\ auth[r].applied \subseteq policies
        BY <3>1 DEF Good, EvalInv
      <3> QED BY <3>2, <3>3, <3>4, <3>5
    <2>3. /\ contributions \in Lists /\ policyDir \in Dirs /\ engine \in {"none", "ready", "refused"}
          /\ facts \in [Entities -> {"missing", "open", "completed"}]
      BY DEF Inv, EngineInv
    <2> QED BY <2>1, <2>2, <2>3 DEF TypeOK
  <1> QED BY <1>1, Invariance, PTL

\* In an engine New accepted, every type a resolver claims is routed to its slice.
THEOREM RoutingAlwaysUnambiguous == Spec => []RoutingUnambiguous
  <1>1. Inv => RoutingUnambiguous
    BY RoutingLemma DEF Inv, EngineInv, RoutingUnambiguous
  <1> QED BY <1>1, Invariance, PTL

\* A request reaches its handler only if its operation is public, or every policy New
\* was given has been evaluated, one permits it and none forbids it.
THEOREM AlwaysJustified == Spec => []ProceedJustified
  <1>1. Inv => ProceedJustified
    <2> SUFFICES ASSUME Inv, NEW r \in Requests, Reached(r), auth[r].decl # "public"
                 PROVE  LET a == auth[r]
                            Role(role) == role \in Supplied \cap a.principal.roles
                                              /\ a.principal.uid # Caller.anonymous
                        IN /\ a.decl \in {"todo", "other"}
                           /\ \A p \in Supplied : \E x \in a.seen : x[1] = Reads(a, p)
                           /\ "notCompleted" \in Supplied =>
                                  <<a.resource, FromSlice("completed")>> \notin a.seen
                           /\ \/ Role("admin") \/ (Role("user") /\ a.decl = "todo")
                              \/ "onlyOpen" \in Supplied /\ <<a.resource, FromSlice("open")>> \in a.seen
      BY DEF ProceedJustified
    <2> DEFINE a == auth[r]
    <2>1. a \in Record /\ Good(a, policies) /\ a.pc = "done" /\ a.code = 200 /\ a.decl # "public"
      BY DEF Inv, Reached
    <2>2. policies = Supplied
      <3>1. engine = "ready"
        <4> SUFFICES ASSUME engine # "ready" PROVE FALSE
          OBVIOUS
        <4>1. a = NoAuth
          BY DEF Inv, EngineInv
        <4> QED BY <2>1, <4>1 DEF NoAuth
      <3> QED BY <3>1 DEF Inv, EngineInv
    <2> HIDE DEF a
    <2>3. Judged(a)
      BY <2>1 DEF Judged
    <2>4. /\ a.todo = {} /\ CedarAllows(a) /\ a.decl \in {"todo", "other"}
          /\ a.applied \subseteq policies
      BY <2>1, <2>3 DEF Good, DoneInv, EvalInv
    <2>5. \A p \in policies : /\ <<Reads(a, p), a.cache[Reads(a, p)]>> \in a.seen
                              /\ p \in a.applied <=> Applies(a, p, a.cache[Reads(a, p)])
      BY <2>1, <2>3, <2>4 DEF Good, EvalInv
    <2>6. \A x \in a.seen : x[2] = a.cache[x[1]] /\ x[2] # Uncached
      BY <2>1 DEF Good, CacheInv
    <2>7. /\ a.principal.roles \in SUBSET Roles /\ a.cache \in [Entities -> EntityValue]
          /\ a.resource \in Entities /\ a.principal.uid \in Entities
      BY <2>1, EntityLemma DEF Record, Principals, Caches
    <2>8. \A p \in Supplied : \E x \in a.seen : x[1] = Reads(a, p)
      <3> SUFFICES ASSUME NEW p \in Supplied PROVE \E x \in a.seen : x[1] = Reads(a, p)
        OBVIOUS
      <3>1. <<Reads(a, p), a.cache[Reads(a, p)]>> \in a.seen
        BY <2>2, <2>5
      <3> QED BY <3>1
    <2>9. "notCompleted" \in Supplied => <<a.resource, FromSlice("completed")>> \notin a.seen
      <3> SUFFICES ASSUME "notCompleted" \in Supplied, <<a.resource, FromSlice("completed")>> \in a.seen
                   PROVE  FALSE
        OBVIOUS
      <3>1. a.cache[a.resource] = FromSlice("completed") /\ Reads(a, "notCompleted") = a.resource
        BY <2>6 DEF Reads
      <3>2. Applies(a, "notCompleted", FromSlice("completed"))
        BY ValueLemma DEF Applies
      <3>3. "notCompleted" \in a.applied
        BY <2>2, <2>5, <3>1, <3>2
      <3> QED BY <2>4, <3>3 DEF CedarAllows
    <2>10. PICK p \in Permits : p \in a.applied /\ p \in Supplied
      BY <2>2, <2>4 DEF CedarAllows
    <2>11. Applies(a, p, a.cache[Reads(a, p)]) /\ <<Reads(a, p), a.cache[Reads(a, p)]>> \in a.seen
      BY <2>2, <2>5, <2>10
    <2>12. CASE p = "onlyOpen"
      <3>1. Reads(a, p) = a.resource
        BY <2>12 DEF Reads
      <3>2. a.cache[a.resource].status = "open"
        BY <2>11, <2>12, <3>1 DEF Applies
      <3>3. a.cache[a.resource] = FromSlice("open")
        BY <2>7, <3>2, ValueLemma
      <3>4. "onlyOpen" \in Supplied /\ <<a.resource, FromSlice("open")>> \in a.seen
        BY <2>10, <2>11, <2>12, <3>1, <3>3
      <3> QED BY <2>4, <2>8, <2>9, <3>4 DEF a
    <2>13. CASE p \in {"admin", "user"}
      <3>1. Reads(a, p) = a.principal.uid
        BY <2>13 DEF Reads
      <3>2. a.cache[a.principal.uid] # Uncached
        BY <2>6, <2>11, <3>1
      <3>3. a.cache[a.principal.uid] = FromClaims(a.principal.roles)
        BY <2>1, <3>2 DEF Good, PrincipalInv
      <3>4. a.cache[a.principal.uid].roles = a.principal.roles
        BY <2>7, <3>3, ValueLemma
      <3>5. p \in a.principal.roles /\ (p = "user" => a.decl = "todo")
        BY <2>11, <2>13, <3>1, <3>4 DEF Applies
      <3>6. a.principal.uid # Caller.anonymous
        BY <2>1, <3>5 DEF Good, PrincipalInv
      <3> QED BY <2>4, <2>8, <2>9, <2>10, <2>13, <3>5, <3>6 DEF a
    <2> QED BY <2>10, <2>12, <2>13 DEF Permits
  <1> QED BY <1>1, Invariance, PTL

\* A request whose load failed is answered 500, whatever Cedar made of the rest.
THEOREM LoadErrorAlwaysCloses == Spec => []LoadErrorFailsClosed
  <1>1. Inv => LoadErrorFailsClosed
    BY DEF Inv, Good, DoneInv, LoadErrorFailsClosed
  <1> QED BY <1>1, Invariance, PTL

\* The policies of one evaluation see one version of every entity, loaded once.
THEOREM AlwaysOneSnapshot == Spec => []OneSnapshot
  <1>1. Inv => OneSnapshot
    <2> SUFFICES ASSUME Inv, NEW r \in Requests
                 PROVE  /\ \A x, y \in auth[r].seen : x[1] = y[1] => x[2] = y[2]
                        /\ auth[r].loads <= 1
      BY DEF OneSnapshot
    <2>1. CacheInv(auth[r]) /\ auth[r].loads \in Nat
      BY DEF Inv, Good, Record
    <2> QED BY <2>1 DEF CacheInv
  <1> QED BY <1>1, Invariance, PTL

\* The principal's entity comes from this request's claims, also when a slice owns its type.
THEOREM PrincipalNeverShadowed == Spec => []PrincipalNotShadowed
  <1>1. Inv => PrincipalNotShadowed
    BY DEF Inv, Good, CacheInv, PrincipalInv, PrincipalNotShadowed
  <1> QED BY <1>1, Invariance, PTL

=============================================================================
