------------------------- MODULE HttpPipelineProofs -------------------------
(***************************************************************************)
(* Proofs about HttpPipeline, for any finite set of requests, any set of   *)
(* configurations and any panics: the gauge, the gates before a handler,   *)
(* the access line and the metric, and how panics and deadlines end.       *)
(*                                                                         *)
(* Requests share nothing but the gauge, so the invariant is a property of *)
(* one request's record, plus the count.                                   *)
(***************************************************************************)
EXTENDS HttpPipeline, FiniteSetTheorems, SequenceTheorems, TLAPS

Gates == {"ratelimit", "authn", "authz"}
Names == {"recoverer", "requestlog", "cors", "metrics", "timeout", "handler", "raw"} \cup Gates
Depth == Len(Stack)          \* where Timeout is; Metrics is one further out

Record == [kind : Kinds, chain : Seq(Names), depth : Nat, dir : {"idle", "in", "out", "done", "aborted"},
           panic : Panics \cup {"none"}, wire : Statuses, bodies : 0..3, passed : Seq(Gates),
           ran : BOOLEAN, stuck : BOOLEAN, armed : BOOLEAN, expired : BOOLEAN,
           logged : Seq(Statuses), metered : Seq(Statuses), scope : {"none", "request", "base"}]

\* Where a request is: its chain is the one of its kind, a preflight gets no further
\* than CORS.
PlaceInv(q) ==
    /\ q.dir # "idle" => q.chain = Chain(q.kind)
    /\ q.dir \in {"in", "out"} => q.depth \in 1..Len(q.chain)
    /\ q.dir \in {"done", "aborted"} => q.depth = 0
    /\ cfg.cors /\ q.kind = "preflight" => q.depth <= 3

\* What it has passed on its way in: the gates above its depth, all of them once the
\* handler runs.
PassedInv(q) ==
    /\ q.dir \in {"idle", "in"} =>
          /\ Len(q.passed) = (IF q.dir = "in" /\ q.depth > Depth THEN q.depth - Depth - 1 ELSE 0)
          /\ \A i \in DOMAIN q.passed : q.passed[i] = q.chain[Depth + i]
    /\ q.ran => q.passed = Baked /\ (q.dir = "in" => q.chain[q.depth] = "handler")

\* What it has written: nothing on the way in, then a response unless the handler
\* panicked, and at most one more for Timeout and one for Recoverer.
WrittenInv(q) ==
    /\ q.dir \in {"idle", "in"} => q.bodies = 0 /\ q.wire = 0 /\ q.panic = "none"
    /\ q.dir = "out" => q.wire # 0 \/ q.panic # "none"
    /\ q.dir \in {"idle", "in", "out"} => q.scope = "none"
    /\ q.dir = "out" => q.bodies <= (IF q.depth >= Depth THEN 1 ELSE 2)
    /\ q.dir \in {"out", "done"} /\ ~q.expired /\ q.panic = "none" => q.bodies <= 1
    /\ q.dir = "done" => /\ q.panic # "abort" /\ q.wire # 0
                         /\ q.scope # "none" <=> q.panic = "panic"
    /\ q.dir = "aborted" => q.panic = "abort" /\ q.scope = "none"

\* What was logged and metered of it: nothing until it has left the middleware, then
\* the status it has kept since.
AccountsInv(q) ==
    /\ q.dir \in {"idle", "in"} \/ q.depth >= 2 => q.logged = <<>>
    /\ q.dir \in {"idle", "in"} \/ q.depth >= Depth - 1 => q.metered = <<>>
    /\ q.dir = "done" \/ (q.dir = "out" /\ q.depth < 2) =>
          q.logged = (IF q.panic # "none" THEN <<>> ELSE <<q.wire>>)
    /\ q.dir = "done" \/ (q.dir = "out" /\ q.depth < Depth - 1) =>
          q.metered = (IF q.panic # "none" \/ (cfg.cors /\ q.kind = "preflight") THEN <<>>
                       ELSE <<q.wire>>)

Good(q) == q \in Record /\ PlaceInv(q) /\ PassedInv(q) /\ WrittenInv(q) /\ AccountsInv(q)

\* Inside Metrics, as a property of the record.
Metered(q) == q.dir \in {"in", "out"} /\ (q.depth > Depth - 1 \/ (q.depth = Depth - 1 /\ q.dir = "out"))

Inv ==
    /\ cfg \in Config
    /\ req \in [Requests -> Record] /\ \A r \in Requests : Good(req[r])
    /\ inFlight = Cardinality({r \in Requests : Metered(req[r])})

-----------------------------------------------------------------------------
(* The chains.                                                             *)

\* Concatenation of short tuples.
LEMMA Tuples ==
    ASSUME NEW a, NEW b, NEW c
    PROVE  /\ <<a>> \o <<b>> = <<a, b>> /\ <<a, b>> \o <<c>> = <<a, b, c>>
           /\ <<a>> \o <<b, c>> = <<a, b, c>>
           /\ <<>> \o <<a>> = <<a>> /\ <<a>> \o <<>> = <<a>> /\ <<>> \o <<>> = <<>>
           /\ <<>> \o <<a, b>> = <<a, b>>
  <1> DEFINE S == {a, b, c}
  <1>1. <<a>> \in Seq(S) /\ <<b>> \in Seq(S) /\ <<c>> \in Seq(S) /\ <<>> \in Seq(S)
    OBVIOUS
  <1>2. <<a, b>> \in Seq(S) /\ <<b, c>> \in Seq(S) /\ <<a, b, c>> \in Seq(S)
    OBVIOUS
  <1>3. <<a>> \o <<b>> = <<a, b>>
    <2>1. /\ <<a>> \o <<b>> \in Seq(S) /\ Len(<<a>> \o <<b>>) = 2
          /\ \A i \in 1..2 : (<<a>> \o <<b>>)[i] = <<a, b>>[i]
      BY <1>1
    <2> QED BY <1>2, <2>1, SeqEqual
  <1>4. <<a, b>> \o <<c>> = <<a, b, c>>
    <2>1. /\ <<a, b>> \o <<c>> \in Seq(S) /\ Len(<<a, b>> \o <<c>>) = 3
          /\ \A i \in 1..3 : (<<a, b>> \o <<c>>)[i] = <<a, b, c>>[i]
      BY <1>1, <1>2
    <2> QED BY <1>2, <2>1, SeqEqual
  <1>5. <<a>> \o <<b, c>> = <<a, b, c>>
    <2>1. /\ <<a>> \o <<b, c>> \in Seq(S) /\ Len(<<a>> \o <<b, c>>) = 3
          /\ \A i \in 1..3 : (<<a>> \o <<b, c>>)[i] = <<a, b, c>>[i]
      BY <1>1, <1>2
    <2> QED BY <1>2, <2>1, SeqEqual
  <1>6. \A s \in Seq(S) : <<>> \o s = s /\ s \o <<>> = s
    BY ConcatEmptySeq
  <1> QED BY <1>1, <1>2, <1>3, <1>4, <1>5, <1>6

\* The three gates are installed before the operations are registered.
LEMMA BakedLemma ==
    ASSUME cfg \in Config
    PROVE  /\ Baked = (IF cfg.rateLimit THEN <<"ratelimit">> ELSE <<>>)
                       \o (IF cfg.authz THEN <<"authn", "authz">> ELSE <<>>)
           /\ Baked \in Seq(Gates)
           /\ (\E i \in DOMAIN Baked : Baked[i] = "authz") <=> cfg.authz
  <1>1. /\ DOMAIN BuildOrder = 1..5 /\ BuildOrder[1] = "ratelimit" /\ BuildOrder[2] = "authn"
        /\ BuildOrder[3] = "authz" /\ BuildOrder[4] = "register" /\ BuildOrder[5] = "finalize"
    BY DEF BuildOrder
  <1>2. \A i \in DOMAIN BuildOrder : BuildOrder[i] = "register" <=> i = 4
    BY <1>1
  <1>3. Registered = 4
    BY <1>1, <1>2 DEF Registered
  <1>4. /\ Installed(1) = IF cfg.rateLimit THEN <<"ratelimit">> ELSE <<>>
        /\ Installed(2) = IF cfg.authz THEN <<"authn">> ELSE <<>>
        /\ Installed(3) = IF cfg.authz THEN <<"authz">> ELSE <<>>
    BY <1>1, <1>3 DEF Installed, Enabled
  <1>5. CASE cfg.rateLimit /\ cfg.authz
    <2>1. Baked = <<"ratelimit", "authn", "authz">>
      <3>1. Baked = (<<"ratelimit">> \o <<"authn">>) \o <<"authz">>
        BY <1>4, <1>5 DEF Baked
      <3>2. <<"ratelimit">> \o <<"authn">> = <<"ratelimit", "authn">>
        BY Tuples
      <3> QED BY <3>1, <3>2, Tuples
    <2> QED BY <1>5, <2>1, Tuples DEF Gates
  <1>6. CASE cfg.rateLimit /\ ~cfg.authz
    <2>1. Baked = <<"ratelimit">>
      BY <1>4, <1>6, Tuples DEF Baked
    <2> QED BY <1>6, <2>1, Tuples DEF Gates
  <1>7. CASE ~cfg.rateLimit /\ cfg.authz
    <2>1. Baked = <<"authn", "authz">>
      BY <1>4, <1>7, Tuples DEF Baked
    <2> QED BY <1>7, <2>1, Tuples DEF Gates
  <1>8. CASE ~cfg.rateLimit /\ ~cfg.authz
    <2>1. Baked = <<>>
      BY <1>4, <1>8, Tuples DEF Baked
    <2> QED BY <1>8, <2>1, Tuples DEF Gates
  <1> QED BY <1>5, <1>6, <1>7, <1>8 DEF Config

\* Where each middleware is in the stack.
LEMMA StackLemma ==
    ASSUME cfg \in Config
    PROVE  /\ Stack \in Seq(Names) /\ Depth \in Nat
           /\ (cfg.cors => Depth = 5) /\ (~cfg.cors => Depth = 4)
           /\ Stack[1] = "recoverer" /\ Stack[2] = "requestlog" /\ (cfg.cors => Stack[3] = "cors")
           /\ Stack[Depth - 1] = "metrics" /\ Stack[Depth] = "timeout"
  <1>1. CASE cfg.cors
    <2>1. Stack = (<<"recoverer", "requestlog">> \o <<"cors">>) \o <<"metrics", "timeout">>
      BY <1>1 DEF Stack
    <2>2. Stack \in Seq(Names)
      BY <2>1 DEF Names
    <2>3. /\ Len(Stack) = 5 /\ Stack[1] = "recoverer" /\ Stack[2] = "requestlog"
          /\ Stack[3] = "cors" /\ Stack[4] = "metrics" /\ Stack[5] = "timeout"
      BY <2>1
    <2> QED BY <1>1, <2>2, <2>3 DEF Depth
  <1>2. CASE ~cfg.cors
    <2>1. Stack = (<<"recoverer", "requestlog">> \o <<>>) \o <<"metrics", "timeout">>
      BY <1>2 DEF Stack
    <2>2. Stack \in Seq(Names)
      BY <2>1 DEF Names
    <2>3. /\ Len(Stack) = 4 /\ Stack[1] = "recoverer" /\ Stack[2] = "requestlog"
          /\ Stack[3] = "metrics" /\ Stack[4] = "timeout"
      BY <2>1
    <2> QED BY <1>2, <2>2, <2>3 DEF Depth
  <1> QED BY <1>1, <1>2

\* A chain is the stack, then the gates and the handler, or the raw handler.
LEMMA ChainLemma ==
    ASSUME cfg \in Config, NEW kind \in Kinds
    PROVE  LET c == Chain(kind) IN
           /\ c \in Seq(Names) /\ Len(c) > Depth /\ Depth \in Nat
           /\ (cfg.cors => Depth = 5) /\ (~cfg.cors => Depth = 4)
           /\ \A i \in 1..Len(c) :
                 /\ c[i] = "recoverer" <=> i = 1
                 /\ c[i] = "requestlog" <=> i = 2
                 /\ c[i] = "cors" <=> cfg.cors /\ i = 3
                 /\ c[i] = "metrics" <=> i = Depth - 1
                 /\ c[i] = "timeout" <=> i = Depth
                 /\ c[i] = "handler" <=> kind = "operation" /\ i = Len(c)
                 /\ c[i] = "raw" <=> kind # "operation" /\ i = Len(c)
                 /\ c[i] \in Gates <=> Depth < i /\ i < Len(c)
           /\ kind = "operation" => /\ Len(c) = Depth + Len(Baked) + 1
                                    /\ \A j \in DOMAIN Baked : c[Depth + j] = Baked[j]
  <1> DEFINE c == Chain(kind)
             rest == IF kind = "operation" THEN Append(Baked, "handler") ELSE <<"raw">>
  <1>1. c = Stack \o rest
    BY DEF Chain
  <1>2. /\ Stack \in Seq(Names) /\ Depth = Len(Stack) /\ Depth \in Nat /\ Depth \in {4, 5}
        /\ (cfg.cors => Depth = 5) /\ (~cfg.cors => Depth = 4)
    <2>1. Depth = Len(Stack)
      BY DEF Depth
    <2> QED BY <2>1, StackLemma
  <1>3. rest \in Seq(Names) /\ Baked \in Seq(Gates)
    <2>1. Baked \in Seq(Gates) /\ Gates \subseteq Names
      BY BakedLemma DEF Names
    <2>2. Baked \in Seq(Names)
      BY <2>1, SeqMonotonic
    <2>3. Append(Baked, "handler") \in Seq(Names) /\ <<"raw">> \in Seq(Names)
      BY <2>2 DEF Names
    <2> QED BY <2>1, <2>3
  <1>4. /\ kind = "operation" => /\ Len(rest) = Len(Baked) + 1 /\ rest[Len(rest)] = "handler"
                                 /\ \A j \in DOMAIN Baked : rest[j] = Baked[j]
        /\ kind # "operation" => Len(rest) = 1 /\ rest[1] = "raw"
    BY <1>3
  <1> HIDE DEF rest
  <1>5. /\ c \in Seq(Names) /\ Len(c) = Depth + Len(rest)
        /\ \A i \in 1..Depth : c[i] = Stack[i]
        /\ \A i \in 1..Len(rest) : c[Depth + i] = rest[i]
    BY <1>1, <1>2, <1>3
  <1> HIDE DEF c
  <1>6. Len(rest) \in Nat /\ Len(Baked) \in Nat /\ Len(c) \in Nat /\ DOMAIN Baked = 1..Len(Baked)
    BY <1>3, <1>5
  <1> DEFINE d == Depth
             n == Len(rest)
             b == Len(Baked)
  <1>7. d \in Nat /\ n \in Nat /\ b \in Nat /\ Len(c) = d + n /\ n > 0
        /\ (kind = "operation" => n = b + 1) /\ (kind # "operation" => n = 1)
    BY <1>2, <1>4, <1>5, <1>6
  <1> HIDE DEF d, n, b
  <1>8. ASSUME kind = "operation", NEW j \in 1..b
        PROVE  c[d + j] = Baked[j]
    <2>1. j \in 1..n
      BY <1>7, <1>8
    <2> QED BY <1>4, <1>5, <1>6, <1>8, <2>1 DEF d, n, b
  <1>9. ASSUME NEW i \in 1..Len(c), i > d
        PROVE  /\ i < Len(c) => kind = "operation" /\ c[i] \in Gates
               /\ i = Len(c) => c[i] = (IF kind = "operation" THEN "handler" ELSE "raw")
    <2>1. PICK k \in 1..n : i = d + k /\ (i < Len(c) <=> k < n) /\ (i = Len(c) <=> k = n)
      <3>1. i - d \in 1..n /\ i = d + (i - d)
        BY <1>7, <1>9
      <3> QED BY <1>7, <3>1
    <2>2. c[i] = rest[k]
      BY <1>5, <2>1 DEF d, n
    <2>3. k < n => kind = "operation" /\ k \in 1..b
      <3>1. kind # "operation" => k = n
        BY <1>7
      <3>2. kind = "operation" /\ k < n => k \in 1..b
        BY <1>7, <2>1
      <3> QED BY <2>1, <3>1, <3>2
    <2>4. k < n => rest[k] \in Gates
      BY <1>3, <1>4, <1>6, <2>3 DEF b
    <2>5. k = n => rest[k] = (IF kind = "operation" THEN "handler" ELSE "raw")
      BY <1>4, <1>7 DEF n
    <2> QED BY <2>1, <2>2, <2>3, <2>4, <2>5
  <1>10. ASSUME NEW i \in 1..Len(c), i <= d
         PROVE  /\ i = 1 => c[i] = "recoverer"
                /\ i = 2 => c[i] = "requestlog"
                /\ i = d => c[i] = "timeout"
                /\ i = d - 1 => c[i] = "metrics"
                /\ i # 1 /\ i # 2 /\ i # d /\ i # d - 1 => cfg.cors /\ i = 3 /\ c[i] = "cors"
    <2>1. i \in 1..d /\ c[i] = Stack[i]
      BY <1>5, <1>7, <1>10 DEF d
    <2> QED BY <1>2, <2>1, StackLemma DEF d
  <1>11. d \in {4, 5} /\ d < Len(c)
    BY <1>2, <1>7 DEF d
  <1>12. ASSUME NEW i \in 1..Len(c)
         PROVE  /\ c[i] = "recoverer" <=> i = 1
                /\ c[i] = "requestlog" <=> i = 2
                /\ c[i] = "cors" <=> cfg.cors /\ i = 3
                /\ c[i] = "metrics" <=> i = d - 1
                /\ c[i] = "timeout" <=> i = d
                /\ c[i] = "handler" <=> kind = "operation" /\ i = Len(c)
                /\ c[i] = "raw" <=> kind # "operation" /\ i = Len(c)
                /\ c[i] \in Gates <=> d < i /\ i < Len(c)
    <2>1. CASE i <= d
      <3>1. i < Len(c) /\ i \in {1, 2, 3, 4, 5}
        BY <1>7, <1>11, <2>1
      <3>2. (cfg.cors => d = 5) /\ (~cfg.cors => d = 4)
        BY <1>2 DEF d
      <3> QED BY <1>10, <1>11, <2>1, <3>1, <3>2 DEF Gates
    <2>2. CASE i > d
      BY <1>7, <1>9, <1>11, <2>2 DEF Gates
    <2> QED BY <1>7, <2>1, <2>2
  <1>13. kind = "operation" => Len(c) = d + b + 1
    BY <1>7
  <1> QED BY <1>2, <1>5, <1>6, <1>8, <1>11, <1>12, <1>13 DEF c, d, b

-----------------------------------------------------------------------------
(* Steps of one request.                                                   *)

\* p is q further in or out.
Moved(p, q) ==
    /\ p \in Record /\ p.kind = q.kind /\ p.chain = q.chain /\ p.ran = q.ran
    /\ p.expired = q.expired

\* Where a request in the chain is.
LEMMA Placed ==
    ASSUME cfg \in Config, NEW q, Good(q), q.dir \in {"in", "out"}
    PROVE  /\ q \in Record /\ q.kind \in Kinds /\ q.chain = Chain(q.kind)
           /\ q.depth \in Nat /\ Len(q.chain) \in Nat /\ 1 <= q.depth /\ q.depth <= Len(q.chain)
           /\ Depth \in Nat /\ Depth < Len(q.chain)
           /\ (cfg.cors => Depth = 5) /\ (~cfg.cors => Depth = 4)
           /\ q.chain[q.depth] = "recoverer" <=> q.depth = 1
           /\ q.chain[q.depth] = "requestlog" <=> q.depth = 2
           /\ q.chain[q.depth] = "cors" <=> cfg.cors /\ q.depth = 3
           /\ q.chain[q.depth] = "metrics" <=> q.depth = Depth - 1
           /\ q.chain[q.depth] = "timeout" <=> q.depth = Depth
           /\ q.chain[q.depth] = "handler" <=> q.kind = "operation" /\ q.depth = Len(q.chain)
           /\ q.chain[q.depth] = "raw" <=> q.kind # "operation" /\ q.depth = Len(q.chain)
           /\ q.chain[q.depth] \in Gates <=> Depth < q.depth /\ q.depth < Len(q.chain)
  <1>1. q \in Record /\ q.kind \in Kinds /\ q.chain = Chain(q.kind) /\ q.depth \in 1..Len(q.chain)
    BY DEF Good, PlaceInv, Record
  <1> QED BY <1>1, ChainLemma

\* One middleware further in.  A gate is noted when it is passed.
LEMMA GoDeeper ==
    ASSUME cfg \in Config, NEW q, Good(q), q.dir = "in", q.depth < Len(q.chain),
           NEW p, Moved(p, q), p.wire = q.wire, p.bodies = q.bodies, p.panic = q.panic,
           p.scope = q.scope, p.logged = q.logged, p.metered = q.metered,
           p.dir = "in", p.depth = q.depth + 1,
           ~(cfg.cors /\ q.kind = "preflight" /\ q.depth = 3),
           q.depth <= Depth => p.passed = q.passed,
           q.depth > Depth => p.passed = Append(q.passed, q.chain[q.depth])
    PROVE  Good(p) /\ (Metered(p) <=> Metered(q) \/ q.depth = Depth - 1)
  <1>1. /\ q.depth \in Nat /\ Depth \in Nat /\ Len(q.chain) \in Nat /\ 1 <= q.depth /\ q.kind \in Kinds
        /\ q.chain = Chain(q.kind) /\ q \in Record /\ Depth >= 4
    BY Placed
  <1>2. PlaceInv(p)
    BY <1>1 DEF Good, PlaceInv, Moved
  <1>3. PassedInv(p)
    <2>1. ~q.ran
      BY Placed DEF Good, PassedInv
    <2>2. q.passed \in Seq(Gates) /\ \A i \in DOMAIN q.passed : q.passed[i] = q.chain[Depth + i]
      BY <1>1 DEF Good, PassedInv, Record
    <2>3. CASE q.depth <= Depth
      <3>1. Len(q.passed) = 0
        BY <1>1, <2>3 DEF Good, PassedInv
      <3> QED BY <1>1, <2>1, <2>2, <2>3, <3>1 DEF PassedInv, Moved
    <2>4. CASE q.depth > Depth
      <3>1. Len(q.passed) = q.depth - Depth - 1
        BY <1>1, <2>4 DEF Good, PassedInv
      <3>2. /\ Len(p.passed) = Len(q.passed) + 1 /\ p.passed[Len(p.passed)] = q.chain[q.depth]
            /\ DOMAIN p.passed = 1..Len(p.passed) /\ \A i \in 1..Len(q.passed) : p.passed[i] = q.passed[i]
        BY <2>2, <2>4
      <3>3. ASSUME NEW i \in DOMAIN p.passed PROVE p.passed[i] = q.chain[Depth + i]
        <4>1. CASE i = Len(p.passed)
          BY <1>1, <3>1, <3>2, <4>1
        <4>2. CASE i # Len(p.passed)
          <5>1. i \in 1..Len(q.passed) /\ 1..Len(q.passed) = DOMAIN q.passed
            BY <2>2, <3>2, <3>3, <4>2
          <5> QED BY <2>2, <3>2, <5>1
        <4> QED BY <4>1, <4>2
      <3> QED BY <1>1, <2>1, <2>4, <3>1, <3>2, <3>3 DEF PassedInv, Moved
    <2> QED BY <1>1, <2>3, <2>4
  <1>4. WrittenInv(p) /\ AccountsInv(p)
    BY <1>1 DEF Good, WrittenInv, AccountsInv, Moved
  <1>5. Metered(p) <=> Metered(q) \/ q.depth = Depth - 1
    BY <1>1 DEF Metered
  <1> QED BY <1>2, <1>3, <1>4, <1>5 DEF Good, Moved

\* The response: a gate's, the handler's, or CORS's to a preflight; or a panic.
LEMMA GoOut ==
    ASSUME cfg \in Config, NEW q, Good(q), q.dir = "in",
           q.depth > Depth \/ (cfg.cors /\ q.kind = "preflight" /\ q.depth = 3),
           NEW p, Moved(p, q), p.scope = q.scope, p.logged = q.logged, p.metered = q.metered,
           p.dir = "out", p.depth = q.depth, p.passed = q.passed,
           p.bodies <= 1, p.wire # 0 \/ p.panic # "none"
    PROVE  Good(p) /\ (Metered(p) <=> Metered(q))
  <1>1. /\ q.depth \in Nat /\ Depth \in Nat /\ Len(q.chain) \in Nat /\ 1 <= q.depth /\ q.kind \in Kinds
        /\ q.chain = Chain(q.kind) /\ q \in Record /\ Depth >= 4 /\ (cfg.cors => Depth = 5)
    BY Placed
  <1>2. PlaceInv(p) /\ PassedInv(p)
    BY <1>1 DEF Good, PlaceInv, PassedInv, Moved
  <1>3. WrittenInv(p)
    <2>1. p.bodies \in 0..3
      BY DEF Moved, Record
    <2> QED BY <1>1, <2>1 DEF Good, WrittenInv, Moved
  <1>4. AccountsInv(p)
    BY <1>1 DEF Good, AccountsInv, Moved
  <1>5. Metered(p) <=> Metered(q)
    BY <1>1 DEF Metered
  <1> QED BY <1>2, <1>3, <1>4, <1>5 DEF Good, Moved

\* One middleware further out.  Timeout may write, Metrics and RequestLogger note the
\* status unless a panic goes through, and Recoverer ends it.
LEMMA GoOutward ==
    ASSUME cfg \in Config, NEW q, Good(q), q.dir = "out",
           NEW p, Moved(p, q), p.passed = q.passed, p.panic = q.panic, p.depth = q.depth - 1,
           q.depth > 1 => p.dir = "out" /\ p.scope = q.scope,
           q.depth # 1 /\ q.depth # Depth => p.wire = q.wire /\ p.bodies = q.bodies,
           q.depth = Depth => /\ q.wire # 0 => p.wire = q.wire
                              /\ p.bodies <= 2 /\ (~q.expired => p.bodies = q.bodies /\ p.wire = q.wire),
           q.depth = Depth - 1 /\ q.panic = "none" => p.metered = Append(q.metered, q.wire),
           ~(q.depth = Depth - 1 /\ q.panic = "none") => p.metered = q.metered,
           q.depth = 2 /\ q.panic = "none" => p.logged = Append(q.logged, q.wire),
           ~(q.depth = 2 /\ q.panic = "none") => p.logged = q.logged,
           q.depth = 1 =>
             \/ /\ q.panic = "none" /\ p.dir = "done" /\ p.wire = q.wire /\ p.bodies = q.bodies
                /\ p.scope = q.scope
             \/ q.panic = "panic" /\ p.dir = "done" /\ p.wire # 0 /\ p.scope # "none"
             \/ q.panic = "abort" /\ p.dir = "aborted" /\ p.scope = q.scope
    PROVE  Good(p) /\ (Metered(p) <=> Metered(q) /\ q.depth # Depth - 1)
  <1>1. /\ q.depth \in Nat /\ Depth \in Nat /\ Len(q.chain) \in Nat /\ 1 <= q.depth /\ q.kind \in Kinds
        /\ q.chain = Chain(q.kind) /\ q \in Record /\ Depth >= 4 /\ (cfg.cors => Depth = 5)
        /\ q.depth <= Len(q.chain)
    BY Placed
  <1>2. PlaceInv(p) /\ PassedInv(p)
    BY <1>1 DEF Good, PlaceInv, PassedInv, Moved
  <1>3. WrittenInv(p)
    <2>1. p.bodies \in 0..3 /\ q.bodies \in 0..3
      BY DEF Good, Moved, Record
    <2> QED BY <1>1, <2>1 DEF Good, WrittenInv, Moved
  <1>4. AccountsInv(p)
    <2>1. AccountsInv(q) /\ (cfg.cors /\ q.kind = "preflight" => q.depth <= 3)
      BY DEF Good, PlaceInv
    <2>2. p.kind = q.kind /\ p.dir # "in" /\ p.dir # "idle" /\ (p.dir = "done" => q.depth = 1)
      BY <1>1 DEF Moved
    <2>3. /\ p.depth >= 2 => p.logged = <<>>
          /\ p.dir = "done" \/ (p.dir = "out" /\ p.depth < 2) =>
                p.logged = (IF p.panic # "none" THEN <<>> ELSE <<p.wire>>)
      <3>1. CASE q.depth = 1
        BY <1>1, <2>1, <2>2, <3>1 DEF AccountsInv
      <3>2. CASE q.depth = 2
        BY <1>1, <2>1, <2>2, <3>2 DEF AccountsInv
      <3>3. CASE q.depth > 2
        BY <1>1, <2>1, <2>2, <3>3 DEF AccountsInv
      <3> QED BY <1>1, <3>1, <3>2, <3>3
    <2>4. /\ p.depth >= Depth - 1 => p.metered = <<>>
          /\ p.dir = "done" \/ (p.dir = "out" /\ p.depth < Depth - 1) =>
                p.metered = (IF p.panic # "none" \/ (cfg.cors /\ p.kind = "preflight") THEN <<>>
                             ELSE <<p.wire>>)
      <3>1. CASE q.depth < Depth - 1
        BY <1>1, <2>1, <2>2, <3>1 DEF AccountsInv
      <3>2. CASE q.depth = Depth - 1
        BY <1>1, <2>1, <2>2, <3>2 DEF AccountsInv
      <3>3. CASE q.depth > Depth - 1
        BY <1>1, <2>1, <2>2, <3>3 DEF AccountsInv
      <3> QED BY <1>1, <3>1, <3>2, <3>3
    <2> QED BY <2>2, <2>3, <2>4 DEF AccountsInv
  <1>5. Metered(p) <=> Metered(q) /\ q.depth # Depth - 1
    BY <1>1 DEF Metered
  <1> QED BY <1>2, <1>3, <1>4, <1>5 DEF Good, Moved

-----------------------------------------------------------------------------
(* The actions.                                                            *)

\* What a step of a request does to it, and to the gauge.
Follows(q, p) ==
    /\ Good(p)
    /\ inFlight' = inFlight + (IF Metered(p) THEN 1 ELSE 0) - (IF Metered(q) THEN 1 ELSE 0)

\* The steps of the walk, field by field.
LEMMA DeeperLemma ==
    ASSUME NEW q \in Record
    PROVE  LET p == Deeper(q) IN
           /\ Moved(p, q) /\ p.depth = q.depth + 1 /\ p.dir = q.dir /\ p.passed = q.passed
           /\ p.wire = q.wire /\ p.bodies = q.bodies /\ p.panic = q.panic /\ p.scope = q.scope
           /\ p.logged = q.logged /\ p.metered = q.metered
  <1>1. PICK n \in Nat : n = q.depth + 1
    BY DEF Record
  <1>2. Deeper(q) = [q EXCEPT !.depth = n]
    BY <1>1 DEF Deeper
  <1>3. Deeper(q) \in Record
    BY <1>2 DEF Record
  <1> QED BY <1>1, <1>2, <1>3 DEF Record, Moved

LEMMA WriteLemma ==
    ASSUME NEW q \in Record, NEW status \in Statuses, q.bodies <= 2
    PROVE  LET p == Write(q, status) IN
           /\ Moved(p, q) /\ p.depth = q.depth /\ p.dir = q.dir /\ p.passed = q.passed
           /\ p.wire = (IF q.wire = 0 THEN status ELSE q.wire) /\ p.bodies = q.bodies + 1
           /\ p.panic = q.panic /\ p.scope = q.scope
           /\ p.logged = q.logged /\ p.metered = q.metered /\ p.stuck = q.stuck /\ p.armed = q.armed
  <1>1. PICK n \in 0..3 : n = q.bodies + 1
    BY DEF Record
  <1>2. PICK w \in Statuses : w = IF q.wire = 0 THEN status ELSE q.wire
    BY DEF Record
  <1>3. Write(q, status) = [q EXCEPT !.wire = w, !.bodies = n]
    BY <1>1, <1>2 DEF Write
  <1>4. Write(q, status) \in Record
    BY <1>3 DEF Record
  <1> QED BY <1>1, <1>2, <1>3, <1>4 DEF Record, Moved

LEMMA OutwardLemma ==
    ASSUME NEW q \in Record, q.depth >= 1
    PROVE  LET p == Outward(q) IN
           /\ Moved(p, q) /\ p.depth = q.depth - 1 /\ p.dir = (IF q.depth = 1 THEN "done" ELSE "out")
           /\ p.passed = q.passed /\ p.wire = q.wire /\ p.bodies = q.bodies /\ p.panic = q.panic
           /\ p.scope = q.scope /\ p.logged = q.logged /\ p.metered = q.metered
  <1>1. PICK n \in Nat : n = q.depth - 1
    BY DEF Record
  <1>2. PICK d \in {"done", "out"} : d = IF q.depth = 1 THEN "done" ELSE "out"
    OBVIOUS
  <1>3. Outward(q) = [q EXCEPT !.depth = n, !.dir = d]
    BY <1>1, <1>2 DEF Outward
  <1>4. Outward(q) \in Record
    BY <1>3 DEF Record
  <1> QED BY <1>1, <1>2, <1>3, <1>4 DEF Record, Moved

\* A response is written where the request is.
LEMMA AnswerLemma ==
    ASSUME cfg \in Config, NEW q, Good(q), q.dir = "in", q.depth > Depth, NEW status \in Statuses, status # 0
    PROVE  LET p == Answer(Write(q, status)) IN Good(p) /\ (Metered(p) <=> Metered(q))
  <1> DEFINE w == Write(q, status)
             p == Answer(w)
  <1>1. q \in Record /\ q.bodies = 0 /\ q.wire = 0
    BY DEF Good, WrittenInv
  <1>2. /\ Moved(w, q) /\ w.depth = q.depth /\ w.passed = q.passed /\ w.wire = status /\ w.bodies = 1
        /\ w.scope = q.scope /\ w.logged = q.logged /\ w.metered = q.metered
    BY <1>1, WriteLemma
  <1> HIDE DEF w
  <1>3. p = [w EXCEPT !.dir = "out"] /\ w \in Record
    BY <1>2 DEF Answer, Moved
  <1>4. p \in Record
    BY <1>3 DEF Record
  <1>5. /\ Moved(p, q) /\ p.depth = q.depth /\ p.passed = q.passed /\ p.wire = status /\ p.bodies = 1
        /\ p.scope = q.scope /\ p.logged = q.logged /\ p.metered = q.metered /\ p.dir = "out"
    BY <1>2, <1>3, <1>4 DEF Moved, Record
  <1> HIDE DEF p
  <1>6. Good(p) /\ (Metered(p) <=> Metered(q))
    BY <1>5, GoOut
  <1> QED BY <1>6 DEF p, w

\* A panic starts where the request is, before or after something was written.
LEMMA PanicLemma ==
    ASSUME cfg \in Config, NEW q, Good(q), q.dir = "in", q.depth > Depth, NEW x \in Panics,
           NEW w, Moved(w, q), w.depth = q.depth, w.passed = q.passed, w.scope = q.scope,
           w.logged = q.logged, w.metered = q.metered, w.bodies <= 1
    PROVE  LET p == Answer([w EXCEPT !.panic = x]) IN Good(p) /\ (Metered(p) <=> Metered(q))
  <1> DEFINE p == Answer([w EXCEPT !.panic = x])
  <1>1. x # "none"
    BY PipelineAssumption
  <1>2. p = [w EXCEPT !.panic = x, !.dir = "out"] /\ w \in Record
    BY DEF Answer, Moved, Record
  <1> HIDE DEF p
  <1>3. p \in Record
    BY <1>2 DEF Record
  <1>4. /\ Moved(p, q) /\ p.depth = q.depth /\ p.passed = q.passed /\ p.scope = q.scope
        /\ p.logged = q.logged /\ p.metered = q.metered /\ p.bodies <= 1 /\ p.dir = "out"
        /\ p.panic # "none"
    BY <1>1, <1>2, <1>3 DEF Moved, Record
  <1>5. Good(p) /\ (Metered(p) <=> Metered(q))
    BY <1>4, GoOut
  <1> QED BY <1>5 DEF p

\* A gate lets the request through.
LEMMA PassLemma ==
    ASSUME cfg \in Config, NEW q, Good(q), q.dir = "in", NEW mw \in Gates, q.chain[q.depth] = mw
    PROVE  LET p == Passed(q, mw) IN Good(p) /\ (Metered(p) <=> Metered(q))
  <1> DEFINE d == Deeper(q)
             s == Append(q.passed, mw)
             p == Passed(q, mw)
  <1>1. q \in Record /\ Depth < q.depth /\ q.depth < Len(q.chain) /\ q.depth \in Nat /\ Depth \in Nat
    BY Placed
  <1>2. /\ Moved(d, q) /\ d.depth = q.depth + 1 /\ d.dir = "in" /\ d.passed = q.passed
        /\ d.wire = q.wire /\ d.bodies = q.bodies /\ d.panic = q.panic /\ d.scope = q.scope
        /\ d.logged = q.logged /\ d.metered = q.metered
    BY <1>1, DeeperLemma
  <1>3. s \in Seq(Gates)
    BY <1>1 DEF Record
  <1>4. p = [d EXCEPT !.passed = s] /\ d \in Record
    BY <1>2 DEF Passed, Moved
  <1> HIDE DEF d, s, p
  <1>5. p \in Record
    BY <1>3, <1>4 DEF Record
  <1>6. /\ Moved(p, q) /\ p.depth = q.depth + 1 /\ p.dir = "in" /\ p.passed = s
        /\ p.wire = q.wire /\ p.bodies = q.bodies /\ p.panic = q.panic /\ p.scope = q.scope
        /\ p.logged = q.logged /\ p.metered = q.metered
    BY <1>2, <1>4, <1>5 DEF Moved, Record
  <1>7. s = Append(q.passed, q.chain[q.depth])
    BY DEF s
  <1>8. ~(cfg.cors /\ q.kind = "preflight" /\ q.depth = 3)
    BY <1>1, Placed
  <1>9. Good(p) /\ (Metered(p) <=> Metered(q))
    <2>1. Good(p) /\ (Metered(p) <=> Metered(q) \/ q.depth = Depth - 1)
      BY <1>1, <1>6, <1>7, <1>8, GoDeeper
    <2> QED BY <1>1, <2>1
  <1> QED BY <1>9 DEF p

\* The configuration does not change, and so neither does what is said of a record.
LEMMA SameGood ==
    ASSUME cfg' = cfg, NEW r \in Requests
    PROVE  (Good(req[r])' <=> Good(req'[r])) /\ (Metered(req[r])' <=> Metered(req'[r]))
  <1>1. Stack' = Stack /\ Depth' = Depth
    BY DEF Stack, Depth
  <1>2. Baked' = Baked
    BY DEF Baked, Installed, Enabled
  <1>3. Chain(req[r].kind)' = Chain(req'[r].kind)
    BY <1>1, <1>2 DEF Chain
  <1> QED BY <1>1, <1>2, <1>3 DEF Good, PlaceInv, PassedInv, WrittenInv, AccountsInv, Metered

\* Counting the requests inside Metrics when one of them moves.
LEMMA CountLemma ==
    ASSUME NEW S \in SUBSET Requests, NEW T \in SUBSET Requests, NEW r \in Requests,
           \A q \in Requests : q # r => (q \in S <=> q \in T)
    PROVE  /\ Cardinality(S) \in Nat
           /\ Cardinality(T) = Cardinality(S) + (IF r \in T THEN 1 ELSE 0) - (IF r \in S THEN 1 ELSE 0)
  <1>1. IsFiniteSet(S)
    BY RequestsAssumption, FS_Subset
  <1>2. Cardinality(S) \in Nat
    BY <1>1, FS_CardinalityType
  <1>3. CASE r \in S <=> r \in T
    <2>1. S = T
      BY <1>3
    <2> QED BY <1>2, <2>1
  <1>4. CASE r \in S /\ r \notin T
    <2>1. T = S \ {r}
      BY <1>4
    <2> QED BY <1>1, <1>2, <1>4, <2>1, FS_RemoveElement
  <1>5. CASE r \notin S /\ r \in T
    <2>1. T = S \cup {r}
      BY <1>5
    <2> QED BY <1>1, <1>2, <1>5, <2>1, FS_AddElement
  <1> QED BY <1>3, <1>4, <1>5

\* A step that follows keeps the invariant.
LEMMA StepInv ==
    ASSUME Inv, NEW r \in Requests, NEW p, req' = [req EXCEPT ![r] = p], cfg' = cfg, Follows(req[r], p)
    PROVE  Inv'
  <1>1. p \in Record /\ Good(p)
    BY DEF Follows, Good
  <1>2. /\ req' \in [Requests -> Record] /\ req'[r] = p
        /\ \A q \in Requests : q # r => req'[q] = req[q]
    BY <1>1 DEF Inv
  <1>3. \A q \in Requests : Good(req'[q])
    BY <1>1, <1>2 DEF Inv
  <1>4. \A q \in Requests : Good(req[q])'
    BY <1>3, SameGood
  <1> DEFINE S == {q \in Requests : Metered(req[q])}
             T == {q \in Requests : Metered(req'[q])}
  <1>5. T = {q \in Requests : Metered(req[q])}'
    <2>1. \A q \in Requests : Metered(req[q])' <=> Metered(req'[q])
      BY SameGood
    <2> QED BY <2>1
  <1>6. inFlight' = Cardinality(T)
    <2>1. /\ Cardinality(S) \in Nat
          /\ Cardinality(T) = Cardinality(S) + (IF r \in T THEN 1 ELSE 0) - (IF r \in S THEN 1 ELSE 0)
      <3>1. \A q \in Requests : q # r => (q \in S <=> q \in T)
        BY <1>2
      <3>2. S \in SUBSET Requests /\ T \in SUBSET Requests
        OBVIOUS
      <3> HIDE DEF S, T
      <3> QED BY <3>1, <3>2, CountLemma
    <2>2. inFlight = Cardinality(S)
      BY DEF Inv
    <2>3. (r \in T <=> Metered(p)) /\ (r \in S <=> Metered(req[r]))
      BY <1>2
    <2> HIDE DEF S, T
    <2> QED BY <2>1, <2>2, <2>3 DEF Follows
  <1> QED BY <1>2, <1>4, <1>5, <1>6 DEF Inv

\* A request at a middleware, and the gauge's type.
LEMMA AtLemma ==
    ASSUME Inv, NEW r \in Requests
    PROVE  /\ cfg \in Config /\ Good(req[r]) /\ req[r] \in Record /\ inFlight \in Nat
           /\ \A mw : In(r, mw) => req[r].dir = "in" /\ req[r].chain[req[r].depth] = mw
           /\ \A mw : Out(r, mw) => req[r].dir = "out" /\ req[r].chain[req[r].depth] = mw
  <1>1. inFlight \in Nat
    <2>1. {q \in Requests : Metered(req[q])} \in SUBSET Requests
      OBVIOUS
    <2> QED BY <2>1, RequestsAssumption, FS_Subset, FS_CardinalityType DEF Inv
  <1> QED BY <1>1 DEF Inv, In, Out, Top

\* Deeper through the stack: Recoverer, RequestLogger, CORS and Metrics.
LEMMA PlainEntry ==
    ASSUME cfg \in Config, NEW q, Good(q), q.dir = "in", q.depth < Depth,
           ~(cfg.cors /\ q.kind = "preflight" /\ q.depth = 3)
    PROVE  Good(Deeper(q)) /\ (Metered(Deeper(q)) <=> Metered(q) \/ q.depth = Depth - 1)
  <1>1. q \in Record /\ q.depth < Len(q.chain) /\ q.depth \in Nat /\ Depth \in Nat
    BY Placed
  <1>2. q.depth <= Depth /\ ~(q.depth > Depth)
    BY <1>1
  <1> QED BY <1>1, <1>2, DeeperLemma, GoDeeper

\* On the way in.
LEMMA EnterStep ==
    ASSUME Inv, NEW r \in Requests,
           \/ EnterRecoverer(r) \/ EnterRequestLog(r) \/ EnterCors(r) \/ EnterMetrics(r) \/ EnterTimeout(r)
           \/ EnterRateLimit(r) \/ EnterAuthenticate(r) \/ EnterAuthorize(r)
    PROVE  Inv'
  <1> DEFINE q == req[r]
  <1>1. /\ cfg \in Config /\ Good(q) /\ q \in Record /\ inFlight \in Nat
        /\ \A mw : In(r, mw) => q.dir = "in" /\ q.chain[q.depth] = mw
    BY AtLemma
  <1>2. ASSUME NEW p, req' = [req EXCEPT ![r] = p], cfg' = cfg, inFlight' = inFlight,
               Good(p) /\ (Metered(p) <=> Metered(q))
        PROVE  Inv'
    <2>1. Follows(q, p)
      BY <1>1, <1>2 DEF Follows
    <2> QED BY <1>2, <2>1, StepInv
  <1>3. CASE EnterRecoverer(r) \/ EnterRequestLog(r)
    <2>1. req' = [req EXCEPT ![r] = Deeper(q)] /\ cfg' = cfg /\ inFlight' = inFlight
      BY <1>3 DEF EnterRecoverer, EnterRequestLog, Step
    <2>2. q.dir = "in" /\ q.depth \in {1, 2} /\ Depth \in Nat /\ Depth >= 4
      BY <1>1, <1>3, Placed DEF EnterRecoverer, EnterRequestLog
    <2>3. Good(Deeper(q)) /\ (Metered(Deeper(q)) <=> Metered(q))
      <3>1. q.depth < Depth /\ q.depth # 3 /\ q.depth # Depth - 1
        BY <2>2
      <3> QED BY <1>1, <2>2, <3>1, PlainEntry
    <2> QED BY <1>2, <2>1, <2>3
  <1>4. CASE EnterCors(r)
    <2>1. q.dir = "in" /\ q.depth = 3 /\ cfg.cors /\ Depth = 5
      BY <1>1, <1>4, Placed DEF EnterCors
    <2>2. CASE q.kind = "preflight"
      <3> DEFINE p == Answer([q EXCEPT !.wire = 200])
      <3>1. req' = [req EXCEPT ![r] = p] /\ cfg' = cfg /\ inFlight' = inFlight
        BY <1>4, <2>2 DEF EnterCors, Step
      <3>a. PICK w \in Statuses : w = 200
        BY DEF Statuses
      <3>2. p = [q EXCEPT !.wire = w, !.dir = "out"]
        BY <1>1, <3>a DEF Answer, Record
      <3> HIDE DEF p
      <3>3. p \in Record
        BY <1>1, <3>2 DEF Record
      <3>4. /\ Moved(p, q) /\ p.scope = q.scope /\ p.logged = q.logged /\ p.metered = q.metered
            /\ p.dir = "out" /\ p.depth = q.depth /\ p.passed = q.passed /\ p.bodies = q.bodies
            /\ p.wire = 200
        BY <1>1, <3>a, <3>2, <3>3 DEF Moved, Record
      <3>5. q.bodies = 0
        BY <1>1, <2>1 DEF Good, WrittenInv
      <3>6. Good(p) /\ (Metered(p) <=> Metered(q))
        BY <1>1, <2>1, <2>2, <3>4, <3>5, GoOut
      <3> QED BY <1>2, <3>1, <3>6
    <2>3. CASE q.kind # "preflight"
      <3>1. req' = [req EXCEPT ![r] = Deeper(q)] /\ cfg' = cfg /\ inFlight' = inFlight
        BY <1>4, <2>3 DEF EnterCors, Step
      <3>2. Good(Deeper(q)) /\ (Metered(Deeper(q)) <=> Metered(q))
        BY <1>1, <2>1, <2>3, PlainEntry
      <3> QED BY <1>2, <3>1, <3>2
    <2> QED BY <2>2, <2>3
  <1>5. CASE EnterMetrics(r)
    <2>1. req' = [req EXCEPT ![r] = Deeper(q)] /\ cfg' = cfg /\ inFlight' = inFlight + 1
      BY <1>5 DEF EnterMetrics, Step
    <2>2. q.dir = "in" /\ q.depth = Depth - 1 /\ q.depth \in Nat /\ Depth \in Nat
          /\ ~(cfg.cors /\ q.kind = "preflight" /\ q.depth = 3)
      BY <1>1, <1>5, Placed DEF EnterMetrics
    <2>3. Good(Deeper(q)) /\ Metered(Deeper(q))
      <3>1. q.depth < Depth
        BY <2>2
      <3> QED BY <1>1, <2>2, <3>1, PlainEntry
    <2>4. ~Metered(q)
      BY <2>2 DEF Metered
    <2>5. Follows(q, Deeper(q))
      BY <1>1, <2>1, <2>3, <2>4 DEF Follows
    <2> QED BY <2>1, <2>5, StepInv
  <1>6. CASE EnterTimeout(r)
    <2> DEFINE d == Deeper(q)
               p == [d EXCEPT !.armed = TRUE]
    <2>1. req' = [req EXCEPT ![r] = p] /\ cfg' = cfg /\ inFlight' = inFlight
      BY <1>6 DEF EnterTimeout, Step
    <2>2. /\ q.dir = "in" /\ q.depth = Depth /\ q.depth \in Nat /\ q.depth < Len(q.chain)
          /\ ~(cfg.cors /\ q.kind = "preflight" /\ q.depth = 3)
      BY <1>1, <1>6, Placed DEF EnterTimeout
    <2>3. /\ Moved(d, q) /\ d.depth = q.depth + 1 /\ d.dir = "in" /\ d.passed = q.passed
          /\ d.wire = q.wire /\ d.bodies = q.bodies /\ d.panic = q.panic /\ d.scope = q.scope
          /\ d.logged = q.logged /\ d.metered = q.metered
      BY <1>1, <2>2, DeeperLemma
    <2> HIDE DEF d
    <2>4. p \in Record
      BY <2>3 DEF Moved, Record
    <2>5. /\ Moved(p, q) /\ p.depth = q.depth + 1 /\ p.dir = "in" /\ p.passed = q.passed
          /\ p.wire = q.wire /\ p.bodies = q.bodies /\ p.panic = q.panic /\ p.scope = q.scope
          /\ p.logged = q.logged /\ p.metered = q.metered
      BY <2>3, <2>4 DEF Moved, Record
    <2> HIDE DEF p
    <2>6. Good(p) /\ (Metered(p) <=> Metered(q))
      <3>1. q.depth <= Depth /\ ~(q.depth > Depth) /\ q.depth # Depth - 1
        BY <2>2
      <3> QED BY <1>1, <2>2, <2>5, <3>1, GoDeeper
    <2> QED BY <1>2, <2>1, <2>6
  <1>7. CASE EnterRateLimit(r) \/ EnterAuthenticate(r) \/ EnterAuthorize(r)
    <2>1. PICK mw \in Gates : /\ In(r, mw) /\ cfg' = cfg /\ inFlight' = inFlight
                              /\ \/ req' = [req EXCEPT ![r] = Passed(q, mw)]
                                 \/ \E status \in {401, 403, 429, 500} :
                                      req' = [req EXCEPT ![r] = Answer(Write(q, status))]
      <3>1. CASE EnterRateLimit(r) \/ EnterAuthenticate(r)
        BY <3>1 DEF EnterRateLimit, EnterAuthenticate, Step, Gates
      <3>2. CASE EnterAuthorize(r)
        BY <3>2 DEF EnterAuthorize, Step, Gates
      <3> QED BY <1>7, <3>1, <3>2
    <2>2. q.dir = "in" /\ q.chain[q.depth] = mw /\ q.depth > Depth
      <3>1. q.dir = "in" /\ q.chain[q.depth] = mw
        BY <1>1, <2>1
      <3>2. q.depth \in Nat /\ Depth \in Nat /\ Depth < q.depth
        BY <1>1, <3>1, Placed
      <3> QED BY <3>1, <3>2
    <2>3. CASE req' = [req EXCEPT ![r] = Passed(q, mw)]
      <3>1. Good(Passed(q, mw)) /\ (Metered(Passed(q, mw)) <=> Metered(q))
        BY <1>1, <2>2, PassLemma
      <3> QED BY <1>2, <2>1, <2>3, <3>1
    <2>4. CASE \E status \in {401, 403, 429, 500} : req' = [req EXCEPT ![r] = Answer(Write(q, status))]
      <3>1. PICK status \in {401, 403, 429, 500} : req' = [req EXCEPT ![r] = Answer(Write(q, status))]
        BY <2>4
      <3>2. status \in Statuses /\ status # 0
        BY DEF Statuses
      <3>3. LET p == Answer(Write(q, status)) IN Good(p) /\ (Metered(p) <=> Metered(q))
        BY <1>1, <2>2, <3>2, AnswerLemma
      <3> QED BY <1>2, <2>1, <3>1, <3>3
    <2> QED BY <2>1, <2>3, <2>4
  <1> QED BY <1>3, <1>4, <1>5, <1>6, <1>7

\* At the end of the chain.
LEMMA HandlerStep ==
    ASSUME Inv, NEW r \in Requests,
           EnterHandler(r) \/ HandlerReturns(r) \/ HandlerPanics(r) \/ RawHandler(r)
    PROVE  Inv'
  <1> DEFINE q == req[r]
  <1>1. /\ cfg \in Config /\ Good(q) /\ q \in Record /\ inFlight \in Nat
        /\ \A mw : In(r, mw) => q.dir = "in" /\ q.chain[q.depth] = mw
    BY AtLemma
  <1>2. ASSUME NEW p, req' = [req EXCEPT ![r] = p], cfg' = cfg, inFlight' = inFlight,
               Good(p) /\ (Metered(p) <=> Metered(q))
        PROVE  Inv'
    <2>1. Follows(q, p)
      BY <1>1, <1>2 DEF Follows
    <2> QED BY <1>2, <2>1, StepInv
  <1>3. q.dir = "in" /\ q.chain[q.depth] \in {"handler", "raw"} /\ cfg' = cfg /\ inFlight' = inFlight
    <2>1. (In(r, "handler") \/ In(r, "raw")) /\ UNCHANGED <<cfg, inFlight>>
      BY Zenon DEF EnterHandler, HandlerReturns, HandlerPanics, RawHandler
    <2> QED BY <1>1, <2>1
  <1>4. /\ q.depth \in Nat /\ Depth \in Nat /\ q.depth > Depth /\ q.depth = Len(q.chain)
        /\ (q.chain[q.depth] = "handler" => q.kind = "operation") /\ q.chain = Chain(q.kind)
    BY <1>1, <1>3, Placed
  <1>5. CASE EnterHandler(r)
    <2>1. PICK stuck \in BOOLEAN : req' = [req EXCEPT ![r] = [q EXCEPT !.ran = TRUE, !.stuck = stuck]]
      BY <1>5 DEF EnterHandler, Step
    <2> DEFINE p == [q EXCEPT !.ran = TRUE, !.stuck = stuck]
    <2>2. p \in Record
      BY <1>1 DEF Record
    <2>3. /\ p.kind = q.kind /\ p.chain = q.chain /\ p.depth = q.depth /\ p.dir = q.dir
          /\ p.panic = q.panic /\ p.wire = q.wire /\ p.bodies = q.bodies /\ p.passed = q.passed
          /\ p.expired = q.expired /\ p.logged = q.logged /\ p.metered = q.metered /\ p.scope = q.scope
      BY <1>1 DEF Record
    <2> HIDE DEF p
    <2>4. q.passed = Baked
      <3>1. q.kind = "operation"
        BY <1>1, <1>4, <1>5 DEF EnterHandler
      <3>2. /\ Len(q.chain) = Depth + Len(Baked) + 1 /\ Baked \in Seq(Gates) /\ q.passed \in Seq(Gates)
            /\ \A j \in DOMAIN Baked : q.chain[Depth + j] = Baked[j]
        BY <1>1, <1>4, <3>1, ChainLemma, BakedLemma DEF Kinds, Record
      <3>3. /\ Len(q.passed) = q.depth - Depth - 1
            /\ \A i \in DOMAIN q.passed : q.passed[i] = q.chain[Depth + i]
        BY <1>1, <1>3, <1>4 DEF Good, PassedInv
      <3>4. Len(q.passed) = Len(Baked)
        BY <1>4, <3>2, <3>3
      <3>5. DOMAIN q.passed = 1..Len(q.passed) /\ DOMAIN Baked = 1..Len(Baked)
        BY <3>2
      <3>6. \A i \in 1..Len(q.passed) : q.passed[i] = Baked[i]
        BY <3>2, <3>3, <3>4, <3>5
      <3> QED BY <3>2, <3>4, <3>6, SeqEqual
    <2>5. PlaceInv(p) /\ WrittenInv(p) /\ AccountsInv(p)
      BY <1>1, <2>3 DEF Good, PlaceInv, WrittenInv, AccountsInv
    <2>6. PassedInv(p)
      <3>1. q.chain[q.depth] = "handler"
        BY <1>1, <1>5 DEF EnterHandler
      <3> QED BY <1>1, <2>3, <2>4, <3>1 DEF Good, PassedInv
    <2>7. Good(p) /\ (Metered(p) <=> Metered(q))
      BY <2>2, <2>3, <2>5, <2>6 DEF Good, Metered
    <2> QED BY <1>2, <1>3, <2>1, <2>7 DEF p
  <1>6. CASE HandlerReturns(r) \/ RawHandler(r)
    <2>1. PICK status \in {200, 404, 405, 500, 503} : req' = [req EXCEPT ![r] = Answer(Write(q, status))]
      BY <1>6 DEF HandlerReturns, RawHandler, Step
    <2>2. status \in Statuses /\ status # 0
      BY DEF Statuses
    <2>3. LET p == Answer(Write(q, status)) IN Good(p) /\ (Metered(p) <=> Metered(q))
      BY <1>1, <1>3, <1>4, <2>2, AnswerLemma
    <2> QED BY <1>2, <1>3, <2>1, <2>3
  <1>7. CASE HandlerPanics(r)
    <2>1. PICK x \in Panics, w \in {q, Write(q, 200)} :
             req' = [req EXCEPT ![r] = Answer([w EXCEPT !.panic = x])]
      BY <1>7 DEF HandlerPanics, Step
    <2>2. q.bodies = 0
      BY <1>1, <1>3 DEF Good, WrittenInv
    <2>3. 200 \in Statuses /\ x # "none"
      BY PipelineAssumption DEF Statuses
    <2>4. /\ Moved(w, q) /\ w.depth = q.depth /\ w.passed = q.passed /\ w.scope = q.scope
          /\ w.logged = q.logged /\ w.metered = q.metered /\ w.bodies <= 1
      <3>1. CASE w = q
        BY <1>1, <2>2, <3>1 DEF Moved
      <3>2. CASE w = Write(q, 200)
        BY <1>1, <2>2, <2>3, <3>2, WriteLemma
      <3> QED BY <2>1, <3>1, <3>2
    <2>5. LET p == Answer([w EXCEPT !.panic = x]) IN Good(p) /\ (Metered(p) <=> Metered(q))
      BY <1>1, <1>3, <1>4, <2>4, PanicLemma
    <2> QED BY <1>2, <1>3, <2>1, <2>5
  <1> QED BY <1>5, <1>6, <1>7

\* The queries made on the way in and by /readyz: they hang, or they panic.
LEMMA QueryStep ==
    ASSUME Inv, NEW r \in Requests, QueryHangs(r) \/ QueryPanics(r)
    PROVE  Inv'
  <1> DEFINE q == req[r]
  <1>1. /\ cfg \in Config /\ Good(q) /\ q \in Record /\ inFlight \in Nat
        /\ \A mw : In(r, mw) => q.dir = "in" /\ q.chain[q.depth] = mw
    BY AtLemma
  <1>2. Queries(r) /\ cfg' = cfg /\ inFlight' = inFlight
    BY DEF QueryHangs, QueryPanics
  <1>3. ASSUME NEW p, req' = [req EXCEPT ![r] = p], Good(p) /\ (Metered(p) <=> Metered(q))
        PROVE  Inv'
    <2>1. Follows(q, p)
      BY <1>1, <1>2, <1>3 DEF Follows
    <2> QED BY <1>2, <1>3, <2>1, StepInv
  <1>4. q.dir = "in" /\ q.depth > Depth
    <2>1. q.dir = "in" /\ q.chain[q.depth] \in {"authn", "authz", "raw"}
      BY <1>1, <1>2 DEF Queries
    <2>2. q.chain[q.depth] = "raw" \/ q.chain[q.depth] \in Gates
      BY <2>1 DEF Gates
    <2> QED BY <1>1, <2>1, <2>2, Placed
  <1>5. CASE QueryHangs(r)
    <2> DEFINE p == [q EXCEPT !.stuck = TRUE]
    <2>1. req' = [req EXCEPT ![r] = p]
      BY <1>5 DEF QueryHangs, Step
    <2>2. p \in Record
      BY <1>1 DEF Record
    <2>3. /\ p.kind = q.kind /\ p.chain = q.chain /\ p.depth = q.depth /\ p.dir = q.dir
          /\ p.panic = q.panic /\ p.wire = q.wire /\ p.bodies = q.bodies /\ p.passed = q.passed
          /\ p.ran = q.ran /\ p.expired = q.expired
          /\ p.logged = q.logged /\ p.metered = q.metered /\ p.scope = q.scope
      BY <1>1 DEF Record
    <2> HIDE DEF p
    <2>4. PlaceInv(p) /\ PassedInv(p)
      BY <1>1, <2>3 DEF Good, PlaceInv, PassedInv
    <2>5. WrittenInv(p) /\ AccountsInv(p)
      BY <1>1, <2>3 DEF Good, WrittenInv, AccountsInv
    <2>6. Metered(p) <=> Metered(q)
      BY <2>3 DEF Metered
    <2> QED BY <1>3, <2>1, <2>2, <2>4, <2>5, <2>6 DEF Good
  <1>6. CASE QueryPanics(r)
    <2>1. PICK x \in Panics : req' = [req EXCEPT ![r] = Answer([q EXCEPT !.panic = x])]
      BY <1>6 DEF QueryPanics, Step
    <2>2. Moved(q, q) /\ q.bodies <= 1
      BY <1>1, <1>4 DEF Good, WrittenInv, Moved
    <2>3. LET p == Answer([q EXCEPT !.panic = x]) IN Good(p) /\ (Metered(p) <=> Metered(q))
      BY <1>1, <1>4, <2>2, PanicLemma
    <2> QED BY <1>3, <2>1, <2>3
  <1> QED BY <1>5, <1>6

\* On the way out.
LEMMA LeaveStep ==
    ASSUME Inv, NEW r \in Requests,
           LeavePlain(r) \/ LeaveTimeout(r) \/ LeaveMetrics(r) \/ LeaveRequestLog(r) \/ LeaveRecoverer(r)
    PROVE  Inv'
  <1> DEFINE q == req[r]
             o == Outward(q)
  <1>1. /\ cfg \in Config /\ Good(q) /\ q \in Record /\ inFlight \in Nat
        /\ \A mw : Out(r, mw) => q.dir = "out" /\ q.chain[q.depth] = mw
    BY AtLemma
  <1>2. q.dir = "out" /\ cfg' = cfg
    BY <1>1 DEF LeavePlain, LeaveTimeout, LeaveMetrics, LeaveRequestLog, LeaveRecoverer
  <1>3. q.depth \in Nat /\ q.depth >= 1 /\ Depth \in Nat /\ Depth >= 4 /\ (cfg.cors => Depth = 5)
    BY <1>1, <1>2, Placed
  <1>4. /\ Moved(o, q) /\ o.depth = q.depth - 1 /\ o.dir = (IF q.depth = 1 THEN "done" ELSE "out")
        /\ o.passed = q.passed /\ o.wire = q.wire /\ o.bodies = q.bodies /\ o.panic = q.panic
        /\ o.scope = q.scope /\ o.logged = q.logged /\ o.metered = q.metered
    BY <1>1, <1>3, OutwardLemma
  <1>5. o \in Record
    BY <1>4 DEF Moved
  <1>6. ASSUME NEW p, req' = [req EXCEPT ![r] = p], q.depth # Depth - 1, inFlight' = inFlight,
               Good(p) /\ (Metered(p) <=> Metered(q) /\ q.depth # Depth - 1)
        PROVE  Inv'
    <2>1. Follows(q, p)
      BY <1>1, <1>6 DEF Follows
    <2> QED BY <1>2, <1>6, <2>1, StepInv
  <1> HIDE DEF o
  <1>7. CASE LeavePlain(r)
    <2>1. req' = [req EXCEPT ![r] = o] /\ inFlight' = inFlight
      BY <1>7 DEF LeavePlain, Step, o
    <2>2. q.depth # 1 /\ q.depth # 2 /\ q.depth # Depth - 1 /\ q.depth # Depth
      BY <1>1, <1>2, <1>7, Placed DEF LeavePlain
    <2>3. Good(o) /\ (Metered(o) <=> Metered(q) /\ q.depth # Depth - 1)
      BY <1>1, <1>2, <1>3, <1>4, <2>2, GoOutward
    <2> QED BY <1>6, <2>1, <2>2, <2>3
  <1>8. CASE LeaveTimeout(r)
    <2> DEFINE u == [o EXCEPT !.armed = FALSE]
               p == IF q.expired THEN Write(u, 504) ELSE u
    <2>1. req' = [req EXCEPT ![r] = p] /\ inFlight' = inFlight
      BY <1>8 DEF LeaveTimeout, Step, o
    <2>2. q.depth = Depth /\ q.bodies \in 0..3 /\ q.bodies <= 1
      BY <1>1, <1>2, <1>3, <1>8, Placed DEF LeaveTimeout, Good, WrittenInv, Record
    <2>3. u \in Record
      BY <1>5 DEF Record
    <2>4. /\ Moved(u, q) /\ u.depth = q.depth - 1 /\ u.dir = "out"
          /\ u.passed = q.passed /\ u.wire = q.wire /\ u.bodies = q.bodies /\ u.panic = q.panic
          /\ u.scope = q.scope /\ u.logged = q.logged /\ u.metered = q.metered
      BY <1>3, <1>4, <1>5, <2>2, <2>3 DEF Moved, Record
    <2> HIDE DEF u
    <2>5. /\ Moved(p, q) /\ p.depth = q.depth - 1 /\ p.dir = "out"
          /\ p.passed = q.passed /\ p.panic = q.panic
          /\ p.scope = q.scope /\ p.logged = q.logged /\ p.metered = q.metered
          /\ q.wire # 0 => p.wire = q.wire
          /\ p.bodies <= 2 /\ (~q.expired => p.bodies = q.bodies /\ p.wire = q.wire)
      <3>1. CASE q.expired
        <4>1. 504 \in Statuses /\ u.bodies <= 2
          BY <2>2, <2>4 DEF Statuses
        <4>2. LET w == Write(u, 504) IN
              /\ Moved(w, u) /\ w.depth = u.depth /\ w.dir = u.dir /\ w.passed = u.passed
              /\ w.wire = (IF u.wire = 0 THEN 504 ELSE u.wire) /\ w.bodies = u.bodies + 1
              /\ w.panic = u.panic /\ w.scope = u.scope
              /\ w.logged = u.logged /\ w.metered = u.metered
          BY <2>3, <4>1, WriteLemma
        <4>3. p = Write(u, 504)
          BY <3>1
        <4> HIDE DEF p
        <4>4. p.bodies <= 2 /\ (q.wire # 0 => p.wire = q.wire)
          BY <2>2, <2>4, <4>2, <4>3
        <4>5. Moved(p, q)
          BY <2>4, <4>2, <4>3 DEF Moved
        <4> QED BY <2>4, <3>1, <4>2, <4>3, <4>4, <4>5
      <3>2. CASE ~q.expired
        BY <2>2, <2>4, <3>2
      <3> QED BY <3>1, <3>2
    <2> HIDE DEF p
    <2>6. q.depth # 1 /\ q.depth # 2 /\ q.depth # Depth - 1 /\ q.depth > 1
      BY <1>3, <2>2
    <2>7. Good(p) /\ (Metered(p) <=> Metered(q) /\ q.depth # Depth - 1)
      BY <1>1, <1>2, <2>2, <2>5, <2>6, GoOutward
    <2> QED BY <1>6, <2>1, <2>6, <2>7
  <1>9. CASE LeaveMetrics(r)
    <2> DEFINE m == IF q.panic # "none" THEN q.metered ELSE Append(q.metered, q.wire)
               p == [o EXCEPT !.metered = m]
    <2>1. inFlight' = inFlight - 1 /\ q.depth = Depth - 1 /\ m \in Seq(Statuses)
      BY <1>1, <1>2, <1>9, Placed DEF LeaveMetrics, Record
    <2>2. req' = [req EXCEPT ![r] = p]
      <3>1. CASE q.panic # "none"
        <4>1. p = o
          BY <1>4, <1>5, <3>1 DEF Record
        <4> QED BY <1>9, <3>1, <4>1 DEF LeaveMetrics, Step, Panicking, o
      <3>2. CASE q.panic = "none"
        BY <1>4, <1>9, <3>2 DEF LeaveMetrics, Step, Panicking, o
      <3> QED BY <3>1, <3>2
    <2> HIDE DEF m
    <2>3. p \in Record
      BY <1>5, <2>1 DEF Record
    <2>4. /\ Moved(p, q) /\ p.depth = q.depth - 1 /\ p.dir = "out"
          /\ p.passed = q.passed /\ p.wire = q.wire /\ p.bodies = q.bodies /\ p.panic = q.panic
          /\ p.scope = q.scope /\ p.logged = q.logged /\ p.metered = m
      BY <1>3, <1>4, <1>5, <2>1, <2>3 DEF Moved, Record
    <2> HIDE DEF p
    <2>5. q.depth # 1 /\ q.depth # 2 /\ q.depth # Depth /\ q.depth > 1
      BY <1>3, <2>1, <1>1, <1>2, <1>9, Placed DEF LeaveMetrics
    <2>6. Good(p) /\ ~Metered(p)
      BY <1>1, <1>2, <2>1, <2>4, <2>5, GoOutward DEF m
    <2>7. Metered(q)
      BY <1>2, <2>1 DEF Metered
    <2>8. Follows(q, p)
      BY <1>1, <2>1, <2>6, <2>7 DEF Follows
    <2> QED BY <1>2, <2>2, <2>8, StepInv
  <1>10. CASE LeaveRequestLog(r)
    <2> DEFINE m == IF q.panic # "none" THEN q.logged ELSE Append(q.logged, q.wire)
               p == [o EXCEPT !.logged = m]
    <2>1. inFlight' = inFlight /\ q.depth = 2 /\ m \in Seq(Statuses)
      BY <1>1, <1>2, <1>10, Placed DEF LeaveRequestLog, Record
    <2>2. req' = [req EXCEPT ![r] = p]
      <3>1. CASE q.panic # "none"
        <4>1. p = o
          BY <1>4, <1>5, <3>1 DEF Record
        <4> QED BY <1>10, <3>1, <4>1 DEF LeaveRequestLog, Step, Panicking, o
      <3>2. CASE q.panic = "none"
        BY <1>4, <1>10, <3>2 DEF LeaveRequestLog, Step, Panicking, o
      <3> QED BY <3>1, <3>2
    <2> HIDE DEF m
    <2>3. p \in Record
      BY <1>5, <2>1 DEF Record
    <2>4. /\ Moved(p, q) /\ p.depth = q.depth - 1 /\ p.dir = "out"
          /\ p.passed = q.passed /\ p.wire = q.wire /\ p.bodies = q.bodies /\ p.panic = q.panic
          /\ p.scope = q.scope /\ p.logged = m /\ p.metered = q.metered
      BY <1>3, <1>4, <1>5, <2>1, <2>3 DEF Moved, Record
    <2> HIDE DEF p
    <2>5. q.depth # 1 /\ q.depth # Depth - 1 /\ q.depth # Depth /\ q.depth > 1
      BY <1>3, <2>1, <1>1, <1>2, <1>10, Placed DEF LeaveRequestLog
    <2>6. Good(p) /\ (Metered(p) <=> Metered(q) /\ q.depth # Depth - 1)
      BY <1>1, <1>2, <2>1, <2>4, <2>5, GoOutward DEF m
    <2> QED BY <1>6, <2>1, <2>2, <2>5, <2>6
  <1>11. CASE LeaveRecoverer(r)
    <2>1. inFlight' = inFlight /\ q.depth = 1 /\ q.bodies \in 0..3 /\ q.bodies <= 2
      <3>1. inFlight' = inFlight /\ q.chain[q.depth] = "recoverer" /\ q.bodies \in 0..3
        BY <1>1, <1>11 DEF LeaveRecoverer, Record
      <3>2. q.depth = 1
        BY <1>1, <1>2, <3>1, Placed
      <3>3. q.bodies <= (IF q.depth >= Depth THEN 1 ELSE 2)
        BY <1>1, <1>2 DEF Good, WrittenInv
      <3> QED BY <1>3, <3>1, <3>2, <3>3
    <2>2. q.depth # 2 /\ q.depth # Depth - 1 /\ q.depth # Depth /\ ~(q.depth > 1)
      BY <1>3, <2>1
    <2>3. CASE q.panic = "none"
      <3>1. req' = [req EXCEPT ![r] = o]
        BY <1>11, <2>3 DEF LeaveRecoverer, Step, o
      <3>2. Good(o) /\ (Metered(o) <=> Metered(q) /\ q.depth # Depth - 1)
        BY <1>1, <1>2, <1>4, <2>1, <2>2, <2>3, GoOutward
      <3> QED BY <1>6, <2>1, <2>2, <3>1, <3>2
    <2>4. CASE q.panic = "panic"
      <3> DEFINE u == [o EXCEPT !.scope = Scope]
                 p == Write(u, 500)
      <3>1. req' = [req EXCEPT ![r] = p]
        BY <1>11, <2>4 DEF LeaveRecoverer, Step, o
      <3>2. Scope \in {"request", "base"}
        BY DEF Scope
      <3>3. u \in Record
        BY <1>5, <3>2 DEF Record
      <3>4. /\ Moved(u, q) /\ u.depth = q.depth - 1 /\ u.dir = "done" /\ u.passed = q.passed
            /\ u.wire = q.wire /\ u.bodies = q.bodies /\ u.panic = q.panic /\ u.scope # "none"
            /\ u.logged = q.logged /\ u.metered = q.metered
        BY <1>4, <1>5, <2>1, <3>2, <3>3 DEF Moved, Record
      <3> HIDE DEF u
      <3>5. 500 \in Statuses /\ 500 # 0 /\ u.bodies <= 2
        BY <2>1, <3>4 DEF Statuses
      <3>6. /\ Moved(p, u) /\ p.depth = u.depth /\ p.dir = u.dir /\ p.passed = u.passed
            /\ p.wire = (IF u.wire = 0 THEN 500 ELSE u.wire)
            /\ p.panic = u.panic /\ p.scope = u.scope /\ p.logged = u.logged /\ p.metered = u.metered
        BY <3>3, <3>5, WriteLemma
      <3> HIDE DEF p
      <3>7. /\ Moved(p, q) /\ p.depth = q.depth - 1 /\ p.dir = "done" /\ p.passed = q.passed
            /\ p.wire # 0 /\ p.panic = q.panic /\ p.scope # "none"
            /\ p.logged = q.logged /\ p.metered = q.metered
        BY <3>4, <3>5, <3>6 DEF Moved
      <3>8. Good(p) /\ (Metered(p) <=> Metered(q) /\ q.depth # Depth - 1)
        BY <1>1, <1>2, <2>1, <2>2, <2>4, <3>7, GoOutward
      <3> QED BY <1>6, <2>1, <2>2, <3>1, <3>8
    <2>5. CASE q.panic = "abort"
      <3> DEFINE p == [o EXCEPT !.dir = "aborted"]
      <3>1. req' = [req EXCEPT ![r] = p]
        BY <1>11, <2>5 DEF LeaveRecoverer, Step, o
      <3>2. p \in Record
        BY <1>5 DEF Record
      <3>3. /\ Moved(p, q) /\ p.depth = q.depth - 1 /\ p.dir = "aborted" /\ p.passed = q.passed
            /\ p.panic = q.panic /\ p.scope = q.scope /\ p.logged = q.logged /\ p.metered = q.metered
        BY <1>4, <1>5, <3>2 DEF Moved, Record
      <3> HIDE DEF p
      <3>4. Good(p) /\ (Metered(p) <=> Metered(q) /\ q.depth # Depth - 1)
        BY <1>1, <1>2, <2>1, <2>2, <2>5, <3>3, GoOutward
      <3> QED BY <1>6, <2>1, <2>2, <3>1, <3>4
    <2>6. q.panic \in {"none", "panic", "abort"}
      BY <1>1, PipelineAssumption DEF Record
    <2> QED BY <2>3, <2>4, <2>5, <2>6
  <1> QED BY <1>7, <1>8, <1>9, <1>10, <1>11

\* A new request, and the end of a deadline.
LEMMA ArriveStep ==
    ASSUME Inv, NEW r \in Requests, Arrive(r) \/ Expire(r)
    PROVE  Inv'
  <1> DEFINE q == req[r]
  <1>1. cfg \in Config /\ Good(q) /\ q \in Record /\ inFlight \in Nat
    BY AtLemma
  <1>2. cfg' = cfg /\ inFlight' = inFlight
    BY DEF Arrive, Expire
  <1>3. ASSUME NEW p, req' = [req EXCEPT ![r] = p], Good(p) /\ (Metered(p) <=> Metered(q))
        PROVE  Inv'
    <2>1. Follows(q, p)
      BY <1>1, <1>2, <1>3 DEF Follows
    <2> QED BY <1>2, <1>3, <2>1, StepInv
  <1>4. CASE Arrive(r)
    <2>1. PICK kind \in Kinds :
             req' = [req EXCEPT ![r] = [NoRequest EXCEPT !.kind = kind, !.chain = Chain(kind), !.dir = "in"]]
      BY <1>4 DEF Arrive, Step
    <2>2. PICK c \in Seq(Names) : c = Chain(kind) /\ Len(c) > Depth /\ Len(c) \in Nat
      BY <1>1, ChainLemma
    <2> DEFINE p == [NoRequest EXCEPT !.kind = kind, !.chain = c, !.dir = "in"]
    <2>3. /\ p.kind = kind /\ p.chain = c /\ p.depth = 1 /\ p.dir = "in" /\ p.panic = "none"
          /\ p.wire = 0 /\ p.bodies = 0 /\ p.passed = <<>> /\ p.ran = FALSE /\ p.scope = "none"
          /\ p.logged = <<>> /\ p.metered = <<>> /\ p.stuck = FALSE /\ p.armed = FALSE
          /\ p.expired = FALSE
      BY DEF NoRequest
    <2>4. p \in Record
      <3>1. 0 \in Statuses /\ <<>> \in Seq(Statuses) /\ <<>> \in Seq(Gates)
        BY DEF Statuses
      <3>2. NoRequest \in Record
        BY <3>1 DEF NoRequest, Record, Kinds
      <3> QED BY <3>2 DEF Record
    <2> HIDE DEF p
    <2>5. Depth \in Nat /\ Depth >= 4
      BY <1>1, StackLemma
    <2>6. PlaceInv(p)
      BY <2>2, <2>3, <2>5 DEF PlaceInv
    <2>7. PassedInv(p)
      BY <2>3, <2>5 DEF PassedInv
    <2>8. WrittenInv(p) /\ AccountsInv(p)
      BY <2>3, <2>5 DEF WrittenInv, AccountsInv
    <2>9. ~Metered(p) /\ ~Metered(q)
      <3>1. q.dir = "idle"
        BY <1>4 DEF Arrive
      <3> QED BY <2>3, <2>5, <3>1 DEF Metered
    <2> QED BY <1>3, <2>1, <2>2, <2>4, <2>6, <2>7, <2>8, <2>9 DEF Good, p
  <1>5. CASE Expire(r)
    <2> DEFINE p == [q EXCEPT !.expired = TRUE]
    <2>1. req' = [req EXCEPT ![r] = p]
      BY <1>5 DEF Expire
    <2>2. p \in Record
      BY <1>1 DEF Record
    <2>3. /\ p.kind = q.kind /\ p.chain = q.chain /\ p.depth = q.depth /\ p.dir = q.dir
          /\ p.panic = q.panic /\ p.wire = q.wire /\ p.bodies = q.bodies /\ p.passed = q.passed
          /\ p.ran = q.ran /\ p.expired = TRUE
          /\ p.logged = q.logged /\ p.metered = q.metered /\ p.scope = q.scope
      BY <1>1 DEF Record
    <2> HIDE DEF p
    <2>4. PlaceInv(p) /\ PassedInv(p)
      BY <1>1, <2>3 DEF Good, PlaceInv, PassedInv
    <2>5. WrittenInv(p) /\ AccountsInv(p)
      BY <1>1, <2>3 DEF Good, WrittenInv, AccountsInv
    <2>6. Metered(p) <=> Metered(q)
      BY <2>3 DEF Metered
    <2> QED BY <1>3, <2>1, <2>2, <2>4, <2>5, <2>6 DEF Good
  <1> QED BY <1>4, <1>5

-----------------------------------------------------------------------------
(* The theorems.                                                           *)

LEMMA InitInv == Init => Inv
  <1> SUFFICES ASSUME Init PROVE Inv
    OBVIOUS
  <1>1. cfg \in Config
    BY ConfigAssumption DEF Init
  <1>2. Depth \in Nat /\ Depth >= 4
    BY <1>1, StackLemma
  <1>3. NoRequest \in Record
    <2>1. 0 \in Statuses /\ <<>> \in Seq(Statuses) /\ <<>> \in Seq(Gates) /\ <<>> \in Seq(Names)
      BY DEF Statuses
    <2> QED BY <2>1 DEF NoRequest, Record, Kinds
  <1>4. Good(NoRequest)
    <2>1. PlaceInv(NoRequest) /\ PassedInv(NoRequest)
      BY DEF PlaceInv, PassedInv, NoRequest
    <2>2. WrittenInv(NoRequest) /\ AccountsInv(NoRequest)
      BY <1>2 DEF WrittenInv, AccountsInv, NoRequest
    <2> QED BY <1>3, <2>1, <2>2 DEF Good
  <1>5. \A r \in Requests : req[r] = NoRequest
    BY DEF Init
  <1>6. req \in [Requests -> Record]
    BY <1>3 DEF Init
  <1>7. {r \in Requests : Metered(req[r])} = {}
    <2>1. ~Metered(NoRequest)
      BY DEF Metered, NoRequest
    <2> QED BY <1>5, <2>1
  <1>8. inFlight = 0
    BY DEF Init
  <1> QED BY <1>1, <1>4, <1>5, <1>6, <1>7, <1>8, FS_EmptySet DEF Inv

LEMMA NextInv == Inv /\ [Next]_vars => Inv'
  <1> SUFFICES ASSUME Inv, [Next]_vars PROVE Inv'
    OBVIOUS
  <1>1. CASE Next
    <2>1. PICK r \in Requests : Arrive(r) \/ Serve(r) \/ Expire(r)
      BY <1>1 DEF Next
    <2>2. CASE Arrive(r) \/ Expire(r)
      BY <2>2, ArriveStep
    <2>3. CASE Serve(r)
      BY <2>3, EnterStep, QueryStep, HandlerStep, LeaveStep DEF Serve
    <2> QED BY <2>1, <2>2, <2>3
  <1>2. CASE UNCHANGED vars
    <2>1. cfg' = cfg /\ req' = req /\ inFlight' = inFlight
      BY <1>2 DEF vars
    <2>2. \A r \in Requests : Good(req[r])'
      <3>1. \A r \in Requests : Good(req'[r])
        BY <2>1 DEF Inv
      <3> QED BY <2>1, <3>1, SameGood
    <2>3. {r \in Requests : Metered(req[r])}' = {r \in Requests : Metered(req[r])}
      <3>1. \A r \in Requests : Metered(req[r])' <=> Metered(req[r])
        BY <2>1, SameGood
      <3> QED BY <3>1
    <2> QED BY <2>1, <2>2, <2>3 DEF Inv
  <1> QED BY <1>1, <1>2

\* The inductive invariant: what is said of every request's record, and the gauge.
THEOREM Invariance == Spec => []Inv
  <1> QED BY InitInv, NextInv, PTL DEF Spec

\* Every variable keeps its type, and the gauge never exceeds the requests served.
THEOREM TypeCorrect == Spec => []TypeOK
  <1>1. Inv => TypeOK
    <2> SUFFICES ASSUME Inv PROVE TypeOK
      OBVIOUS
    <2>1. inFlight \in 0..Cardinality(Requests)
      <3> DEFINE S == {r \in Requests : Metered(req[r])}
      <3>1. S \in SUBSET Requests /\ inFlight = Cardinality(S)
        BY DEF Inv
      <3> HIDE DEF S
      <3>2. /\ IsFiniteSet(S) /\ Cardinality(S) <= Cardinality(Requests)
            /\ Cardinality(S) \in Nat /\ Cardinality(Requests) \in Nat
        BY <3>1, RequestsAssumption, FS_Subset, FS_CardinalityType
      <3> QED BY <3>1, <3>2
    <2>2. ASSUME NEW r \in Requests
          PROVE  /\ req[r].kind \in Kinds /\ req[r].dir \in {"idle", "in", "out", "done", "aborted"}
                 /\ req[r].dir # "idle" => req[r].depth \in 0..Len(req[r].chain)
                 /\ req[r].panic \in Panics \cup {"none"}
                 /\ req[r].wire \in Statuses /\ req[r].bodies \in 0..3
                 /\ req[r].passed \in Seq({"ratelimit", "authn", "authz"})
                 /\ req[r].logged \in Seq(Statuses) /\ req[r].metered \in Seq(Statuses)
      <3>1. req[r] \in Record /\ PlaceInv(req[r])
        BY DEF Inv, Good
      <3>2. Len(req[r].chain) \in Nat
        BY <3>1 DEF Record
      <3>3. req[r].dir # "idle" => req[r].depth \in 0..Len(req[r].chain)
        BY <3>1, <3>2 DEF PlaceInv, Record
      <3> QED BY <3>1, <3>3 DEF Record, Gates
    <2>3. cfg \in Config
      BY DEF Inv
    <2> QED BY <2>1, <2>2, <2>3 DEF TypeOK
  <1> QED BY <1>1, Invariance, PTL

\* The gauge counts exactly the requests inside Metrics, panics included.
THEOREM GaugeAlwaysExact == Spec => []GaugeExact
  <1>1. Inv => GaugeExact
    <2> SUFFICES ASSUME Inv PROVE GaugeExact
      OBVIOUS
    <2>1. cfg \in Config
      BY DEF Inv
    <2>2. /\ Stack \in Seq(Names) /\ Depth = Len(Stack) /\ Depth \in {4, 5}
          /\ (cfg.cors => Depth = 5) /\ (~cfg.cors => Depth = 4)
          /\ Stack[1] = "recoverer" /\ Stack[2] = "requestlog" /\ (cfg.cors => Stack[3] = "cors")
          /\ Stack[Depth - 1] = "metrics" /\ Stack[Depth] = "timeout"
      BY <2>1, StackLemma DEF Depth
    <2>3. DOMAIN Stack = 1..Depth
      BY <2>2
    <2>4. \A i \in DOMAIN Stack : Stack[i] = "metrics" <=> i = Depth - 1
      BY <2>2, <2>3
    <2>5. Depth - 1 \in DOMAIN Stack
      BY <2>2, <2>3
    <2>6. (CHOOSE i \in DOMAIN Stack : Stack[i] = "metrics") = Depth - 1
      BY <2>4, <2>5
    <2>7. ASSUME NEW r \in Requests PROVE InsideMetrics(r) <=> Metered(req[r])
      <3>1. Good(req[r])
        BY DEF Inv
      <3>2. req[r].dir \in {"in", "out"} /\ req[r].depth = Depth - 1 => Top(r) = "metrics"
        BY <2>1, <3>1, Placed DEF Top
      <3> QED BY <2>6, <3>2 DEF InsideMetrics, Metered
    <2>8. {r \in Requests : InsideMetrics(r)} = {r \in Requests : Metered(req[r])}
      BY <2>7
    <2> QED BY <2>8 DEF GaugeExact, Inv
  <1> QED BY <1>1, Invariance, PTL

\* A handler runs only behind every configured gate, the limiter first, and the
\* published document asks for credentials exactly when they were checked.
THEOREM HandlersAlwaysGuarded == Spec => []HandlerGuarded
  <1>1. Inv => HandlerGuarded
    <2> SUFFICES ASSUME Inv, NEW r \in Requests, req[r].ran
                 PROVE  /\ req[r].passed = (IF cfg.rateLimit THEN <<"ratelimit">> ELSE <<>>)
                                            \o (IF cfg.authz THEN <<"authn", "authz">> ELSE <<>>)
                        /\ ServedDocument <=> \E i \in DOMAIN req[r].passed : req[r].passed[i] = "authz"
                        /\ ServedDocument => ExportedDocument
      BY DEF HandlerGuarded
    <2>1. cfg \in Config /\ req[r].passed = Baked
      BY DEF Inv, Good, PassedInv
    <2>2. ServedDocument <=> cfg.authz
      <3>1. DOMAIN BuildOrder = 1..5 /\ BuildOrder[4] = "register" /\ BuildOrder[5] = "finalize"
        BY DEF BuildOrder
      <3> QED BY <3>1 DEF ServedDocument, Advertises
    <2>3. ExportedDocument
      <3>1. DOMAIN ExportOrder = 1..2 /\ ExportOrder[1] = "register" /\ ExportOrder[2] = "finalize"
        BY DEF ExportOrder
      <3> QED BY <3>1 DEF ExportedDocument, Advertises
    <2> QED BY <2>1, <2>2, <2>3, BakedLemma
  <1> QED BY <1>1, Invariance, PTL

\* The access line and the metric of a served request carry the status the client got,
\* and are there unless it panicked, or for the metric is a preflight.
THEOREM AccountsAlwaysHonest == Spec => []AccountsHonest
  <1>1. Inv => AccountsHonest
    <2> SUFFICES ASSUME Inv, NEW r \in Requests, Served(r)
                 PROVE  /\ req[r].logged \in {<<>>, <<req[r].wire>>}
                        /\ req[r].metered \in {<<>>, <<req[r].wire>>}
                        /\ ~Panicking(r) => req[r].logged # <<>>
                        /\ ~Panicking(r) /\ req[r].kind # "preflight" => req[r].metered # <<>>
      BY Zenon DEF AccountsHonest
    <2>1. /\ req[r].logged = (IF req[r].panic # "none" THEN <<>> ELSE <<req[r].wire>>)
          /\ req[r].metered = (IF req[r].panic # "none" \/ (cfg.cors /\ req[r].kind = "preflight")
                               THEN <<>> ELSE <<req[r].wire>>)
      BY DEF Inv, Good, AccountsInv, Served
    <2>2. PICK w : w = req[r].wire
      OBVIOUS
    <2>3. <<w>> # <<>>
      OBVIOUS
    <2> QED BY <2>1, <2>2, <2>3, Zenon DEF Panicking
  <1> QED BY <1>1, Invariance, PTL

\* A panic is logged and answered, unless it aborts the connection.
THEOREM PanicsAlwaysEndRight == Spec => []PanicsEndRight
  <1>1. Inv => PanicsEndRight
    BY DEF Inv, Good, WrittenInv, PanicsEndRight, Served
  <1> QED BY <1>1, Invariance, PTL

\* Before its deadline, and without a panic, a response is one document.
THEOREM AlwaysOneDocument == Spec => []OneDocument
  <1>1. Inv => OneDocument
    BY DEF Inv, Good, WrittenInv, OneDocument, Served, Panicking
  <1> QED BY <1>1, Invariance, PTL

=============================================================================
