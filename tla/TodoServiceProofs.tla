------------------------- MODULE TodoServiceProofs -------------------------
(***************************************************************************)
(* Proofs about TodoService, for every set of clients, walkers, ids,       *)
(* titles and limits and for every precision of the stored timestamps and  *)
(* every reading of the clocks of the processes.                           *)
(***************************************************************************)
EXTENDS TodoService, FiniteSetTheorems, WellFoundedInduction, TLAPS

-----------------------------------------------------------------------------
(* Truncation to the column's precision.                                   *)

\* What timestamptz stores is a time, and storing it again does not change it.
LEMMA TruncLemma ==
    \A t \in Nat : Trunc(t) \in Nat /\ Trunc(Trunc(t)) = Trunc(t)
  <1>0. Precision \in Nat \ {0}
    BY TimeAssumption
  <1>1. \A t \in Nat : Trunc(t) \in Nat
    BY <1>0 DEF Trunc
  <1>2. \A t \in Nat : Trunc(Trunc(t)) = Trunc(t)
    BY <1>0 DEF Trunc
  <1> QED BY <1>1, <1>2

-----------------------------------------------------------------------------
(* The (created_at, id) order and the pages cut from it.                   *)

RowsTyped == rows \in [Ids -> Todo \cup {NoTodo}]
Below(S, i) == {j \in S : KeyLess(KeyOf(j), KeyOf(i))}

\* A stored row has a key: a natural time and its own id.
LEMMA KeyTyped ==
    ASSUME RowsTyped, NEW i \in Stored
    PROVE  rows[i] \in Todo /\ KeyOf(i) \in Cursor /\ KeyOf(i).id = i
           /\ KeyOf(i).createdAt \in Nat /\ i \in Nat
  BY IdAssumption DEF RowsTyped, Stored, Todo, NoTodo, KeyOf, Cursor

\* The ORDER BY of ListTodos is a strict total order of the stored rows.
LEMMA KeyOrder ==
    ASSUME RowsTyped
    PROVE  /\ \A i \in Stored : ~KeyLess(KeyOf(i), KeyOf(i))
           /\ \A i, j, k \in Stored :
                 KeyLess(KeyOf(i), KeyOf(j)) /\ KeyLess(KeyOf(j), KeyOf(k))
                     => KeyLess(KeyOf(i), KeyOf(k))
           /\ \A i, j \in Stored :
                 i = j \/ KeyLess(KeyOf(i), KeyOf(j)) \/ KeyLess(KeyOf(j), KeyOf(i))
  BY KeyTyped DEF KeyLess

\* Sets of stored rows are finite, and a row further on has more rows below it.
LEMMA RankLemma ==
    ASSUME RowsTyped, NEW S \in SUBSET Stored
    PROVE  /\ IsFiniteSet(S) /\ Cardinality(S) \in Nat
           /\ \A i \in S : /\ IsFiniteSet(Below(S, i))
                           /\ Cardinality(Below(S, i)) \in Nat
                           /\ Cardinality(Below(S, i)) <= Cardinality(S)
           /\ \A i, j \in S : KeyLess(KeyOf(i), KeyOf(j))
                 => Cardinality(Below(S, i)) < Cardinality(Below(S, j))
  <1>1. IsFiniteSet(S) /\ Cardinality(S) \in Nat
    BY IdAssumption, FS_Subset, FS_CardinalityType DEF Stored
  <1>2. ASSUME NEW i \in S
        PROVE  /\ IsFiniteSet(Below(S, i))
               /\ Cardinality(Below(S, i)) \in Nat
               /\ Cardinality(Below(S, i)) <= Cardinality(S)
    <2>1. Below(S, i) \in SUBSET S
      BY DEF Below
    <2> QED BY <1>1, <2>1, FS_Subset, FS_CardinalityType
  <1>3. ASSUME NEW i \in S, NEW j \in S, KeyLess(KeyOf(i), KeyOf(j))
        PROVE  Cardinality(Below(S, i)) < Cardinality(Below(S, j))
    <2>1. i \notin Below(S, i)
      BY KeyOrder DEF Below
    <2>2. Below(S, i) \cup {i} \in SUBSET Below(S, j)
      BY <1>3, KeyOrder DEF Below
    <2>3. Cardinality(Below(S, i) \cup {i}) = Cardinality(Below(S, i)) + 1
      BY <1>2, <2>1, FS_AddElement
    <2>4. Cardinality(Below(S, i) \cup {i}) <= Cardinality(Below(S, j))
      BY <1>2, <2>2, FS_Subset
    <2> QED BY <1>2, <2>3, <2>4
  <1> QED BY <1>1, <1>2, <1>3

\* A non-empty set of naturals has a least element.
LEMMA LeastNatural ==
    ASSUME NEW T \in SUBSET Nat, T # {}
    PROVE  \E x \in T : \A y \in T : x <= y
  <1>1. \E x \in T : \A y \in T : ~(<<y, x>> \in OpToRel(<, Nat))
    BY WFMin, NatLessThanWellFounded
  <1>2. \A x, y \in Nat : y < x => <<y, x>> \in OpToRel(<, Nat)
    BY Zenon DEF OpToRel
  <1>3. \E x \in T : \A y \in T : ~(y < x)
    BY <1>1, <1>2
  <1> QED BY <1>3

\* A non-empty set of stored rows has a first and a last row.
LEMMA FirstAndLast ==
    ASSUME RowsTyped, NEW S \in SUBSET Stored, S # {}
    PROVE  /\ \E i \in S : \A j \in S : ~KeyLess(KeyOf(j), KeyOf(i))
           /\ \E i \in S : \A j \in S : ~KeyLess(KeyOf(i), KeyOf(j))
  <1> DEFINE rank(i) == Cardinality(Below(S, i))
             Up == {rank(i) : i \in S}
             Down == {Cardinality(S) - rank(i) : i \in S}
  <1>1. /\ \A i \in S : rank(i) \in Nat /\ Cardinality(S) - rank(i) \in Nat
        /\ \A i, j \in S : KeyLess(KeyOf(i), KeyOf(j)) => rank(i) < rank(j)
        /\ Cardinality(S) \in Nat
    BY RankLemma
  <1> HIDE DEF rank
  <1>2. PICK x \in Up : \A y \in Up : x <= y
    <2>1. Up \in SUBSET Nat /\ Up # {}
      BY <1>1
    <2> QED BY <2>1, LeastNatural
  <1>3. PICK i \in S : x = rank(i)
    BY <1>2
  <1>4. \A j \in S : ~KeyLess(KeyOf(j), KeyOf(i))
    <2>1. \A j \in S : rank(i) <= rank(j)
      BY <1>2, <1>3
    <2> QED BY <1>1, <2>1
  <1>5. PICK z \in Down : \A y \in Down : z <= y
    <2>1. Down \in SUBSET Nat /\ Down # {}
      BY <1>1
    <2> QED BY <2>1, LeastNatural
  <1>6. PICK k \in S : z = Cardinality(S) - rank(k)
    BY <1>5
  <1>7. \A j \in S : ~KeyLess(KeyOf(k), KeyOf(j))
    BY <1>1, <1>5, <1>6
  <1> QED BY <1>4, <1>7

\* What LIMIT n keeps: at most n rows; if a row is kept so is every row before it;
\* something is kept of a non-empty set; if fewer than n rows are kept, all are.
LEMMA LimitLemma ==
    ASSUME RowsTyped, NEW S \in SUBSET Stored, NEW n \in Nat \ {0}
    PROVE  /\ FirstOf(S, n) \subseteq S
           /\ S # {} => FirstOf(S, n) # {}
           /\ \A i \in S : \A k \in FirstOf(S, n) :
                 ~KeyLess(KeyOf(k), KeyOf(i)) => i \in FirstOf(S, n)
           /\ Cardinality(FirstOf(S, n)) < n => FirstOf(S, n) = S
           /\ Cardinality(FirstOf(S, n)) \in Nat /\ Cardinality(FirstOf(S, n)) <= n
  <1>1. FirstOf(S, n) \subseteq S /\ FirstOf(S, n) \in SUBSET Stored
    BY DEF FirstOf
  <1>2. \A i \in S : i \in FirstOf(S, n) <=> Cardinality(Below(S, i)) < n
    BY DEF FirstOf, Below
  <1>3. ASSUME S # {} PROVE FirstOf(S, n) # {}
    <2>1. PICK i \in S : \A j \in S : ~KeyLess(KeyOf(j), KeyOf(i))
      BY <1>3, FirstAndLast
    <2>2. Below(S, i) = {}
      BY <2>1 DEF Below
    <2>3. Cardinality(Below(S, i)) = 0
      BY <2>2, FS_EmptySet
    <2> QED BY <1>2, <2>3
  <1>4. ASSUME NEW i \in S, NEW k \in FirstOf(S, n), ~KeyLess(KeyOf(k), KeyOf(i))
        PROVE  i \in FirstOf(S, n)
    <2>1. CASE i = k
      BY <2>1, <1>4
    <2>2. CASE KeyLess(KeyOf(i), KeyOf(k))
      BY <1>1, <1>2, <1>4, <2>2, RankLemma
    <2> QED BY <1>1, <1>4, <2>1, <2>2, KeyOrder
  <1>5. ASSUME Cardinality(FirstOf(S, n)) < n, FirstOf(S, n) # S PROVE FALSE
    <2>1. S \ FirstOf(S, n) \in SUBSET Stored /\ S \ FirstOf(S, n) # {}
      BY <1>1, <1>5
    <2>2. PICK i \in S \ FirstOf(S, n) :
              \A j \in S \ FirstOf(S, n) : ~KeyLess(KeyOf(j), KeyOf(i))
      BY <2>1, FirstAndLast
    <2>3. Below(S, i) \in SUBSET FirstOf(S, n)
      BY <2>2 DEF Below
    <2>4. Cardinality(Below(S, i)) <= Cardinality(FirstOf(S, n))
      BY <1>1, <2>3, RankLemma, FS_Subset
    <2>5. Cardinality(Below(S, i)) \in Nat /\ Cardinality(FirstOf(S, n)) \in Nat
      BY <1>1, RankLemma
    <2> QED BY <1>2, <1>5, <2>2, <2>4, <2>5
  <1>6. Cardinality(FirstOf(S, n)) \in Nat /\ Cardinality(FirstOf(S, n)) <= n
    <2>1. CASE FirstOf(S, n) = {}
      BY <2>1, FS_EmptySet
    <2>2. CASE FirstOf(S, n) # {}
      <3>1. PICK k \in FirstOf(S, n) :
                \A j \in FirstOf(S, n) : ~KeyLess(KeyOf(k), KeyOf(j))
        BY <1>1, <2>2, FirstAndLast
      <3>2. FirstOf(S, n) \in SUBSET (Below(S, k) \cup {k})
        BY <1>1, <3>1, KeyOrder DEF Below
      <3>3. /\ IsFiniteSet(Below(S, k) \cup {k})
            /\ Cardinality(Below(S, k) \cup {k}) <= Cardinality(Below(S, k)) + 1
            /\ Cardinality(Below(S, k)) < n /\ Cardinality(Below(S, k)) \in Nat
            /\ Cardinality(Below(S, k) \cup {k}) \in Nat
        <4>1. /\ IsFiniteSet(Below(S, k)) /\ Cardinality(Below(S, k)) \in Nat
              /\ Cardinality(Below(S, k)) < n
          BY <1>1, <1>2, <3>1, RankLemma
        <4>2. /\ IsFiniteSet(Below(S, k) \cup {k})
              /\ Cardinality(Below(S, k) \cup {k}) =
                    IF k \in Below(S, k) THEN Cardinality(Below(S, k))
                    ELSE Cardinality(Below(S, k)) + 1
          BY <4>1, FS_AddElement
        <4> QED BY <4>1, <4>2
      <3>4. Cardinality(FirstOf(S, n)) <= Cardinality(Below(S, k) \cup {k})
        BY <3>2, <3>3, FS_Subset
      <3>5. Cardinality(FirstOf(S, n)) \in Nat
        BY <1>1, RankLemma
      <3> QED BY <3>3, <3>4, <3>5
    <2> QED BY <2>1, <2>2
  <1> QED BY <1>1, <1>3, <1>4, <1>5, <1>6

\* What one call of TodoRepository.List returns: only rows after the cursor, at
\* most limit of them; with a next cursor, exactly the rows up to it, which lies
\* beyond the old one; without, all the rows that are left.
LEMMA PageLemma ==
    ASSUME RowsTyped, NEW cursor \in Cursor \cup {NoCursor}, NEW limit \in Nat \ {0},
           NEW r, r = RepoList(cursor, limit)
    PROVE  /\ r.todos \subseteq RowsAfter(cursor)
           /\ IsFiniteSet(r.todos) /\ Cardinality(r.todos) \in 0..limit
           /\ r.more \in BOOLEAN
           /\ r.more => /\ r.next \in Cursor
                        /\ cursor # NoCursor => KeyLess(cursor, r.next)
                        /\ \A i \in RowsAfter(cursor) :
                              i \in r.todos <=> ~KeyLess(r.next, KeyOf(i))
           /\ ~r.more => r.next = NoCursor /\ r.todos = RowsAfter(cursor)
  <1> DEFINE A == RowsAfter(cursor)
             fetched == ListTodos(cursor, limit + 1)
             page == FirstOf(fetched, limit)
  <1>1. A \in SUBSET Stored
    BY DEF RowsAfter
  <1>2. fetched = FirstOf(A, limit + 1) /\ limit + 1 \in Nat \ {0} /\ limit \in Nat
    BY DEF ListTodos
  <1>3. fetched \in SUBSET Stored /\ fetched \subseteq A
    BY <1>1, <1>2, LimitLemma
  <1>4. Cardinality(fetched) \in Nat /\ IsFiniteSet(fetched)
    BY <1>3, RankLemma
  <1>5. CASE Cardinality(fetched) > limit
    <2>1. r = [todos |-> page, more |-> TRUE, next |-> KeyOf(Last(page))]
      BY <1>5 DEF RepoList
    <2>2. fetched # {}
      BY <1>2, <1>5, FS_EmptySet
    <2>3. /\ page \subseteq fetched /\ page # {} /\ page \in SUBSET Stored
          /\ Cardinality(page) \in 0..limit
      BY <1>2, <1>3, <2>2, LimitLemma
    <2>4. IsFiniteSet(page)
      BY <2>3, RankLemma
    <2>5. PICK k \in page : \A j \in page : ~KeyLess(KeyOf(k), KeyOf(j))
      BY <2>3, FirstAndLast
    <2>6. Last(page) \in page /\ \A j \in page : ~KeyLess(KeyOf(Last(page)), KeyOf(j))
      BY <2>5 DEF Last
    <2>7. ASSUME NEW i \in A, ~KeyLess(KeyOf(Last(page)), KeyOf(i)) PROVE i \in page
      <3>1. i \in fetched
        BY <1>1, <1>2, <2>3, <2>6, <2>7, LimitLemma
      <3> QED BY <1>2, <1>3, <2>6, <2>7, <3>1, LimitLemma
    <2>8. KeyOf(Last(page)) \in Cursor
      BY <2>3, <2>6, KeyTyped
    <2> HIDE DEF page, fetched, A
    <2>9. r.todos = page /\ r.more = TRUE /\ r.next = KeyOf(Last(page))
      BY <2>1
    <2>10. page \subseteq RowsAfter(cursor)
      BY <1>3, <2>3 DEF A
    <2>11. cursor # NoCursor => KeyLess(cursor, KeyOf(Last(page)))
      BY <2>6, <2>10 DEF RowsAfter
    <2> QED BY <2>3, <2>4, <2>6, <2>7, <2>8, <2>9, <2>10, <2>11 DEF A
  <1>6. CASE ~(Cardinality(fetched) > limit)
    <2>1. r = [todos |-> fetched, more |-> FALSE, next |-> NoCursor]
      BY <1>6 DEF RepoList
    <2> HIDE DEF fetched, A
    <2>2. fetched = A
      <3>1. Cardinality(FirstOf(A, limit + 1)) < limit + 1
        BY <1>2, <1>4, <1>6
      <3> QED BY <1>1, <1>2, <3>1, LimitLemma
    <2> QED BY <1>4, <1>6, <2>1, <2>2 DEF A
  <1> QED BY <1>5, <1>6

-----------------------------------------------------------------------------
(* The inductive invariant.                                                *)

\* A todo the domain can have made.
LegalTodo(t) ==
    /\ t.title.pad = 0 /\ t.title.runes \in 1..MaxTitleLength
    /\ (t.completedAt = NoTime) <=> (t.status = "open")

\* A row was made under an id newID returned, and its time is one the column stores.
RowInv ==
    \A i \in Stored : /\ rows[i].id = i /\ i \in issued
                      /\ LegalTodo(rows[i])
                      /\ Trunc(rows[i].createdAt) = rows[i].createdAt

\* A todo about to be saved is either new, and then no row and no other handler has
\* its id, or a copy of a row with the row's title and creation time.
HeldInv ==
    \A c \in Clients : held[c] # NoTodo =>
        /\ LegalTodo(held[c]) /\ held[c].id \in issued
        /\ held[c].status = "open" =>
              /\ held[c].id \notin Stored
              /\ \A d \in Clients : d # c /\ held[d] # NoTodo => held[d].id # held[c].id
        /\ held[c].status = "completed" =>
              /\ held[c].id \in Stored
              /\ rows[held[c].id].title = held[c].title
              /\ rows[held[c].id].createdAt = held[c].createdAt

\* What a walk has seen is stored, counted once, and lies at or before the cursor.
WalkInv ==
    \A w \in Walkers :
        /\ walk[w].base \subseteq Stored /\ walk[w].seen \subseteq Stored
        /\ walk[w].state = "open" => /\ walk[w].cursor \in Cursor
                                     /\ \A i \in walk[w].seen : ~KeyLess(walk[w].cursor, KeyOf(i))
        /\ Cardinality(walk[w].seen) = walk[w].delivered

Inv == TypeOK /\ RowInv /\ HeldInv /\ AnswersStayTrue /\ WalkInv /\ WalkMissesNothing

-----------------------------------------------------------------------------
(* Saving keeps what is stored.                                            *)

\* What every step keeps of a stored row.
RowKept(i) ==
    /\ rows'[i] # NoTodo
    /\ rows'[i].title = rows[i].title
    /\ rows'[i].createdAt = rows[i].createdAt
    /\ rows[i].status = "completed" => rows'[i].status = "completed"

\* The sentinel is no todo.
LEMMA NoTodoLemma == NoTodo \notin Todo /\ NoTime \notin Nat /\ NoTime \in Int
  BY IdAssumption DEF NoTodo, Todo, NoTime

\* An upsert of what a handler holds adds its id and rewrites no history.
LEMMA UpsertLemma ==
    ASSUME Inv, NEW c \in Clients, held[c] # NoTodo, rows' = Upsert(held[c])
    PROVE  /\ rows' \in [Ids -> Todo \cup {NoTodo}]
           /\ Stored' = Stored \cup {held[c].id}
           /\ rows'[held[c].id] = ToRow(held[c])
           /\ \A i \in Ids : i # held[c].id => rows'[i] = rows[i]
           /\ \A i \in Stored : RowKept(i)
  <1> DEFINE t == held[c]
  <1>1. t \in Todo /\ rows \in [Ids -> Todo \cup {NoTodo}]
    BY DEF Inv, TypeOK
  <1>2. ToRow(t) \in Todo
    BY <1>1, TruncLemma, NoTodoLemma DEF ToRow, Todo
  <1>3. /\ rows' \in [Ids -> Todo \cup {NoTodo}]
        /\ rows'[t.id] = ToRow(t)
        /\ \A i \in Ids : i # t.id => rows'[i] = rows[i]
    BY <1>1, <1>2 DEF Upsert, Todo
  <1>4. Stored' = Stored \cup {t.id}
    BY <1>1, <1>2, <1>3, NoTodoLemma DEF Stored, Todo
  <1>5. ASSUME NEW i \in Stored PROVE RowKept(i)
    <2>1. CASE i # t.id
      BY <1>3, <1>5, <2>1 DEF RowKept, Stored
    <2>2. CASE i = t.id
      <3>1. /\ t.status = "completed"
            /\ rows[i].title = t.title
            /\ rows[i].createdAt = t.createdAt
        BY <1>1, <1>5, <2>2 DEF Inv, HeldInv, Todo, Status
      <3>2. Trunc(t.createdAt) = rows[i].createdAt
        BY <1>5, <3>1 DEF Inv, RowInv
      <3>3. /\ ToRow(t).title = t.title /\ ToRow(t).status = t.status
            /\ ToRow(t).createdAt = Trunc(t.createdAt)
        BY <1>1 DEF ToRow, Todo
      <3>4. rows'[i] = ToRow(t) /\ ToRow(t) # NoTodo
        BY <1>2, <1>3, <2>2, NoTodoLemma
      <3> QED BY <3>1, <3>2, <3>3, <3>4 DEF RowKept
    <2> QED BY <2>1, <2>2
  <1> QED BY <1>3, <1>4, <1>5

-----------------------------------------------------------------------------
(* Each kind of step preserves the invariant.                              *)

\* A walk survives any step that keeps the rows it has met.
LEMMA WalkKept ==
    ASSUME Inv, rows' \in [Ids -> Todo \cup {NoTodo}], \A i \in Stored : RowKept(i), walk' = walk
    PROVE  WalkInv' /\ WalkMissesNothing'
  <1>1. Stored \subseteq Stored' /\ \A i \in Stored : KeyOf(i)' = KeyOf(i)
    BY DEF Stored, RowKept, KeyOf
  <1>2. \A w \in Walkers : walk[w].base \subseteq Stored /\ walk[w].seen \subseteq Stored
    BY DEF Inv, WalkInv
  <1>3. WalkInv'
    BY <1>1, <1>2 DEF Inv, WalkInv, KeyLess
  <1>4. WalkMissesNothing'
    BY <1>1, <1>2 DEF Inv, WalkMissesNothing, KeyLess
  <1> QED BY <1>3, <1>4

\* So do the answers already given.
LEMMA AnswersKept ==
    ASSUME Inv, \A i \in Stored : RowKept(i), rows' \in [Ids -> Todo \cup {NoTodo}],
           NEW d \in Clients, reply'[d] = reply[d], reply[d].todo # NoTodo
    PROVE  LET t == reply'[d].todo IN
           /\ t.id \in Stored'
           /\ rows'[t.id].title = t.title
           /\ rows'[t.id].createdAt = Trunc(t.createdAt)
           /\ t.status = "completed" => rows'[t.id].status = "completed"
  BY DEF Inv, AnswersStayTrue, RowKept, Stored

Codes == {0, 200, 201, 404, 422, 500}

\* A step that only answers, with nothing or with a row it has read.
LEMMA QuietStep ==
    ASSUME Inv, UNCHANGED <<rows, held, walk>>,
           issued \subseteq issued', issued' \subseteq Ids,
           NEW c \in Clients, NEW code \in Codes, NEW t \in {NoTodo} \cup {rows[i] : i \in Stored},
           Respond(c, code, t)
    PROVE  Inv'
  <1> USE DEF Codes
  <1>1. RowsTyped /\ \A i \in Stored : rows[i] \in Todo
    BY KeyTyped DEF Inv, TypeOK, RowsTyped
  <1>2. TypeOK'
    <2>1. t \in Todo \cup {NoTodo}
      BY <1>1
    <2>2. reply' \in [Clients -> [code : Codes, todo : Todo \cup {NoTodo}]]
      BY <2>1 DEF Inv, TypeOK, Respond
    <2> QED BY <2>2 DEF Inv, TypeOK
  <1>3. RowInv'
    BY DEF Inv, RowInv, Stored, LegalTodo
  <1>4. HeldInv'
    BY DEF Inv, HeldInv, Stored, LegalTodo
  <1>5. \A i \in Stored : RowKept(i)
    BY DEF RowKept, Stored
  <1>6. WalkInv' /\ WalkMissesNothing'
    BY <1>5, WalkKept DEF Inv, TypeOK
  <1>7. AnswersStayTrue'
    <2> SUFFICES ASSUME NEW d \in Clients, reply'[d].todo # NoTodo
                 PROVE  LET u == reply'[d].todo IN
                        /\ u.id \in Stored'
                        /\ rows'[u.id].title = u.title
                        /\ rows'[u.id].createdAt = Trunc(u.createdAt)
                        /\ u.status = "completed" => rows'[u.id].status = "completed"
      BY DEF AnswersStayTrue, Stored, Trunc
    <2>1. CASE d # c
      <3>1. reply'[d] = reply[d]
        BY <2>1 DEF Respond, Inv, TypeOK
      <3> QED BY <1>5, <3>1, AnswersKept DEF Inv, TypeOK
    <2>2. CASE d = c
      <3>1. reply'[d].todo = t
        BY <2>2 DEF Respond, Inv, TypeOK
      <3>2. PICK i \in Stored : t = rows[i]
        BY <3>1
      <3>3. t.id = i /\ Trunc(t.createdAt) = t.createdAt
        BY <3>2 DEF Inv, RowInv
      <3> QED BY <3>1, <3>2, <3>3 DEF Stored
    <2> QED BY <2>1, <2>2
  <1> QED BY <1>2, <1>3, <1>4, <1>6, <1>7 DEF Inv

\* Create stamps a todo under a fresh id.
LEMMA CreateBeginStep ==
    ASSUME Inv, NEW c \in Clients, NEW id \in Ids, NEW title \in Titles, NEW via \in Via,
           NEW at \in Times, CreateBegin(c, id, title, via, at)
    PROVE  Inv'
  <1> DEFINE t == NewTodo(id, title, at)
  <1>1. /\ t \in Todo /\ t # NoTodo /\ t.id = id /\ t.status = "open" /\ id \notin issued
        /\ t.title.pad = 0 /\ t.title.runes \in 1..MaxTitleLength
        /\ t.createdAt = at /\ t.completedAt = NoTime
    <2>1. title \in [pad : Nat, runes : Nat] /\ at \in Nat /\ id \notin issued
      BY TitleAssumption, TimeAssumption DEF Inv, TypeOK, CreateBegin
    <2>2. /\ TrimSpace(title) \in Title /\ TrimSpace(title).pad = 0
          /\ TrimSpace(title).runes \in 1..MaxTitleLength
      BY <2>1 DEF TrimSpace, Title, CreateBegin, ValidTitle
    <2>3. t \in Todo
      BY <2>1, <2>2 DEF NewTodo, Todo, Status
    <2>4. t # NoTodo
      BY <2>3, NoTodoLemma
    <2> QED BY <2>1, <2>2, <2>3, <2>4 DEF NewTodo
  <1> HIDE DEF t
  <1>2. /\ held' = [held EXCEPT ![c] = t] /\ issued' = issued \cup {id}
        /\ UNCHANGED <<rows, reply, walk>>
    BY DEF CreateBegin, t
  <1>3. /\ held'[c] = t
        /\ \A d \in Clients : d # c => held'[d] = held[d]
        /\ held' \in [Clients -> Todo \cup {NoTodo}]
    BY <1>1, <1>2 DEF Inv, TypeOK
  <1>4. TypeOK'
    BY <1>2, <1>3 DEF Inv, TypeOK
  <1>5. RowInv'
    BY <1>2 DEF Inv, RowInv, Stored, LegalTodo
  <1>6. HeldInv'
    <2>1. id \notin Stored /\ \A d \in Clients : held[d] # NoTodo => held[d].id # id
      BY <1>1 DEF Inv, RowInv, HeldInv
    <2>2. LegalTodo(t)
      BY <1>1 DEF LegalTodo, NoTime
    <2>3. ASSUME NEW d \in Clients, held'[d] # NoTodo
          PROVE  /\ LegalTodo(held'[d]) /\ held'[d].id \in issued'
                 /\ held'[d].status = "open" =>
                       /\ held'[d].id \notin Stored
                       /\ \A e \in Clients : e # d /\ held'[e] # NoTodo
                                              => held'[e].id # held'[d].id
                 /\ held'[d].status = "completed" =>
                       /\ held'[d].id \in Stored
                       /\ rows[held'[d].id].title = held'[d].title
                       /\ rows[held'[d].id].createdAt = held'[d].createdAt
      <3>1. CASE d = c
        BY <1>1, <1>2, <1>3, <2>1, <2>2, <3>1
      <3>2. CASE d # c
        BY <1>1, <1>2, <1>3, <2>1, <2>3, <3>2 DEF Inv, HeldInv
      <3> QED BY <3>1, <3>2
    <2> QED BY <1>2, <2>3 DEF HeldInv, Stored, LegalTodo
  <1>7. AnswersStayTrue' /\ WalkInv' /\ WalkMissesNothing'
    BY <1>2 DEF Inv, AnswersStayTrue, Stored, Trunc, WalkInv, WalkMissesNothing, KeyLess, KeyOf
  <1> QED BY <1>4, <1>5, <1>6, <1>7 DEF Inv

\* Complete marks a copy of a row; a row already completed is copied as it is.
LEMMA CompleteBeginStep ==
    ASSUME Inv, NEW c \in Clients, NEW id \in SentIds, NEW at \in Times,
           CompleteBegin(c, id, at)
    PROVE  Inv'
  <1> DEFINE t == CompleteTodo(rows[id], at)
  <1>1. /\ id \in Stored /\ rows[id] \in Todo /\ rows[id].id = id /\ id \in issued
        /\ LegalTodo(rows[id]) /\ at \in Nat
    BY KeyTyped, TimeAssumption DEF Inv, TypeOK, RowsTyped, RowInv, CompleteBegin, FoundByID
  <1>2. /\ t \in Todo /\ t # NoTodo /\ t.id = id /\ t.status = "completed"
        /\ t.title = rows[id].title /\ t.createdAt = rows[id].createdAt
        /\ LegalTodo(t)
    <2>1. CASE rows[id].status = "completed"
      BY <1>1, <2>1, NoTodoLemma DEF CompleteTodo
    <2>2. CASE rows[id].status # "completed"
      <3>1. t = [rows[id] EXCEPT !.status = "completed", !.completedAt = at]
        BY <2>2 DEF CompleteTodo
      <3>2. t \in Todo /\ t.id = id /\ t.status = "completed" /\ t.completedAt = at
            /\ t.title = rows[id].title /\ t.createdAt = rows[id].createdAt
        BY <1>1, <3>1 DEF Todo, Status
      <3> QED BY <1>1, <3>2, NoTodoLemma DEF LegalTodo
    <2> QED BY <2>1, <2>2
  <1> HIDE DEF t
  <1>3. /\ held' = [held EXCEPT ![c] = t]
        /\ UNCHANGED <<issued, rows, reply, walk>>
    BY DEF CompleteBegin, t
  <1>4. /\ held'[c] = t
        /\ \A d \in Clients : d # c => held'[d] = held[d]
        /\ held' \in [Clients -> Todo \cup {NoTodo}]
    BY <1>2, <1>3 DEF Inv, TypeOK
  <1>5. TypeOK'
    BY <1>3, <1>4 DEF Inv, TypeOK
  <1>6. RowInv'
    BY <1>3 DEF Inv, RowInv, Stored, LegalTodo
  <1>7. HeldInv'
    <2>1. ASSUME NEW d \in Clients, held'[d] # NoTodo
          PROVE  /\ LegalTodo(held'[d]) /\ held'[d].id \in issued
                 /\ held'[d].status = "open" =>
                       /\ held'[d].id \notin Stored
                       /\ \A e \in Clients : e # d /\ held'[e] # NoTodo
                                              => held'[e].id # held'[d].id
                 /\ held'[d].status = "completed" =>
                       /\ held'[d].id \in Stored
                       /\ rows[held'[d].id].title = held'[d].title
                       /\ rows[held'[d].id].createdAt = held'[d].createdAt
      <3>1. CASE d = c
        BY <1>1, <1>2, <1>4, <3>1
      <3>2. CASE d # c
        BY <1>1, <1>2, <1>4, <2>1, <3>2 DEF Inv, HeldInv
      <3> QED BY <3>1, <3>2
    <2> QED BY <1>3, <2>1 DEF HeldInv, Stored, LegalTodo
  <1>8. AnswersStayTrue' /\ WalkInv' /\ WalkMissesNothing'
    BY <1>3 DEF Inv, AnswersStayTrue, Stored, Trunc, WalkInv, WalkMissesNothing, KeyLess, KeyOf
  <1> QED BY <1>5, <1>6, <1>7, <1>8 DEF Inv

\* The end of a save, applied or not, acknowledged or not.
LEMMA SaveStep ==
    ASSUME Inv, NEW c \in Clients, Save(c)
    PROVE  Inv' /\ \A i \in Stored : RowKept(i)
  <1> DEFINE t == held[c]
  <1>1. /\ t # NoTodo /\ t \in Todo /\ LegalTodo(t) /\ t.id \in issued
        /\ held' = [held EXCEPT ![c] = NoTodo] /\ UNCHANGED <<issued, walk>>
    BY DEF Inv, TypeOK, HeldInv, Save, Saved, SaveFailed, Idle
  <1>2. rows' = rows \/ rows' = Upsert(t)
    BY DEF Save, Saved, SaveFailed
  <1>3. /\ rows' \in [Ids -> Todo \cup {NoTodo}]
        /\ Stored \subseteq Stored' /\ Stored' \subseteq Stored \cup {t.id}
        /\ \A i \in Ids : rows'[i] = rows[i] \/ (i = t.id /\ rows'[i] = ToRow(t))
        /\ \A i \in Stored : RowKept(i)
    <2>1. CASE rows' = rows
      BY <2>1 DEF Inv, TypeOK, Stored, RowKept
    <2>2. CASE rows' = Upsert(t)
      BY <1>1, <2>2, UpsertLemma
    <2> QED BY <1>2, <2>1, <2>2
  <1>4. /\ ToRow(t).id = t.id /\ ToRow(t).title = t.title /\ ToRow(t).status = t.status
        /\ ToRow(t).createdAt = Trunc(t.createdAt) /\ Trunc(ToRow(t).createdAt) = ToRow(t).createdAt
        /\ LegalTodo(ToRow(t))
    <2>1. /\ ToRow(t).id = t.id /\ ToRow(t).title = t.title /\ ToRow(t).status = t.status
          /\ ToRow(t).createdAt = Trunc(t.createdAt)
          /\ ToRow(t).completedAt = IF t.completedAt = NoTime THEN NoTime ELSE Trunc(t.completedAt)
      BY <1>1 DEF ToRow, Todo
    <2>2. t.createdAt \in Nat /\ t.completedAt \in Nat \cup {NoTime} /\ t.status \in Status
      BY <1>1 DEF Todo
    <2>3. Trunc(t.createdAt) \in Nat /\ Trunc(Trunc(t.createdAt)) = Trunc(t.createdAt)
      BY <2>2, TruncLemma
    <2>4. t.completedAt # NoTime => Trunc(t.completedAt) \in Nat
      BY <2>2, TruncLemma
    <2> QED BY <1>1, <2>1, <2>2, <2>3, <2>4, NoTodoLemma DEF LegalTodo
  <1>5. /\ held'[c] = NoTodo /\ held' \in [Clients -> Todo \cup {NoTodo}]
        /\ \A d \in Clients : d # c => held'[d] = held[d]
    BY <1>1 DEF Inv, TypeOK
  <1>6. /\ reply' \in [Clients -> [code : Codes, todo : Todo \cup {NoTodo}]]
        /\ \A d \in Clients : d # c => reply'[d] = reply[d]
        /\ \/ reply'[c].todo = NoTodo
           \/ reply'[c].todo = t /\ rows' = Upsert(t)
    <2>1. CASE Saved(c)
      BY <1>1, <2>1 DEF Saved, Respond, Inv, TypeOK, Codes
    <2>2. CASE SaveFailed(c)
      BY <1>1, <2>2 DEF SaveFailed, Refuse, Respond, ToHumaError, Inv, TypeOK, Codes
    <2> QED BY <2>1, <2>2 DEF Save
  <1> HIDE DEF t
  <1>7. TypeOK'
    BY <1>1, <1>3, <1>5, <1>6 DEF Inv, TypeOK, Codes
  <1>8. RowInv'
    <2>1. ASSUME NEW i \in Stored'
          PROVE  /\ rows'[i].id = i /\ i \in issued /\ LegalTodo(rows'[i])
                 /\ Trunc(rows'[i].createdAt) = rows'[i].createdAt
      <3>1. i \in Ids /\ rows'[i] # NoTodo
        BY <2>1 DEF Stored
      <3>2. CASE rows'[i] = rows[i]
        BY <3>1, <3>2 DEF Inv, RowInv, Stored
      <3>3. CASE i = t.id /\ rows'[i] = ToRow(t)
        BY <1>1, <1>4, <3>3
      <3> QED BY <1>3, <3>1, <3>2, <3>3
    <2> QED BY <1>1, <2>1 DEF RowInv, LegalTodo, Trunc
  <1>9. HeldInv'
    <2>1. ASSUME NEW d \in Clients, held'[d] # NoTodo
          PROVE  /\ LegalTodo(held'[d]) /\ held'[d].id \in issued
                 /\ held'[d].status = "open" =>
                       /\ held'[d].id \notin Stored'
                       /\ \A e \in Clients : e # d /\ held'[e] # NoTodo
                                              => held'[e].id # held'[d].id
                 /\ held'[d].status = "completed" =>
                       /\ held'[d].id \in Stored'
                       /\ rows'[held'[d].id].title = held'[d].title
                       /\ rows'[held'[d].id].createdAt = held'[d].createdAt
      <3>1. d # c /\ held'[d] = held[d]
        BY <1>5, <2>1
      <3>2. held[d].status = "open" => held[d].id # t.id
        BY <1>1, <2>1, <3>1 DEF Inv, HeldInv, t
      <3> QED BY <1>3, <1>5, <2>1, <3>1, <3>2 DEF Inv, HeldInv, RowKept
    <2> QED BY <1>1, <2>1 DEF HeldInv, LegalTodo
  <1>10. AnswersStayTrue'
    <2> SUFFICES ASSUME NEW d \in Clients, reply'[d].todo # NoTodo
                 PROVE  LET u == reply'[d].todo IN
                        /\ u.id \in Stored'
                        /\ rows'[u.id].title = u.title
                        /\ rows'[u.id].createdAt = Trunc(u.createdAt)
                        /\ u.status = "completed" => rows'[u.id].status = "completed"
      BY DEF AnswersStayTrue, Trunc
    <2>1. CASE d # c
      BY <1>3, <1>6, <2>1, AnswersKept
    <2>2. CASE d = c
      <3>1. reply'[d].todo = t /\ rows' = Upsert(t)
        BY <1>6, <2>2
      <3>2. t.id \in Stored' /\ rows'[t.id] = ToRow(t)
        BY <1>1, <3>1, UpsertLemma DEF t
      <3> QED BY <1>4, <3>1, <3>2
    <2> QED BY <2>1, <2>2
  <1>11. WalkInv' /\ WalkMissesNothing'
    BY <1>1, <1>3, WalkKept
  <1> QED BY <1>3, <1>7, <1>8, <1>9, <1>10, <1>11 DEF Inv

\* Where a request for the next page of a walk starts, and what it means that the
\* step leaves no gap between there and the cursor it returns.
Start(w) == IF walk[w].state = "open" THEN walk[w].cursor ELSE NoCursor
Gapless(w, from) ==
    \A i \in RowsAfter(from) :
        walk'[w].state = "done" \/ ~KeyLess(walk'[w].cursor, KeyOf(i)) => i \in walk'[w].seen
NoGap == \A w \in Walkers : walk'[w].code = 200 /\ walk'[w] # walk[w] => Gapless(w, Start(w))

\* A page extends a walk that has seen exactly what it should.
LEMMA TakePageStep ==
    ASSUME Inv, NEW w \in Walkers, NEW limit \in Nat \ {0},
           NEW cursor \in Cursor \cup {NoCursor},
           NEW seen \in SUBSET Stored, NEW base \in SUBSET Stored, NEW delivered \in Nat,
           Cardinality(seen) = delivered,
           cursor = NoCursor => seen = {},
           cursor # NoCursor =>
               /\ \A i \in seen : ~KeyLess(cursor, KeyOf(i))
               /\ \A i \in base : ~KeyLess(cursor, KeyOf(i)) => i \in seen,
           TakePage(w, limit, cursor, seen, base, delivered),
           UNCHANGED <<issued, rows, held, reply>>
    PROVE  /\ Inv'
           /\ walk'[w].delivered \in delivered..(delivered + limit)
           /\ \A v \in Walkers : v # w => walk'[v] = walk[v]
           /\ Gapless(w, cursor)
  <1>1. PICK r : r = RepoList(cursor, limit)
    OBVIOUS
  <1> DEFINE new == [state |-> IF r.more THEN "open" ELSE "done", cursor |-> r.next,
                     seen |-> seen \cup r.todos, base |-> base,
                     delivered |-> delivered + Cardinality(r.todos), code |-> 200]
  <1>2. walk' = [walk EXCEPT ![w] = new]
    BY <1>1 DEF TakePage
  <1>3. /\ r.todos \subseteq RowsAfter(cursor)
        /\ IsFiniteSet(r.todos) /\ Cardinality(r.todos) \in 0..limit
        /\ r.more \in BOOLEAN
        /\ r.more => /\ r.next \in Cursor
                     /\ cursor # NoCursor => KeyLess(cursor, r.next)
                     /\ \A i \in RowsAfter(cursor) :
                           i \in r.todos <=> ~KeyLess(r.next, KeyOf(i))
        /\ ~r.more => r.next = NoCursor /\ r.todos = RowsAfter(cursor)
    <2>1. RowsTyped
      BY DEF Inv, TypeOK, RowsTyped
    <2> QED BY <1>1, <2>1, PageLemma
  <1>4. RowsTyped /\ RowsAfter(cursor) \subseteq Stored /\ Stored \subseteq Ids
    BY DEF Inv, TypeOK, RowsTyped, RowsAfter, Stored
  <1>5. new \in [state : {"none", "open", "done"}, cursor : Cursor \cup {NoCursor},
                seen : SUBSET Ids, base : SUBSET Ids,
                delivered : Nat, code : {0, 200, 422, 500}]
    BY <1>3, <1>4
  <1>6. /\ new.state = (IF r.more THEN "open" ELSE "done") /\ new.cursor = r.next
        /\ new.seen = seen \cup r.todos /\ new.base = base
        /\ new.delivered = delivered + Cardinality(r.todos)
    OBVIOUS
  <1> HIDE DEF new
  <1>7. walk'[w] = new /\ \A v \in Walkers : v # w => walk'[v] = walk[v]
    BY <1>2 DEF Inv, TypeOK
  <1>8. TypeOK'
    BY <1>2, <1>5 DEF Inv, TypeOK
  <1>9. RowInv' /\ HeldInv' /\ AnswersStayTrue'
    BY DEF Inv, RowInv, HeldInv, AnswersStayTrue, Stored, LegalTodo, Trunc
  <1>10. Cardinality(seen \cup r.todos) = delivered + Cardinality(r.todos)
    <2>1. seen \cap r.todos = {}
      BY <1>3, <1>4 DEF RowsAfter
    <2>2. IsFiniteSet(seen)
      BY <1>4, RankLemma
    <2>3. Cardinality(seen \cup r.todos) =
              Cardinality(seen) + Cardinality(r.todos) - Cardinality(seen \cap r.todos)
      BY <1>3, <2>2, FS_Union
    <2>4. Cardinality(seen \cap r.todos) = 0
      BY <2>1, FS_EmptySet
    <2> QED BY <1>3, <2>3, <2>4
  <1>11. r.more => \A i \in seen \cup r.todos : ~KeyLess(r.next, KeyOf(i))
    <2> SUFFICES ASSUME r.more, NEW i \in seen, i \notin r.todos
                 PROVE  ~KeyLess(r.next, KeyOf(i))
      BY <1>3
    <2>1. cursor \in Cursor /\ ~KeyLess(cursor, KeyOf(i)) /\ KeyLess(cursor, r.next)
      BY <1>3
    <2>2. KeyOf(i) \in Cursor /\ r.next \in Cursor
      BY <1>3, <1>4, KeyTyped
    <2>3. ASSUME NEW k \in Cursor PROVE k.createdAt \in Nat /\ k.id \in Nat
      BY IdAssumption DEF Cursor
    <2>4. /\ cursor.createdAt \in Nat /\ cursor.id \in Nat
          /\ r.next.createdAt \in Nat /\ r.next.id \in Nat
          /\ KeyOf(i).createdAt \in Nat /\ KeyOf(i).id \in Nat
      BY <2>1, <2>2, <2>3
    <2> QED BY <2>1, <2>4 DEF KeyLess
  <1>12. \A i \in base : ~r.more \/ ~KeyLess(r.next, KeyOf(i)) => i \in seen \cup r.todos
    <2> SUFFICES ASSUME NEW i \in base, ~r.more \/ ~KeyLess(r.next, KeyOf(i))
                 PROVE  i \in seen \cup r.todos
      OBVIOUS
    <2>1. CASE i \in RowsAfter(cursor)
      BY <1>3, <2>1
    <2>2. CASE i \notin RowsAfter(cursor)
      BY <2>2 DEF RowsAfter
    <2> QED BY <2>1, <2>2
  <1>13. WalkInv'
    <2> SUFFICES ASSUME NEW v \in Walkers
                 PROVE  /\ walk'[v].base \subseteq Stored /\ walk'[v].seen \subseteq Stored
                        /\ walk'[v].state = "open" =>
                              /\ walk'[v].cursor \in Cursor
                              /\ \A i \in walk'[v].seen : ~KeyLess(walk'[v].cursor, KeyOf(i))
                        /\ Cardinality(walk'[v].seen) = walk'[v].delivered
      BY DEF WalkInv, Stored, KeyOf, KeyLess
    <2>1. CASE v = w
      BY <1>3, <1>4, <1>6, <1>7, <1>10, <1>11, <2>1
    <2>2. CASE v # w
      BY <1>7, <2>2 DEF Inv, WalkInv
    <2> QED BY <2>1, <2>2
  <1>14. WalkMissesNothing'
    <2> SUFFICES ASSUME NEW v \in Walkers, NEW i \in walk'[v].base,
                        \/ walk'[v].state = "done"
                        \/ walk'[v].state = "open" /\ ~KeyLess(walk'[v].cursor, KeyOf(i))
                 PROVE  i \in walk'[v].seen
      BY DEF WalkMissesNothing, KeyOf, KeyLess
    <2>1. CASE v = w
      BY <1>3, <1>6, <1>7, <1>12, <2>1
    <2>2. CASE v # w
      BY <1>7, <2>2 DEF Inv, WalkMissesNothing
    <2> QED BY <2>1, <2>2
  <1>15. walk'[w].delivered \in delivered..(delivered + limit)
    BY <1>3, <1>6, <1>7
  <1>16. Gapless(w, cursor)
    BY <1>3, <1>6, <1>7 DEF Gapless
  <1> QED BY <1>7, <1>8, <1>9, <1>13, <1>14, <1>15, <1>16 DEF Inv

\* The clamp of Service.List leaves a limit the repository may rely on.
LEMMA ClampLemma ==
    ASSUME NEW limit \in Limits
    PROVE  ClampLimit(limit) \in Nat \ {0} /\ ClampLimit(limit) <= MaxPageSize
  BY PageAssumption DEF ClampLimit

\* A page of a walk, its first or a later one.
LEMMA PageStep ==
    ASSUME Inv, NEW w \in Walkers, FirstPage(w) \/ NextPage(w)
    PROVE  /\ Inv' /\ rows' = rows
           /\ \A v \in Walkers : \/ walk'[v].delivered <= MaxPageSize
                                \/ walk'[v].delivered - walk[v].delivered <= MaxPageSize
           /\ NoGap
  <1>1. \A v \in Walkers : walk[v].delivered \in Nat
    BY DEF Inv, TypeOK
  <1>2. MaxPageSize \in Nat
    BY PageAssumption
  <1>3. CASE FirstPage(w)
    <2>1. PICK limit \in Limits : ListFirst(w, limit)
      BY <1>3 DEF FirstPage
    <2>2. Stored \in SUBSET Stored /\ {} \in SUBSET Stored /\ Cardinality({}) = 0
      BY FS_EmptySet
    <2>3. /\ TakePage(w, ClampLimit(limit), NoCursor, {}, Stored, 0)
          /\ UNCHANGED <<issued, rows, held, reply>>
          /\ Start(w) = NoCursor
      BY <2>1 DEF ListFirst, Start
    <2>4. /\ Inv' /\ walk'[w].delivered \in 0..(0 + ClampLimit(limit))
          /\ \A v \in Walkers : v # w => walk'[v] = walk[v]
          /\ Gapless(w, NoCursor)
      <3>1. PICK n : n = ClampLimit(limit)
        OBVIOUS
      <3>2. n \in Nat \ {0} /\ 0 \in Nat /\ NoCursor \in Cursor \cup {NoCursor}
        BY <3>1, ClampLemma
      <3>3. TakePage(w, n, NoCursor, {}, Stored, 0)
        BY <2>3, <3>1
      <3> QED BY <2>2, <2>3, <3>1, <3>2, <3>3, TakePageStep
    <2>5. ClampLimit(limit) \in Nat /\ ClampLimit(limit) <= MaxPageSize
      BY ClampLemma
    <2>6. NoGap
      BY <2>3, <2>4 DEF NoGap
    <2> QED BY <1>1, <1>2, <2>3, <2>4, <2>5, <2>6
  <1>4. CASE NextPage(w)
    <2>1. PICK limit \in Limits : ListNext(w, limit)
      BY <1>4 DEF NextPage
    <2>2. /\ TakePage(w, ClampLimit(limit), walk[w].cursor,
                      walk[w].seen, walk[w].base, walk[w].delivered)
          /\ UNCHANGED <<issued, rows, held, reply>>
          /\ walk[w].state = "open" /\ Start(w) = walk[w].cursor
      BY <2>1 DEF ListNext, Start
    <2>3. /\ walk[w].cursor \in Cursor
          /\ walk[w].seen \in SUBSET Stored /\ walk[w].base \in SUBSET Stored
          /\ walk[w].delivered \in Nat /\ Cardinality(walk[w].seen) = walk[w].delivered
          /\ \A i \in walk[w].seen : ~KeyLess(walk[w].cursor, KeyOf(i))
      BY <2>2 DEF Inv, TypeOK, WalkInv
    <2>4. \A i \in walk[w].base : ~KeyLess(walk[w].cursor, KeyOf(i)) => i \in walk[w].seen
      BY <2>2 DEF Inv, WalkMissesNothing
    <2>5. walk[w].cursor # NoCursor
      BY <2>3 DEF Cursor, NoCursor
    <2>6. /\ Inv'
          /\ walk'[w].delivered \in walk[w].delivered..(walk[w].delivered + ClampLimit(limit))
          /\ \A v \in Walkers : v # w => walk'[v] = walk[v]
          /\ Gapless(w, walk[w].cursor)
      BY <2>2, <2>3, <2>4, <2>5, ClampLemma, TakePageStep
    <2>7. ClampLimit(limit) \in Nat /\ ClampLimit(limit) <= MaxPageSize
      BY ClampLemma
    <2>8. NoGap
      BY <2>2, <2>6 DEF NoGap
    <2> QED BY <1>1, <1>2, <2>2, <2>3, <2>6, <2>7, <2>8
  <1> QED BY <1>3, <1>4

\* A refused page moves nothing but the code the walker sees.
LEMMA RefusedStep ==
    ASSUME Inv, NEW w \in Walkers, ListRefused(w)
    PROVE  /\ Inv' /\ rows' = rows
           /\ \A v \in Walkers : walk'[v].delivered = walk[v].delivered
           /\ NoGap
  <1>a. PICK cause \in DOMAIN ListError : walk' = [walk EXCEPT ![w].code = ListError[cause]]
    BY DEF ListRefused
  <1>b. ListError[cause] \in {422, 500}
    <2>1. ToHumaError.InvalidCursor = 422 /\ ToHumaError.Other = 500
      BY DEF ToHumaError
    <2> QED BY <2>1 DEF ListError
  <1>c. PICK code : code = ListError[cause]
    OBVIOUS
  <1>1. code \in {422, 500} /\ walk' = [walk EXCEPT ![w].code = code]
    BY <1>a, <1>b, <1>c
  <1>2. UNCHANGED <<issued, rows, held, reply>>
    BY DEF ListRefused
  <1>3. TypeOK'
    <2> DEFINE Walk == [state : {"none", "open", "done"}, cursor : Cursor \cup {NoCursor},
                        seen : SUBSET Ids, base : SUBSET Ids,
                        delivered : Nat, code : {0, 200, 422, 500}]
    <2>1. walk \in [Walkers -> Walk]
      BY DEF Inv, TypeOK
    <2>2. PICK u : u = [walk[w] EXCEPT !.code = code]
      OBVIOUS
    <2>3. u \in Walk
      BY <1>1, <2>1, <2>2
    <2>4. walk' = [walk EXCEPT ![w] = u]
      BY <1>1, <2>2
    <2> HIDE DEF Walk
    <2>5. walk' \in [Walkers -> Walk]
      BY <2>1, <2>3, <2>4
    <2> QED BY <1>2, <2>5 DEF Inv, TypeOK, Walk
  <1>4. \A v \in Walkers : /\ walk'[v].state = walk[v].state /\ walk'[v].cursor = walk[v].cursor
                          /\ walk'[v].seen = walk[v].seen /\ walk'[v].base = walk[v].base
                          /\ walk'[v].delivered = walk[v].delivered
    BY <1>1 DEF Inv, TypeOK
  <1>5. RowInv' /\ HeldInv' /\ AnswersStayTrue'
    BY <1>2 DEF Inv, RowInv, HeldInv, AnswersStayTrue, Stored, LegalTodo, Trunc
  <1>6. WalkInv' /\ WalkMissesNothing'
    BY <1>2, <1>4 DEF Inv, WalkInv, WalkMissesNothing, Stored, KeyOf, KeyLess
  <1>7. NoGap
    <2>1. \A v \in Walkers : v # w => walk'[v] = walk[v]
      BY <1>1 DEF Inv, TypeOK
    <2>2. walk'[w].code = code
      BY <1>1 DEF Inv, TypeOK
    <2> QED BY <1>1, <2>1, <2>2 DEF NoGap
  <1> QED BY <1>2, <1>3, <1>4, <1>5, <1>6, <1>7 DEF Inv

-----------------------------------------------------------------------------
(* The theorems.                                                           *)

\* What one step of any request keeps of the rows and adds to a walk.
StepKeeps ==
    /\ \A i \in Stored : RowKept(i)
    /\ \A w \in Walkers : \/ walk'[w].delivered <= MaxPageSize
                         \/ walk'[w].delivered - walk[w].delivered <= MaxPageSize
    /\ NoGap

\* The invariant is inductive; every step keeps history, bounds its page and leaves
\* no gap.
LEMMA NextStep == Inv /\ [Next]_vars => Inv' /\ StepKeeps
  <1> SUFFICES ASSUME Inv, [Next]_vars PROVE Inv' /\ StepKeeps
    OBVIOUS
  <1>1. ASSUME rows' = rows PROVE \A i \in Stored : RowKept(i)
    BY <1>1 DEF RowKept, Stored
  <1>2. ASSUME \A w \in Walkers : walk'[w].delivered = walk[w].delivered
        PROVE  \A w \in Walkers : walk'[w].delivered - walk[w].delivered <= MaxPageSize
    <2>1. \A w \in Walkers : walk[w].delivered \in Nat
      BY DEF Inv, TypeOK
    <2> QED BY <1>2, <2>1, PageAssumption
  <1>0. ASSUME walk' = walk PROVE NoGap
    BY <1>0 DEF NoGap
  <1>3. ASSUME NEW c \in Clients, Create(c) PROVE Inv' /\ rows' = rows /\ walk' = walk
    <2>1. PICK title \in Titles, via \in Via :
             \/ CreateRejected(c, title, via)
             \/ \E id \in Ids : \/ CreateInvalid(c, id, title, via)
                               \/ \E at \in Times : CreateBegin(c, id, title, via, at)
      BY <1>3 DEF Create
    <2>2. CASE CreateRejected(c, title, via)
      BY <2>2, QuietStep DEF CreateRejected, Schema422, Codes, Inv, TypeOK
    <2>3. ASSUME NEW id \in Ids, CreateInvalid(c, id, title, via)
          PROVE  Inv' /\ rows' = rows /\ walk' = walk
      <3>1. Respond(c, 422, NoTodo)
        BY <2>3 DEF CreateInvalid, Refuse, ToHumaError
      <3> QED BY <2>3, <3>1, QuietStep DEF CreateInvalid, Codes, Inv, TypeOK
    <2>4. ASSUME NEW id \in Ids, NEW at \in Times, CreateBegin(c, id, title, via, at)
          PROVE  Inv' /\ rows' = rows /\ walk' = walk
      BY <2>4, CreateBeginStep DEF CreateBegin
    <2> QED BY <2>1, <2>2, <2>3, <2>4
  <1>4. ASSUME NEW c \in Clients, Complete(c) PROVE Inv' /\ rows' = rows /\ walk' = walk
    <2>1. PICK id \in SentIds :
             CompleteMissing(c, id) \/ \E at \in Times : CompleteBegin(c, id, at)
      BY <1>4 DEF Complete
    <2>2. CASE CompleteMissing(c, id)
      <3>1. Respond(c, 422, NoTodo) \/ Respond(c, 404, NoTodo)
        BY <2>2 DEF CompleteMissing, Schema422, Refuse, ToHumaError
      <3> QED BY <2>2, <3>1, QuietStep DEF CompleteMissing, Codes, Inv, TypeOK
    <2>3. ASSUME NEW at \in Times, CompleteBegin(c, id, at)
          PROVE  Inv' /\ rows' = rows /\ walk' = walk
      BY <2>3, CompleteBeginStep DEF CompleteBegin
    <2> QED BY <2>1, <2>2, <2>3
  <1>5. ASSUME NEW c \in Clients, Save(c)
        PROVE  Inv' /\ walk' = walk /\ \A i \in Stored : RowKept(i)
    BY <1>5, SaveStep DEF Save, Saved, SaveFailed
  <1>6. ASSUME NEW c \in Clients, Get(c) PROVE Inv' /\ rows' = rows /\ walk' = walk
    <2>1. PICK id \in SentIds :
             \/ FoundByID(id) /\ Respond(c, 200, rows[id])
             \/ Respond(c, 422, NoTodo)
             \/ Respond(c, 404, NoTodo)
      BY <1>6 DEF Get, Schema422, Refuse, ToHumaError
    <2>2. CASE FoundByID(id) /\ Respond(c, 200, rows[id])
      BY <1>6, <2>2, QuietStep DEF Get, FoundByID, Codes, Inv, TypeOK
    <2>3. CASE Respond(c, 422, NoTodo) \/ Respond(c, 404, NoTodo)
      BY <1>6, <2>3, QuietStep DEF Get, Codes, Inv, TypeOK
    <2> QED BY <2>1, <2>2, <2>3
  <1>7. ASSUME NEW c \in Clients, FindFailed(c) PROVE Inv' /\ rows' = rows /\ walk' = walk
    <2>1. Respond(c, 500, NoTodo)
      BY <1>7 DEF FindFailed, Refuse, ToHumaError
    <2> QED BY <1>7, <2>1, QuietStep DEF FindFailed, Codes, Inv, TypeOK
  <1>8. ASSUME NEW w \in Walkers, FirstPage(w) \/ NextPage(w) PROVE Inv' /\ StepKeeps
    BY <1>1, <1>8, PageStep DEF StepKeeps
  <1>9. ASSUME NEW w \in Walkers, ListRefused(w) PROVE Inv' /\ StepKeeps
    BY <1>1, <1>2, <1>9, RefusedStep DEF StepKeeps
  <1>10. CASE UNCHANGED vars
    <2>1. UNCHANGED <<issued, rows, held, reply, walk>>
      BY <1>10 DEF vars
    <2>2. TypeOK' /\ RowInv' /\ HeldInv'
      BY <2>1 DEF Inv, TypeOK, RowInv, HeldInv, Stored, LegalTodo, Trunc
    <2>3. AnswersStayTrue' /\ WalkInv' /\ WalkMissesNothing'
      BY <2>1 DEF Inv, AnswersStayTrue, Stored, Trunc, WalkInv, WalkMissesNothing, KeyLess, KeyOf
    <2> QED BY <1>0, <1>1, <1>2, <2>1, <2>2, <2>3 DEF Inv, StepKeeps
  <1> QED BY <1>0, <1>1, <1>2, <1>3, <1>4, <1>5, <1>6, <1>7, <1>8, <1>9, <1>10 DEF Next, StepKeeps

\* The empty table satisfies the invariant.
LEMMA InitInv == Init => Inv
  <1> SUFFICES ASSUME Init PROVE Inv
    OBVIOUS
  <1>1. TypeOK
    BY TimeAssumption DEF Init, TypeOK, NoWalk
  <1>2. Stored = {} /\ \A c \in Clients : held[c] = NoTodo /\ reply[c].todo = NoTodo
    BY DEF Init, Stored
  <1>3. RowInv /\ HeldInv /\ AnswersStayTrue
    BY <1>2 DEF RowInv, HeldInv, AnswersStayTrue
  <1>4. \A w \in Walkers : walk[w] = NoWalk
    BY DEF Init
  <1>5. WalkInv /\ WalkMissesNothing
    BY <1>4, FS_EmptySet DEF WalkInv, WalkMissesNothing, NoWalk
  <1> QED BY <1>1, <1>3, <1>5 DEF Inv

\* The invariant holds of every behaviour of the todo resource.
THEOREM Invariance == Spec => []Inv
  <1>1. Inv /\ [Next]_vars => Inv'
    BY NextStep
  <1> QED BY <1>1, InitInv, PTL DEF Spec

\* Every variable keeps its type.
THEOREM TypeCorrect == Spec => []TypeOK
  <1>1. Inv => TypeOK
    BY DEF Inv
  <1> QED BY <1>1, Invariance, PTL

\* Every stored row is a todo the domain allows, whatever requests raced to write it.
THEOREM RowsAlwaysWellFormed == Spec => []RowsWellFormed
  <1>1. Inv => RowsWellFormed
    <2> SUFFICES ASSUME Inv, NEW i \in Stored
                 PROVE  /\ rows[i].id = i
                        /\ rows[i].title.pad = 0 /\ rows[i].title.runes \in 1..MaxTitleLength
                        /\ (rows[i].completedAt = NoTime) <=> (rows[i].status = "open")
      BY DEF RowsWellFormed
    <2> QED BY DEF Inv, RowInv, LegalTodo
  <1> QED BY <1>1, Invariance, PTL

\* What a client was told about a todo stays true of the table.
THEOREM AnswersAlwaysTrue == Spec => []AnswersStayTrue
  <1>1. Inv => AnswersStayTrue
    BY DEF Inv
  <1> QED BY <1>1, Invariance, PTL

\* No request deletes a todo, changes its title or creation time or reopens it.
THEOREM HistoryAlwaysKept == Spec => HistoryKept
  <1>1. Inv /\ [Next]_vars => [\A i \in Stored :
         /\ rows'[i] # NoTodo
         /\ rows'[i].title = rows[i].title
         /\ rows'[i].createdAt = rows[i].createdAt
         /\ rows[i].status = "completed" => rows'[i].status = "completed"]_rows
    BY NextStep DEF StepKeeps, RowKept
  <1> QED BY <1>1, Invariance, PTL DEF Spec, HistoryKept

\* A walk delivers everything that was stored when it began.
THEOREM WalkNeverMisses == Spec => []WalkMissesNothing
  <1>1. Inv => WalkMissesNothing
    BY DEF Inv
  <1> QED BY <1>1, Invariance, PTL

\* A walk delivers nothing twice.
THEOREM WalkNeverRepeats == Spec => []WalkRepeatsNothing
  <1>1. Inv => WalkRepeatsNothing
    BY DEF Inv, WalkInv, WalkRepeatsNothing
  <1> QED BY <1>1, Invariance, PTL

\* No page is larger than MaxPageSize, whoever asks.
THEOREM PagesAlwaysBounded == Spec => PagesBounded
  <1>1. Inv /\ [Next]_vars => [\A w \in Walkers :
         walk'[w].delivered <= MaxPageSize
         \/ walk'[w].delivered - walk[w].delivered <= MaxPageSize]_walk
    BY NextStep DEF StepKeeps
  <1> QED BY <1>1, Invariance, PTL DEF Spec, PagesBounded

\* No page leaves a gap: of what is stored when its query runs, everything between
\* the request's cursor and the one it returns has been delivered.
THEOREM PagesNeverGap == Spec => PagesLeaveNoGap
  <1>1. Inv /\ [Next]_vars => [\A w \in Walkers :
         LET from == IF walk[w].state = "open" THEN walk[w].cursor ELSE NoCursor
             passed == {i \in Stored : /\ from = NoCursor \/ KeyLess(from, KeyOf(i))
                                       /\ \/ walk'[w].state = "done"
                                          \/ ~KeyLess(walk'[w].cursor, KeyOf(i))}
         IN walk'[w].code = 200 /\ walk'[w] # walk[w] => passed \subseteq walk'[w].seen]_walk
    BY NextStep DEF StepKeeps, NoGap, Gapless, Start, RowsAfter
  <1> QED BY <1>1, Invariance, PTL DEF Spec, PagesLeaveNoGap
=============================================================================
