---------------------------- MODULE ListPageProofs --------------------------
(***************************************************************************)
(* Freshness of the list pages, and what their tables show, for any names, *)
(* owners, rows and matching, any size of a page and any number of         *)
(* requests in flight.                                                     *)
(***************************************************************************)
EXTENDS ListPage, FiniteSetTheorems, SequenceTheorems, TLAPS

IsSequence(q) == \E S : q \in Seq(S)

\* Request k is the list request sent last, and asks for p.
LastAsksFor(q, k, p) ==
    /\ k \in 1..Len(q) /\ q[k].op = "list" /\ q[k].params = p
    /\ \A j \in 1..Len(q) : j > k => q[j].op # "list"

Asked(q, p) == \E k \in 1..Len(q) : LastAsksFor(q, k, p)

NoList(q) == \A j \in 1..Len(q) : q[j].op # "list"

\* The list request sent last asks for what the user wants; with none in
\* flight that is what is shown, or the request has failed.
OnItsWay == \/ Asked(queue, wanted)
            \/ NoList(queue) /\ (failed \/ shown = wanted)

\* Parameters of any type.
IsParams(p) ==
    \E name, owner, page : p = [name |-> name, owner |-> owner, page |-> page]

IInv == kind \in DOMAIN Deps /\ IsParams(params) /\ IsSequence(queue) /\ OnItsWay

-----------------------------------------------------------------------------
(* The queue: what sending and answering a request does to the last one.   *)

\* The request appended last is the last one.
LEMMA SendList ==
    ASSUME NEW q, IsSequence(q), NEW p
    PROVE  IsSequence(Append(q, List(p))) /\ Asked(Append(q, List(p)), p)
  <1>1. PICK S : q \in Seq(S)
    BY DEF IsSequence
  <1> DEFINE r == Append(q, List(p))
  <1>2. q \in Seq(S \cup {List(p)}) /\ List(p) \in S \cup {List(p)}
    BY <1>1
  <1>3. r \in Seq(S \cup {List(p)}) /\ Len(r) = Len(q) + 1 /\ Len(q) \in Nat
    BY <1>2
  <1>4. r[Len(q) + 1] = List(p)
    BY <1>2
  <1>5. List(p).op = "list" /\ List(p).params = p
    BY DEF List
  <1>6. LastAsksFor(r, Len(q) + 1, p)
    BY <1>3, <1>4, <1>5 DEF LastAsksFor
  <1> QED
    BY <1>3, <1>6 DEF IsSequence, Asked

\* A request for something else changes nothing about the list requests.
LEMMA SendOther ==
    ASSUME NEW q, IsSequence(q), NEW r, r.op # "list"
    PROVE  /\ IsSequence(Append(q, r))
           /\ \A p : Asked(q, p) => Asked(Append(q, r), p)
           /\ NoList(q) => NoList(Append(q, r))
  <1>1. PICK S : q \in Seq(S)
    BY DEF IsSequence
  <1> DEFINE s == Append(q, r)
  <1>2. q \in Seq(S \cup {r}) /\ r \in S \cup {r}
    BY <1>1
  <1>3. /\ s \in Seq(S \cup {r}) /\ Len(s) = Len(q) + 1 /\ Len(q) \in Nat
        /\ \A j \in 1..Len(q) : s[j] = q[j]
        /\ s[Len(q) + 1] = r
    BY <1>2
  <1>4. IsSequence(s)
    BY <1>3 DEF IsSequence
  <1>5. ASSUME NEW p, NEW k \in 1..Len(q), LastAsksFor(q, k, p)
        PROVE  LastAsksFor(s, k, p) /\ k \in 1..Len(s)
    BY <1>3, <1>5 DEF LastAsksFor
  <1>6. NoList(q) => NoList(s)
    BY <1>3 DEF NoList
  <1> QED
    BY <1>4, <1>5, <1>6 DEF Asked

\* Removing the oldest request leaves the last one, or no list request.
LEMMA Answered ==
    ASSUME NEW q, IsSequence(q), q # <<>>, NEW p, Asked(q, p)
    PROVE  \/ Asked(Tail(q), p)
           \/ NoList(Tail(q)) /\ Head(q).op = "list" /\ Head(q).params = p
  <1>1. PICK S : q \in Seq(S)
    BY DEF IsSequence
  <1>2. PICK k \in 1..Len(q) : LastAsksFor(q, k, p)
    BY DEF Asked
  <1>3. /\ Tail(q) \in Seq(S) /\ Len(Tail(q)) = Len(q) - 1 /\ Len(q) \in Nat
        /\ \A j \in 1..Len(Tail(q)) : Tail(q)[j] = q[j + 1]
        /\ Head(q) = q[1]
    BY <1>1
  <1>4. CASE k = 1
    BY <1>2, <1>3, <1>4 DEF LastAsksFor, NoList
  <1>5. CASE k # 1
    <2>1. k - 1 \in 1..Len(Tail(q))
      BY <1>2, <1>3, <1>5
    <2>2. LastAsksFor(Tail(q), k - 1, p)
      BY <1>2, <1>3, <2>1 DEF LastAsksFor
    <2> QED
      BY <2>1, <2>2 DEF Asked
  <1> QED
    BY <1>4, <1>5

\* Removing the oldest request adds none.
LEMMA NoneLeft ==
    ASSUME NEW q, IsSequence(q), q # <<>>
    PROVE  /\ IsSequence(Tail(q))
           /\ NoList(q) => NoList(Tail(q)) /\ Head(q).op # "list"
  <1>1. PICK S : q \in Seq(S)
    BY DEF IsSequence
  <1>2. /\ Tail(q) \in Seq(S) /\ Len(Tail(q)) = Len(q) - 1 /\ Len(q) \in Nat
        /\ \A j \in 1..Len(Tail(q)) : Tail(q)[j] = q[j + 1]
        /\ Head(q) = q[1] /\ 1 \in 1..Len(q)
    BY <1>1
  <1> QED
    BY <1>2 DEF IsSequence, NoList

-----------------------------------------------------------------------------
(* The handlers of the user.                                               *)

\* A handler whose rendering changes a dependency asks for the new
\* parameters last, whatever its direct call asked for.
LEMMA EffectAsks ==
    ASSUME IsSequence(queue), NEW p, NEW f \in Deps[kind], p[f] # params[f],
           Render(<<>>, p) \/ Render(<<List(params)>>, p)
    PROVE  IsSequence(queue') /\ Asked(queue', p)
  <1>1. Effect(p) = <<List(p)>>
    BY DEF Effect
  <1>2. queue' = queue \o <<>> \o <<List(p)>>
        \/ queue' = queue \o <<List(params)>> \o <<List(p)>>
    BY <1>1 DEF Render
  <1>3. queue' = Append(queue, List(p))
        \/ queue' = Append(Append(queue, List(params)), List(p))
    <2>1. PICK S : queue \in Seq(S)
      BY DEF IsSequence
    <2>2. queue \in Seq(S \cup {List(p), List(params)})
      BY <2>1
    <2> QED
      BY <1>2, <2>2
  <1> QED
    BY <1>3, SendList

\* A handler whose rendering changes none asks with its direct call only.
LEMMA DirectAsks ==
    ASSUME IsSequence(queue), NEW p, \A f \in Deps[kind] : p[f] = params[f],
           Render(<<List(params)>>, p)
    PROVE  IsSequence(queue') /\ Asked(queue', params)
  <1>1. Effect(p) = <<>>
    BY DEF Effect
  <1>2. queue' = queue \o <<List(params)>> \o <<>>
    BY <1>1 DEF Render
  <1>3. queue' = Append(queue, List(params))
    <2>1. PICK S : queue \in Seq(S)
      BY DEF IsSequence
    <2>2. queue \in Seq(S \cup {List(params)})
      BY <2>1
    <2> QED
      BY <1>2, <2>2
  <1> QED
    BY <1>3, SendList

\* Every control of the three pages leaves the last list request asking for
\* what the user wants.
LEMMA UserAsks == IInv /\ User => IInv'
  <1> SUFFICES ASSUME IInv, User PROVE IInv'
    OBVIOUS
  <1>1. kind' = kind /\ kind \in DOMAIN Deps
    BY DEF IInv, User, RegistriesUser, DevicesUser, TelemetryUser, Browse, Pagination, RowControls,
           Type, FindByName, Choose, ChangePage, Refresh, DeleteRow
  <1>2. IsSequence(queue) /\ OnItsWay
    BY DEF IInv
  <1>3. PICK name, owner, page :
            params = [name |-> name, owner |-> owner, page |-> page]
    BY DEF IInv, IsParams
  <1>4. "page" \in Deps[kind]
    BY <1>1 DEF Deps
  <1>5. ASSUME IsParams(params'), IsSequence(queue'), Asked(queue', wanted')
        PROVE  IInv'
    BY <1>1, <1>5 DEF IInv, OnItsWay
  <1>6. ASSUME NEW n, Type(n)
        PROVE  IInv'
    <2> DEFINE p == [params EXCEPT !.name = n]
    <2>1. /\ n # params.name /\ Render(<<>>, p)
          /\ UNCHANGED <<shown, failed>>
          /\ wanted' = IF "name" \in Deps[kind] THEN params' ELSE wanted
      BY <1>6 DEF Type
    <2>2. params' = p /\ p = [name |-> n, owner |-> owner, page |-> page]
      BY <1>3, <2>1 DEF Render
    <2>3. IsParams(params')
      BY <2>2 DEF IsParams
    <2>4. CASE "name" \in Deps[kind]
      <3>1. p["name"] # params["name"]
        BY <1>3, <2>1, <2>2
      <3>2. IsSequence(queue') /\ Asked(queue', p)
        BY <1>2, <2>1, <2>4, <3>1, EffectAsks
      <3> QED
        BY <1>5, <2>1, <2>2, <2>3, <2>4, <3>2
    <2>5. CASE "name" \notin Deps[kind]
      <3>1. \A f \in Deps[kind] : p[f] = params[f]
        BY <1>1, <1>3, <2>2, <2>5 DEF Deps
      <3>2. queue' = queue \o <<>> \o <<>>
        BY <2>1, <3>1 DEF Render, Effect
      <3>3. queue' = queue
        BY <1>2, <3>2 DEF IsSequence
      <3> QED
        BY <1>1, <1>2, <2>1, <2>3, <2>5, <3>3 DEF IInv, OnItsWay
    <2> QED
      BY <2>4, <2>5
  <1>7. CASE FindByName
    <2> DEFINE p == [params EXCEPT !.page = 1]
    <2>1. Render(<<List(params)>>, p) /\ wanted' = params'
      BY <1>7 DEF FindByName
    <2>2. params' = p /\ p = [name |-> name, owner |-> owner, page |-> 1]
      BY <1>3, <2>1 DEF Render
    <2>3. IsParams(params')
      BY <2>2 DEF IsParams
    <2>4. CASE page # 1
      <3>1. p["page"] # params["page"]
        BY <1>3, <2>2, <2>4
      <3>2. IsSequence(queue') /\ Asked(queue', p)
        BY <1>2, <1>4, <2>1, <3>1, EffectAsks
      <3> QED
        BY <1>5, <2>1, <2>2, <2>3, <3>2
    <2>5. CASE page = 1
      <3>1. p = params
        BY <1>3, <2>2, <2>5
      <3>2. IsSequence(queue') /\ Asked(queue', params)
        BY <1>2, <2>1, <3>1, DirectAsks
      <3> QED
        BY <1>5, <2>1, <2>2, <2>3, <3>1, <3>2
    <2> QED
      BY <2>4, <2>5
  <1>8. ASSUME NEW o, Choose(o), "owner" \in Deps[kind]
        PROVE  IInv'
    <2> DEFINE p == [params EXCEPT !.owner = o]
    <2>1. /\ o # params.owner /\ wanted' = params'
          /\ Render(<<>>, p) \/ Render(<<List(params)>>, p)
      BY <1>8 DEF Choose
    <2>2. params' = p /\ p = [name |-> name, owner |-> o, page |-> page]
      BY <1>3, <2>1 DEF Render
    <2>3. IsParams(params')
      BY <2>2 DEF IsParams
    <2>4. p["owner"] # params["owner"]
      BY <1>3, <2>1, <2>2
    <2>5. IsSequence(queue') /\ Asked(queue', p)
      BY <1>2, <1>8, <2>1, <2>4, EffectAsks
    <2> QED
      BY <1>5, <2>1, <2>2, <2>3, <2>5
  <1>9. ASSUME NEW g, ChangePage(g)
        PROVE  IInv'
    <2> DEFINE p == [params EXCEPT !.page = g]
    <2>1. g # params.page /\ wanted' = params' /\ Render(<<>>, p)
      BY <1>9 DEF ChangePage
    <2>2. params' = p /\ p = [name |-> name, owner |-> owner, page |-> g]
      BY <1>3, <2>1 DEF Render
    <2>3. IsParams(params')
      BY <2>2 DEF IsParams
    <2>4. p["page"] # params["page"]
      BY <1>3, <2>1, <2>2
    <2>5. IsSequence(queue') /\ Asked(queue', p)
      BY <1>2, <1>4, <2>1, <2>4, EffectAsks
    <2> QED
      BY <1>5, <2>1, <2>2, <2>3, <2>5
  <1>10. CASE Refresh
    <2>1. Render(<<List(params)>>, params) /\ wanted' = params
      BY <1>10 DEF Refresh
    <2>2. params' = params
      BY <2>1 DEF Render
    <2>3. IsSequence(queue') /\ Asked(queue', params)
      BY <1>2, <2>1, DirectAsks
    <2> QED
      BY <1>3, <1>5, <2>1, <2>2, <2>3 DEF IsParams
  <1>11. ASSUME NEW i, DeleteRow(i)
         PROVE  IInv'
    <2> DEFINE r == [op |-> "delete", id |-> rows[i], index |-> i,
                     alone |-> queue = <<>>]
    <2>1. queue' = Append(queue, r) /\ UNCHANGED <<params, wanted, shown, failed>>
      BY <1>11 DEF DeleteRow
    <2>2. r.op # "list"
      OBVIOUS
    <2>3. /\ IsSequence(queue')
          /\ Asked(queue, wanted) => Asked(queue', wanted)
          /\ NoList(queue) => NoList(queue')
      BY <1>2, <2>1, <2>2, SendOther
    <2> QED
      BY <1>1, <1>2, <1>3, <2>1, <2>3 DEF IInv, IsParams, OnItsWay
  <1>12. CASE RegistriesUser
    BY <1>6, <1>7, <1>9, <1>11, <1>12 DEF RegistriesUser, Browse, Pagination, RowControls
  <1>13. CASE DevicesUser
    BY <1>6, <1>7, <1>8, <1>9, <1>11, <1>13 DEF DevicesUser, Browse, Pagination, RowControls, Deps
  <1>14. CASE TelemetryUser
    BY <1>8, <1>9, <1>10, <1>11, <1>14 DEF TelemetryUser, Browse, Pagination, RowControls, Deps
  <1> QED
    BY <1>12, <1>13, <1>14 DEF User

\* The answers, and failures.
LEMMA AnswerKeeps == IInv /\ Answer => IInv'
  <1> SUFFICES ASSUME IInv, Answer PROVE IInv'
    OBVIOUS
  <1>1. kind \in DOMAIN Deps /\ IsParams(params) /\ IsSequence(queue) /\ OnItsWay
    BY DEF IInv
  <1>2. CASE PageQueried
    BY <1>1, <1>2 DEF PageQueried, IInv, OnItsWay
  <1>3. ASSUME ListAnswered \/ RemoveAnswered \/ Failed
        PROVE  IInv'
    <2>1. /\ UNCHANGED <<kind, params, wanted>>
          /\ queue # <<>> /\ queue' = Tail(queue)
      BY <1>3 DEF ListAnswered, RemoveAnswered, Failed, Served
    <2>2. IsSequence(queue')
      BY <1>1, <2>1, NoneLeft
    <2>3. CASE Asked(queue', wanted)
      BY <1>1, <2>1, <2>2, <2>3 DEF IInv, OnItsWay
    <2>4. CASE /\ NoList(queue') /\ Head(queue).op = "list"
               /\ Head(queue).params = wanted
      <3>1. failed' \/ shown' = wanted
        BY <1>3, <2>4 DEF ListAnswered, RemoveAnswered, Failed
      <3> QED
        BY <1>1, <2>1, <2>2, <2>4, <3>1 DEF IInv, OnItsWay
    <2>5. CASE NoList(queue) /\ (failed \/ shown = wanted)
      <3>1. NoList(queue') /\ Head(queue).op # "list"
        BY <1>1, <2>1, <2>5, NoneLeft
      <3>2. UNCHANGED <<failed, shown>>
        BY <1>3, <3>1 DEF ListAnswered, RemoveAnswered, Failed
      <3> QED
        BY <1>1, <2>1, <2>2, <2>5, <3>1, <3>2 DEF IInv, OnItsWay
    <2> QED
      BY <1>1, <2>1, <2>3, <2>4, <2>5, Answered DEF OnItsWay
  <1> QED
    BY <1>2, <1>3 DEF Answer

\* The effect of the first rendering has sent the first list request.
LEMMA InitAsks == Init => IInv
  <1> SUFFICES ASSUME Init PROVE IInv
    OBVIOUS
  <1>1. /\ kind \in DOMAIN Deps /\ queue = <<List(params)>> /\ wanted = params
        /\ \E o : params = [FirstPage EXCEPT !.owner = o]
    BY DEF Init
  <1>2. IsParams(params)
    BY <1>1 DEF IsParams, FirstPage
  <1>3. queue = Append(<<>>, List(params)) /\ IsSequence(<<>>)
    BY <1>1 DEF IsSequence
  <1>4. IsSequence(queue) /\ Asked(queue, wanted)
    BY <1>1, <1>3, SendList
  <1> QED
    BY <1>1, <1>2, <1>4 DEF IInv, OnItsWay

\* The list request sent last is always the one the user waits for, although
\* handlers also send requests with the parameters of an older rendering
\* (DevicesPage.tsx:41-92).
THEOREM Invariance == Spec => []IInv
  <1>1. IInv /\ [Next]_vars => IInv'
    <2>1. CASE OthersChange \/ UNCHANGED vars
      BY <2>1 DEF IInv, OnItsWay, OthersChange, vars
    <2> QED
      BY <2>1, UserAsks, AnswerKeeps DEF Next
  <1> QED
    BY <1>1, InitAsks, PTL DEF Spec

\* When nothing is in flight and the last list request did not fail, a page
\* shows what its user asked for last (DevicesPage.tsx:41-92,
\* RegistryPage.tsx, DeviceTelemetry.tsx).
THEOREM FreshAlways == Spec => []Fresh
  <1>1. IInv => Fresh
    BY DEF IInv, OnItsWay, Asked, Fresh
  <1> QED
    BY <1>1, Invariance, PTL

-----------------------------------------------------------------------------
(* The rows of a page.                                                     *)

\* Math.ceil: page g is beyond the pages offered exactly when no row is left
\* after the g - 1 pages before it.
LEMMA Multiples ==
    ASSUME NEW n \in Nat, NEW g \in Nat \ {0}
    PROVE  LET q == (n + PageSize - 1) \div PageSize
           IN  q \in Nat /\ (g > q <=> PageSize * (g - 1) >= n)
  <1> DEFINE q == (n + PageSize - 1) \div PageSize
  <1>1. PageSize \in Nat \ {0}
    BY PageAssumption
  <1>2. /\ q \in Nat /\ PageSize * q <= n + PageSize - 1
        /\ n + PageSize - 1 < PageSize * q + PageSize
    BY <1>1
  <1> HIDE DEF q
  <1>3. ASSUME NEW a \in Nat, NEW b \in Nat, a <= b
        PROVE  PageSize * a <= PageSize * b
    BY <1>1, <1>3
  <1>4. /\ PageSize * (g - 1) = PageSize * g - PageSize
        /\ PageSize * g \in Nat /\ PageSize * q \in Nat
    BY <1>1, <1>2
  <1>5. CASE g > q
    <2>1. q <= g - 1 /\ g - 1 \in Nat
      BY <1>2, <1>5
    <2>2. PageSize * q <= PageSize * (g - 1)
      BY <1>2, <1>3, <2>1
    <2> QED
      BY <1>1, <1>2, <1>4, <1>5, <2>2
  <1>6. CASE g <= q
    <2>2. PageSize * g <= PageSize * q
      BY <1>2, <1>3, <1>6
    <2> QED
      BY <1>1, <1>2, <1>4, <1>6, <2>2
  <1> QED
    BY <1>2, <1>5, <1>6 DEF q

\* The rows that match are finitely many numbers.
LEMMA MatchingOK ==
    ASSUME table \subseteq Ids, NEW p
    PROVE  /\ Matching(p) \subseteq Ids /\ Matching(p) \subseteq Nat
           /\ IsFiniteSet(Matching(p)) /\ Cardinality(Matching(p)) \in Nat
  <1>1. Matching(p) \in SUBSET Ids /\ IsFiniteSet(Ids) /\ Ids \subseteq Nat
    BY PageAssumption DEF Matching
  <1>2. IsFiniteSet(Matching(p))
    BY <1>1, FS_Subset
  <1> QED
    BY <1>1, <1>2, FS_CardinalityType

\* Each matching row has its own number of rows before it, and each number
\* below the total is that of a row.
LEMMA Ranks ==
    ASSUME table \subseteq Ids, NEW p
    PROVE  LET n == Cardinality(Matching(p))
           IN  \A k \in 0..n - 1 :
                  \E i \in Matching(p) : Cardinality(Before(p, i)) = k
  <1> DEFINE S == Matching(p)
             n == Cardinality(S)
             rank == [i \in S |-> Cardinality(Before(p, i))]
  <1>1. S \subseteq Nat /\ IsFiniteSet(S) /\ n \in Nat
    BY MatchingOK
  <1>2. ASSUME NEW i \in S
        PROVE  /\ IsFiniteSet(Before(p, i)) /\ Cardinality(Before(p, i)) \in 0..n - 1
    <2>1. Before(p, i) \in SUBSET (S \ {i})
      BY <1>1 DEF Before
    <2>2. IsFiniteSet(S \ {i}) /\ Cardinality(S \ {i}) = n - 1
      BY <1>1, FS_RemoveElement
    <2>3. IsFiniteSet(Before(p, i)) /\ Cardinality(Before(p, i)) <= n - 1
      BY <2>1, <2>2, FS_Subset
    <2> QED
      BY <1>1, <2>3, FS_CardinalityType
  <1>3. ASSUME NEW i \in S, NEW j \in Before(p, i)
        PROVE  rank[i] # rank[j]
    <2>1. j \in S /\ Before(p, j) \in SUBSET (Before(p, i) \ {j})
      BY <1>1, <1>3 DEF Before
    <2>2. IsFiniteSet(Before(p, i) \ {j})
          /\ Cardinality(Before(p, i) \ {j}) = Cardinality(Before(p, i)) - 1
      BY <1>2, <1>3, FS_RemoveElement
    <2>3. Cardinality(Before(p, j)) <= Cardinality(Before(p, i)) - 1
      BY <2>1, <2>2, FS_Subset
    <2> QED
      BY <1>2, <2>1, <2>3
  <1>4. rank \in Injection(S, 0..n - 1)
    <2>1. rank \in [S -> 0..n - 1]
      BY <1>2
    <2>2. ASSUME NEW i \in S, NEW j \in S, i # j
          PROVE  rank[i] # rank[j]
      <3>1. i \in Before(p, j) \/ j \in Before(p, i)
        BY <1>1, <2>2 DEF Before
      <3> QED
        BY <1>3, <3>1
    <2> HIDE DEF rank
    <2> QED
      BY <2>1, <2>2 DEF Injection, IsInjective
  <1>5. IsFiniteSet(0..n - 1) /\ Cardinality(0..n - 1) = n
    <2>1. 0 \in Int /\ n - 1 \in Int
      BY <1>1
    <2> QED
      BY <1>1, <2>1, FS_Interval
  <1>6. rank \in Surjection(S, 0..n - 1)
    <2> HIDE DEF S, rank
    <2> QED
      BY <1>4, <1>5, FS_Injection
  <1> QED
    BY <1>6 DEF Surjection

\* A page of the answer: as many rows as the limit and the total allow, each
\* from the matching ones, none twice.
LEMMA RowsOK ==
    ASSUME table \subseteq Ids, NEW p \in Params
    PROVE  /\ Rows(p) \in Seq(Ids) /\ IsInjective(Rows(p)) /\ Len(Rows(p)) <= PageSize
           /\ Rows(p) = <<>> <=> PageSize * (p.page - 1) >= Cardinality(Matching(p))
  <1> DEFINE offset == PageSize * (p.page - 1)
             n == Cardinality(Matching(p))
             m == IF n <= offset THEN 0
                  ELSE IF n <= offset + PageSize THEN n - offset ELSE PageSize
             row(k) == CHOOSE i \in Matching(p) :
                          Cardinality(Before(p, i)) = offset + k - 1
  <1>1. PageSize \in Nat \ {0} /\ p.page \in Nat \ {0} /\ offset \in Nat
    <2>1. PageSize \in Nat \ {0} /\ p.page \in Nat \ {0}
      BY PageAssumption DEF Params
    <2>2. p.page - 1 \in Nat
      BY <2>1
    <2> QED
      BY <2>1, <2>2
  <1>2. n \in Nat /\ Matching(p) \subseteq Ids
    BY MatchingOK
  <1> DEFINE D == {k \in 1..PageSize : offset + k <= n}
  <1>r. Rows(p) = [k \in D |-> row(k)]
    BY DEF Rows
  <1>3. D = 1..m /\ m \in Nat /\ m <= PageSize /\ (m = 0 <=> offset >= n)
    <2> HIDE DEF offset, n
    <2> QED
      BY <1>1, <1>2
  <1>4. ASSUME NEW k \in 1..m
        PROVE  row(k) \in Matching(p) /\ Cardinality(Before(p, row(k))) = offset + k - 1
    <2>1. offset + k - 1 \in 0..n - 1
      <3> HIDE DEF offset, n
      <3> QED
        BY <1>1, <1>2
    <2>2. \E i \in Matching(p) : Cardinality(Before(p, i)) = offset + k - 1
      BY <2>1, Ranks
    <2> QED
      BY <2>2
  <1> HIDE DEF row, m, offset, n, D
  <1>5. Rows(p) = [k \in 1..m |-> row(k)]
    BY <1>r, <1>3
  <1>6. Rows(p) \in Seq(Ids) /\ Len(Rows(p)) = m
    BY <1>2, <1>3, <1>4, <1>5
  <1>7. IsInjective(Rows(p))
    <2>1. ASSUME NEW a \in 1..m, NEW b \in 1..m, row(a) = row(b)
          PROVE  a = b
      BY <1>1, <1>4, <2>1
    <2> QED
      BY <1>5, <2>1 DEF IsInjective
  <1>8. Rows(p) = <<>> <=> m = 0
    BY <1>3, <1>6
  <1> QED
    BY <1>3, <1>6, <1>7, <1>8 DEF offset, n

\* splice(index, 1).
LEMMA Removed ==
    ASSUME NEW s \in Seq(Ids), IsInjective(s), NEW i \in DOMAIN s
    PROVE  /\ RemoveAt(s, i) \in Seq(Ids) /\ IsInjective(RemoveAt(s, i))
           /\ Len(RemoveAt(s, i)) = Len(s) - 1
           /\ {RemoveAt(s, i)[k] : k \in DOMAIN RemoveAt(s, i)} =
                 {s[k] : k \in DOMAIN s} \ {s[i]}
  <1> DEFINE r == RemoveAt(s, i)
  <1>1. Len(s) \in Nat /\ DOMAIN s = 1..Len(s) /\ \A k \in 1..Len(s) : s[k] \in Ids
    OBVIOUS
  <1>2. r \in Seq(Ids) /\ Len(r) = Len(s) - 1
    BY <1>1 DEF RemoveAt
  <1>3. DOMAIN r = 1..Len(s) - 1
    BY <1>2
  <1>4. \A k \in 1..Len(s) - 1 : r[k] = IF k < i THEN s[k] ELSE s[k + 1]
    <2> DEFINE a == SubSeq(s, 1, i - 1)
               b == SubSeq(s, i + 1, Len(s))
    <2>1. /\ a \in Seq(Ids) /\ Len(a) = i - 1
          /\ \A k \in 1..i - 1 : a[k] = s[k]
      BY <1>1, SubSeqProperties
    <2>2. /\ b \in Seq(Ids) /\ Len(b) = Len(s) - i
          /\ \A k \in 1..Len(s) - i : b[k] = s[(i + 1) + k - 1]
      <3>1. \A k \in i + 1..Len(s) : s[k] \in Ids
        BY <1>1
      <3>2. i + 1 \in Int /\ Len(s) \in Int
        BY <1>1
      <3>3. /\ b \in Seq(Ids)
            /\ Len(b) = IF i + 1 <= Len(s) THEN Len(s) - (i + 1) + 1 ELSE 0
            /\ \A k \in 1..Len(s) - (i + 1) + 1 : b[k] = s[(i + 1) + k - 1]
        BY <3>1, <3>2, SubSeqProperties
      <3> HIDE DEF b
      <3> QED
        BY <1>1, <3>3
    <2>3. r = a \o b
      BY DEF RemoveAt
    <2> HIDE DEF a, b
    <2>4. \A k \in 1..Len(a) + Len(b) :
             (a \o b)[k] = IF k <= Len(a) THEN a[k] ELSE b[k - Len(a)]
      BY <2>1, <2>2, ConcatProperties
    <2> HIDE DEF r
    <2>5. ASSUME NEW k \in 1..Len(s) - 1, k >= i
          PROVE  r[k] = s[k + 1]
      <3>1. k - (i - 1) \in 1..Len(s) - i /\ (i + 1) + (k - (i - 1)) - 1 = k + 1
        BY <1>1, <2>5
      <3>2. b[k - (i - 1)] = s[k + 1]
        BY <2>2, <3>1
      <3>3. k \in 1..Len(a) + Len(b) /\ ~(k <= Len(a)) /\ Len(a) = i - 1
        BY <1>1, <2>1, <2>2, <2>5
      <3>4. (a \o b)[k] = b[k - Len(a)]
        BY <2>4, <3>3
      <3> QED
        BY <2>3, <3>2, <3>3, <3>4
    <2>6. ASSUME NEW k \in 1..Len(s) - 1, k < i
          PROVE  r[k] = s[k]
      BY <1>1, <2>1, <2>2, <2>3, <2>4, <2>6
    <2> QED
      BY <1>1, <2>5, <2>6
  <1> HIDE DEF r
  <1>5. IsInjective(r)
    BY <1>1, <1>3, <1>4 DEF IsInjective
  <1>6. ASSUME NEW k \in DOMAIN r
        PROVE  \E j \in DOMAIN s : r[k] = s[j] /\ s[j] # s[i]
    <2>1. CASE k < i
      BY <1>1, <1>3, <1>4, <2>1 DEF IsInjective
    <2>2. CASE k >= i
      <3>1. k + 1 \in DOMAIN s /\ r[k] = s[k + 1] /\ k + 1 # i
        BY <1>1, <1>3, <1>4, <2>2
      <3> QED
        BY <3>1 DEF IsInjective
    <2> QED
      BY <1>1, <1>3, <2>1, <2>2
  <1>7. ASSUME NEW j \in DOMAIN s, s[j] # s[i]
        PROVE  \E k \in DOMAIN r : r[k] = s[j]
    <2>1. CASE j < i
      BY <1>1, <1>3, <1>4, <2>1
    <2>2. CASE j > i
      <3>1. j - 1 \in DOMAIN r /\ r[j - 1] = s[j]
        BY <1>1, <1>3, <1>4, <2>2
      <3> QED
        BY <3>1
    <2> QED
      BY <1>1, <1>7, <2>1, <2>2
  <1>8. {r[k] : k \in DOMAIN r} = {s[k] : k \in DOMAIN s} \ {s[i]}
    BY <1>6, <1>7
  <1> QED
    BY <1>2, <1>5, <1>8 DEF r

-----------------------------------------------------------------------------
(* Types, and the rows that a delete request names.                        *)

Request == [op : {"list"}, params : Params] \cup
           [op : {"delete"}, id : Ids, index : Nat, alone : BOOLEAN]

\* Typing of every variable; the rows shown are no more than a page and differ.
Typed ==
    /\ kind \in DOMAIN Deps
    /\ table \subseteq Ids
    /\ params \in Params /\ wanted \in Params /\ shown \in Params
    /\ IsPage(rows)
    /\ fetched = <<>> \/ \E r : fetched = <<r>> /\ IsPage(r)
    /\ count \in Nat /\ failed \in BOOLEAN /\ steady \in BOOLEAN
    /\ queue \in Seq(Request)

\* A delete request sent while nothing was in flight is the oldest one, and
\* the row with its index is still the row it names.
StillThere ==
    \A k \in 1..Len(queue) : queue[k].op = "delete" /\ queue[k].alone =>
        k = 1 /\ queue[k].index \in DOMAIN rows /\ rows[queue[k].index] = queue[k].id

\* A page that the server has queried is that of the oldest request, and still
\* what the table gives unless somebody has changed it.
PageOfOldest ==
    fetched # <<>> =>
        /\ queue # <<>> /\ Head(queue).op = "list"
        /\ steady => fetched = <<Rows(Head(queue).params)>>

TInv == Typed /\ StillThere /\ PageOfOldest

\* Every request of queue q that is not for a list was in the queue already.
OnlyListsAdded(q) ==
    \A k \in 1..Len(q) :
        q[k].op # "list" => k \in 1..Len(queue) /\ q[k] = queue[k]

LEMMA ListIsRequest == \A p \in Params : List(p) \in Request
  BY DEF List, Request

\* Rendering appends list requests.
LEMMA RenderTyped ==
    ASSUME Typed, NEW p \in Params, Render(<<>>, p) \/ Render(<<List(params)>>, p)
    PROVE  /\ params' \in Params /\ queue' \in Seq(Request) /\ OnlyListsAdded(queue')
           /\ Len(queue') >= Len(queue) /\ (queue # <<>> => queue'[1] = queue[1])
  <1>1. List(p) \in Request /\ List(params) \in Request /\ queue \in Seq(Request)
    BY ListIsRequest DEF Typed
  <1>2. List(p).op = "list" /\ List(params).op = "list"
    BY DEF List
  <1>3. Effect(p) = <<>> \/ Effect(p) = <<List(p)>>
    BY DEF Effect
  <1>4. \/ queue' = queue
        \/ queue' = Append(queue, List(p))
        \/ queue' = Append(queue, List(params))
        \/ queue' = Append(Append(queue, List(params)), List(p))
    <2>1. \/ queue' = queue \o <<>> \o Effect(p)
          \/ queue' = queue \o <<List(params)>> \o Effect(p)
      BY DEF Render
    <2>2. /\ queue \o <<>> \o <<>> = queue
          /\ queue \o <<>> \o <<List(p)>> = Append(queue, List(p))
          /\ queue \o <<List(params)>> \o <<>> = Append(queue, List(params))
          /\ queue \o <<List(params)>> \o <<List(p)>> =
                Append(Append(queue, List(params)), List(p))
      BY <1>1
    <2> QED
      BY <1>3, <2>1, <2>2
  <1>5. ASSUME NEW q \in Seq(Request), OnlyListsAdded(q), NEW a \in Params
        PROVE  Append(q, List(a)) \in Seq(Request) /\ OnlyListsAdded(Append(q, List(a)))
    <2>1. List(a) \in Request /\ List(a).op = "list"
      BY ListIsRequest DEF List
    <2> HIDE DEF List
    <2>2. /\ Append(q, List(a)) \in Seq(Request)
          /\ Len(Append(q, List(a))) = Len(q) + 1
          /\ \A k \in 1..Len(q) : Append(q, List(a))[k] = q[k]
          /\ Append(q, List(a))[Len(q) + 1] = List(a)
      BY <2>1
    <2> QED
      BY <1>5, <2>1, <2>2 DEF OnlyListsAdded
  <1>6. OnlyListsAdded(queue)
    BY DEF OnlyListsAdded
  <1>7. params' = p /\ params \in Params
    BY DEF Render, Typed
  <1>8. /\ Append(queue, List(params)) \in Seq(Request)
        /\ OnlyListsAdded(Append(queue, List(params)))
    BY <1>1, <1>5, <1>6, <1>7
  <1>9. Len(queue') >= Len(queue) /\ (queue # <<>> => queue'[1] = queue[1])
    <2> HIDE DEF List
    <2> QED
      BY <1>1, <1>4
  <1> QED
    BY <1>1, <1>4, <1>5, <1>6, <1>7, <1>8, <1>9

\* A request sent leaves the oldest one where it is.
LEMMA OldestStays ==
    ASSUME Typed, PageOfOldest, UNCHANGED <<kind, server>>, queue' \in Seq(Request),
           Len(queue') >= Len(queue), queue # <<>> => queue'[1] = queue[1]
    PROVE  PageOfOldest'
  <1>1. UNCHANGED <<kind, table, fetched, steady>>
    BY DEF server
  <1>2. CASE fetched = <<>>
    BY <1>1, <1>2 DEF PageOfOldest
  <1>3. CASE fetched # <<>>
    <2>1. queue # <<>> /\ queue \in Seq(Request)
      BY <1>3 DEF PageOfOldest, Typed
    <2>2. queue' # <<>> /\ Head(queue') = Head(queue)
      BY <2>1
    <2>3. \A p : Rows(p)' = Rows(p)
      BY <1>1 DEF Rows, Before, Matching
    <2> QED
      BY <1>1, <1>3, <2>2, <2>3 DEF PageOfOldest
  <1> QED
    BY <1>2, <1>3

\* Rendering keeps types, and takes no delete request.
LEMMA RenderKeeps ==
    ASSUME TInv, NEW p \in Params, Render(<<>>, p) \/ Render(<<List(params)>>, p),
           UNCHANGED <<kind, server, rows, count, shown, failed>>, wanted' \in Params
    PROVE  TInv'
  <1>1. Typed /\ StillThere /\ PageOfOldest
    BY DEF TInv
  <1>2. /\ params' \in Params /\ queue' \in Seq(Request) /\ OnlyListsAdded(queue')
        /\ Len(queue') >= Len(queue) /\ (queue # <<>> => queue'[1] = queue[1])
    BY <1>1, RenderTyped
  <1>3. StillThere'
    BY <1>1, <1>2 DEF StillThere, OnlyListsAdded, Typed, Request
  <1>4. PageOfOldest'
    BY <1>1, <1>2, OldestStays
  <1>5. Typed'
    BY <1>1, <1>2, Zenon DEF Typed, IsPage, server
  <1> QED
    BY <1>3, <1>4, <1>5 DEF TInv

\* The controls: a delete request names the row that is shown now.
LEMMA UserTyped == TInv /\ User => TInv'
  <1> SUFFICES ASSUME TInv, User PROVE TInv'
    OBVIOUS
  <1>1. /\ Typed /\ StillThere /\ PageOfOldest
        /\ params \in Params /\ wanted \in Params
    BY DEF TInv, Typed
  <1>2. ASSUME NEW n \in SearchNames, Type(n)
        PROVE  TInv'
    <2>1. [params EXCEPT !.name = n] \in Params
      BY <1>1 DEF Params
    <2>2. params' = [params EXCEPT !.name = n]
      BY <1>2 DEF Type, Render
    <2> QED
      BY <1>1, <1>2, <2>1, <2>2, RenderKeeps DEF Type
  <1>3. CASE FindByName
    <2>1. [params EXCEPT !.page = 1] \in Params
      BY <1>1 DEF Params
    <2>2. params' = [params EXCEPT !.page = 1]
      BY <1>3 DEF FindByName, Render
    <2> QED
      BY <1>1, <1>3, <2>1, <2>2, RenderKeeps DEF FindByName
  <1>4. ASSUME NEW o \in Owners, Choose(o)
        PROVE  TInv'
    <2>1. [params EXCEPT !.owner = o] \in Params
      BY <1>1 DEF Params
    <2>2. params' = [params EXCEPT !.owner = o]
      BY <1>4 DEF Choose, Render
    <2> QED
      BY <1>1, <1>4, <2>1, <2>2, RenderKeeps DEF Choose
  <1>5. ASSUME NEW g \in Offered, ChangePage(g)
        PROVE  TInv'
    <2>1. [params EXCEPT !.page = g] \in Params
      <3>1. params.page \in Nat \ {0} /\ count \in Nat
        BY <1>1 DEF Params, Typed
      <3>2. g \in Nat \ {0}
        BY <3>1 DEF Offered
      <3> QED
        BY <1>1, <3>2 DEF Params
    <2>2. params' = [params EXCEPT !.page = g]
      BY <1>5 DEF ChangePage, Render
    <2> QED
      BY <1>1, <1>5, <2>1, <2>2, RenderKeeps DEF ChangePage
  <1>6. CASE Refresh
    BY <1>1, <1>6, RenderKeeps DEF Refresh
  <1>7. ASSUME NEW i \in DOMAIN rows, DeleteRow(i)
        PROVE  TInv'
    <2> DEFINE r == [op |-> "delete", id |-> rows[i], index |-> i,
                     alone |-> queue = <<>>]
    <2>1. queue' = Append(queue, r)
          /\ UNCHANGED <<kind, server, params, wanted, rows, count, shown, failed>>
      BY <1>7 DEF DeleteRow
    <2>2. rows[i] \in Ids /\ i \in Nat /\ queue \in Seq(Request)
      BY <1>1 DEF Typed, IsPage
    <2>3. r \in Request /\ r.op = "delete" /\ r.id = rows[i] /\ r.index = i
      BY <2>2 DEF Request
    <2>a. r.alone => queue = <<>>
      OBVIOUS
    <2>b. r.alone => Len(queue) = 0
      BY <2>a
    <2> HIDE DEF r
    <2>4. /\ queue' \in Seq(Request) /\ Len(queue') = Len(queue) + 1
          /\ \A k \in 1..Len(queue) : queue'[k] = queue[k]
          /\ queue'[Len(queue) + 1] = r
      BY <2>1, <2>2, <2>3
    <2>5. StillThere'
      BY <1>1, <2>1, <2>2, <2>3, <2>b, <2>4 DEF StillThere
    <2>6. PageOfOldest'
      BY <1>1, <2>1, <2>2, <2>4, OldestStays
    <2>7. Typed'
      BY <1>1, <2>1, <2>4, Zenon DEF Typed, IsPage, server
    <2> QED
      BY <2>5, <2>6, <2>7 DEF TInv
  <1> QED
    BY <1>2, <1>3, <1>4, <1>5, <1>6, <1>7
       DEF User, RegistriesUser, DevicesUser, TelemetryUser, Browse, Pagination, RowControls

\* The answers: the second oldest request was not sent alone.
LEMMA AnswerTyped == TInv /\ Answer => TInv'
  <1> SUFFICES ASSUME TInv, Answer PROVE TInv'
    OBVIOUS
  <1>1. /\ Typed /\ StillThere /\ PageOfOldest
        /\ table \subseteq Ids /\ queue \in Seq(Request)
    BY DEF TInv, Typed
  <1>2. CASE PageQueried
    <2> DEFINE p == Head(queue).params
    <2>1. queue # <<>> /\ Head(queue) \in Request /\ Head(queue).op = "list"
      BY <1>1, <1>2 DEF PageQueried
    <2>2. p \in Params
      BY <2>1 DEF Request
    <2>3. IsPage(Rows(p)) /\ Rows(p)' = Rows(p)
      <3>1. IsPage(Rows(p))
        BY <1>1, <2>2, RowsOK DEF IsPage
      <3>2. UNCHANGED <<kind, table, queue>>
        BY <1>2 DEF PageQueried
      <3> QED
        BY <3>1, <3>2 DEF Rows, Before, Matching
    <2>4. /\ fetched' = <<Rows(p)>>
          /\ UNCHANGED <<kind, table, params, wanted, rows, count, shown, failed, queue, steady>>
      BY <1>2 DEF PageQueried
    <2> HIDE DEF p
    <2>5. Typed'
      BY <1>1, <2>3, <2>4 DEF Typed, IsPage
    <2>6. StillThere'
      BY <1>1, <2>4 DEF StillThere
    <2>7. PageOfOldest'
      BY <2>1, <2>3, <2>4 DEF PageOfOldest, p
    <2> QED
      BY <2>5, <2>6, <2>7 DEF TInv
  <1>3. ASSUME ListAnswered \/ RemoveAnswered \/ Failed
        PROVE  /\ queue # <<>> /\ Served /\ UNCHANGED <<kind, params, wanted>>
               /\ queue' \in Seq(Request) /\ queue[1] \in Request
               /\ Head(queue) = queue[1] /\ 1 \in 1..Len(queue)
               /\ Deleted(Head(queue).id) \subseteq Ids
               /\ StillThere' /\ PageOfOldest'
    <2>1. queue # <<>> /\ Served /\ UNCHANGED <<kind, params, wanted>>
      BY <1>3 DEF ListAnswered, RemoveAnswered, Failed
    <2>2. /\ Len(queue) \in Nat /\ 1 \in 1..Len(queue)
          /\ queue' \in Seq(Request) /\ Len(queue') = Len(queue) - 1
          /\ \A k \in 1..Len(queue') : queue'[k] = queue[k + 1]
          /\ Head(queue) = queue[1] /\ queue[1] \in Request
      BY <1>1, <2>1 DEF Served
    <2>3. StillThere'
      BY <1>1, <2>2 DEF StillThere
    <2>4. PageOfOldest'
      BY <2>1 DEF Served, PageOfOldest
    <2>5. Deleted(Head(queue).id) \subseteq Ids
      BY <1>1 DEF Deleted
    <2> QED
      BY <2>1, <2>2, <2>3, <2>4, <2>5
  <1>4. ASSUME ListAnswered \/ RemoveAnswered \/ Failed,
               table' \subseteq Ids, IsPage(rows'), shown' \in Params,
               count' \in Nat, failed' \in BOOLEAN
        PROVE  TInv'
    BY <1>1, <1>3, <1>4, Zenon DEF TInv, Typed, Served
  <1>5. CASE ListAnswered
    <2> DEFINE p == Head(queue).params
    <2>1. p \in Params
      BY <1>3, <1>5 DEF ListAnswered, Request
    <2>2. IsPage(fetched[1])
      BY <1>1, <1>5 DEF ListAnswered, Typed
    <2>3. Pages(p) \in Nat
      BY <1>1, MatchingOK, Multiples DEF Pages
    <2> HIDE DEF p
    <2>4. /\ table' = table /\ rows' = fetched[1] /\ count' = Pages(p)
          /\ shown' = p /\ failed' = FALSE
      BY <1>5 DEF ListAnswered, p
    <2> QED
      BY <1>1, <1>4, <1>5, <2>1, <2>2, <2>3, <2>4
  <1>6. CASE RemoveAnswered
    <2>1. rows \in Seq(Ids) /\ IsInjective(rows) /\ Len(rows) <= PageSize
          /\ PageSize \in Nat
      BY <1>1, PageAssumption DEF Typed, IsPage
    <2>2. IsPage(rows')
      <3>1. CASE Head(queue).index \in DOMAIN rows
        <4>1. rows' = RemoveAt(rows, Head(queue).index)
          BY <1>6, <3>1 DEF RemoveAnswered
        <4>2. rows' \in Seq(Ids) /\ IsInjective(rows') /\ Len(rows') = Len(rows) - 1
          BY <2>1, <3>1, <4>1, Removed
        <4> QED
          BY <2>1, <4>2 DEF IsPage
      <3>2. CASE Head(queue).index \notin DOMAIN rows
        BY <1>6, <2>1, <3>2 DEF RemoveAnswered, IsPage
      <3> QED
        BY <3>1, <3>2
    <2>3. table' \subseteq Ids /\ UNCHANGED <<shown, count, failed>>
      BY <1>3, <1>6 DEF RemoveAnswered
    <2> QED
      BY <1>1, <1>4, <1>6, <2>2, <2>3, Zenon DEF Typed
  <1>7. CASE Failed
    <2>1. /\ table' \subseteq Ids /\ failed' \in BOOLEAN
          /\ UNCHANGED <<rows, shown, count>>
      BY <1>1, <1>3, <1>7 DEF Failed, Typed
    <2> QED
      BY <1>1, <1>4, <1>7, <2>1, Zenon DEF Typed, IsPage
  <1> QED
    BY <1>2, <1>5, <1>6, <1>7 DEF Answer

\* The first rendering.
LEMMA InitTyped == Init => TInv
  <1> SUFFICES ASSUME Init PROVE TInv
    OBVIOUS
  <1>1. FirstPage \in Params
    <2>1. "" \in SearchNames /\ 0 \in Owners
      BY PageAssumption, Zenon
    <2>2. 1 \in Nat \ {0}
      OBVIOUS
    <2> QED
      BY <2>1, <2>2, Zenon DEF FirstPage, Params
  <1>2. params \in Params /\ List(params) \in Request
    BY <1>1, ListIsRequest DEF Init, Params
  <1>3. queue \in Seq(Request) /\ Len(queue) = 1 /\ queue[1].op = "list"
    BY <1>2 DEF Init, List
  <1>4. rows \in Seq(Ids) /\ IsInjective(rows) /\ Len(rows) = 0
    BY DEF Init, IsInjective
  <1>5. Len(rows) <= PageSize /\ 0 \in Nat
    <2>1. PageSize \in Nat \ {0}
      BY PageAssumption, Zenon
    <2> QED
      BY <1>4, <2>1
  <1>6. Typed
    BY <1>2, <1>3, <1>4, <1>5, Zenon DEF Init, Typed, IsPage
  <1>7. StillThere
    BY <1>3 DEF StillThere
  <1>8. PageOfOldest
    BY DEF Init, PageOfOldest
  <1> QED
    BY <1>6, <1>7, <1>8 DEF TInv

\* Every variable keeps its type, and the row that a lone delete request names
\* keeps its index until the answer comes, although rows are found again by
\* their index (DevicesPage.tsx:84-110).
THEOREM TypedAlways == Spec => []TInv
  <1>1. ASSUME TInv, [Next]_vars
        PROVE  TInv'
    <2>1. CASE UNCHANGED vars
      <3>1. UNCHANGED <<kind, server, params, wanted, rows, count, shown, failed, queue>>
        BY <2>1 DEF vars
      <3>2. Typed' /\ StillThere'
        BY <1>1, <3>1 DEF server, TInv, Typed, IsPage, StillThere
      <3>3. Len(queue) \in Nat /\ queue' \in Seq(Request)
        BY <1>1, <3>1 DEF TInv, Typed
      <3>4. PageOfOldest'
        BY <1>1, <3>1, <3>3, OldestStays DEF TInv
      <3> QED
        BY <3>2, <3>4 DEF TInv
    <2>2. CASE OthersChange
      BY <1>1, <2>2 DEF OthersChange, TInv, Typed, IsPage, StillThere, PageOfOldest
    <2> QED
      BY <1>1, <2>1, <2>2, UserTyped, AnswerTyped DEF Next
  <1> QED
    BY <1>1, InitTyped, PTL DEF Spec

\* A page never shows a row twice nor more rows than fit, whatever rows others
\* add and delete meanwhile (DeviceRepository.cpp:10-36, SqlBuilder's limit and
\* offset).
THEOREM TypeCorrect == Spec => []TypeOK
  <1>1. Typed => TypeOK
    BY DEF Typed, TypeOK, IsPage, Request
  <1> QED
    BY <1>1, TypedAlways, PTL DEF TInv

\* A row deleted while no other request is in flight is the row that disappears
\* from the table (DevicesPage.tsx:84-110, RegistryPage.tsx:73-89).
THEOREM DeletedIsRemovedAlways == Spec => DeletedIsRemoved
  <1>1. ASSUME TInv, RemoveAnswered, Head(queue).alone
        PROVE  /\ {rows'[i] : i \in DOMAIN rows'} =
                     {rows[i] : i \in DOMAIN rows} \ {Head(queue).id}
               /\ Len(rows') = Len(rows) - 1
    <2>1. Head(queue) = queue[1] /\ 1 \in 1..Len(queue)
      BY <1>1 DEF RemoveAnswered, TInv, Typed
    <2>2. Head(queue).index \in DOMAIN rows /\ rows[Head(queue).index] = Head(queue).id
      BY <1>1, <2>1 DEF RemoveAnswered, TInv, StillThere
    <2>3. rows' = RemoveAt(rows, Head(queue).index)
      BY <1>1, <2>2 DEF RemoveAnswered
    <2>4. rows \in Seq(Ids) /\ IsInjective(rows)
      BY <1>1 DEF TInv, Typed, IsPage
    <2> DEFINE r == RemoveAt(rows, Head(queue).index)
    <2>5. /\ {r[k] : k \in DOMAIN r} =
                {rows[k] : k \in DOMAIN rows} \ {rows[Head(queue).index]}
          /\ Len(r) = Len(rows) - 1
      BY <2>2, <2>4, Removed, Zenon
    <2> HIDE DEF r
    <2> QED
      BY <2>2, <2>3, <2>5 DEF r
  <1> QED
    BY <1>1, TypedAlways, PTL DEF Spec, DeletedIsRemoved

\* No page that is offered with an answer is empty in that answer, and every page
\* beyond is, unless somebody changes the table between the server's two statements:
\* Math.ceil on the client and limit and offset on the server agree
\* (DevicesPage.tsx:61-73, DeviceRepository.cpp:10-36).
THEOREM EmptyOnlyBeyondAlways == Spec => EmptyOnlyBeyond
  <1>1. ASSUME TInv, ListAnswered, steady
        PROVE  rows' = <<>> <=> shown'.page > count'
    <2> DEFINE p == Head(queue).params
               n == Cardinality(Matching(p))
    <2>1. p \in Params /\ table \subseteq Ids
      <3>1. Head(queue) \in Request
        BY <1>1 DEF ListAnswered, TInv, Typed
      <3> QED
        BY <1>1, <3>1 DEF ListAnswered, Request, TInv, Typed
    <2>2. n \in Nat /\ p.page \in Nat \ {0}
      BY <2>1, MatchingOK DEF Params
    <2>3. rows' = Rows(p)
      BY <1>1 DEF ListAnswered, TInv, PageOfOldest
    <2>4. rows' = <<>> <=> PageSize * (p.page - 1) >= n
      BY <2>1, <2>3, RowsOK
    <2>5. count' = (n + PageSize - 1) \div PageSize /\ shown' = p
      BY <1>1 DEF ListAnswered, Pages
    <2> HIDE DEF n
    <2>6. p.page > (n + PageSize - 1) \div PageSize <=> PageSize * (p.page - 1) >= n
      BY <2>2, Multiples
    <2> QED
      BY <2>4, <2>5, <2>6
  <1> QED
    BY <1>1, TypedAlways, PTL DEF Spec, EmptyOnlyBeyond
=============================================================================
