------------------------ MODULE BatchBuilderProofs ------------------------
(***************************************************************************)
(* Proofs about the batch builder of the policies, for any policies,       *)
(* clusters and rows, any limit on the arguments and any sequence of calls.*)
(* HandlerLemmas is extended for what it says of batches of any length;    *)
(* the delivery of bundles, which it is also about, plays no part here.    *)
(***************************************************************************)
EXTENDS BatchBuilder, HandlerLemmas, SequenceTheorems, FiniteSetTheorems

-----------------------------------------------------------------------------
(***************************************************************************)
(* Rows of arguments.                                                      *)
(***************************************************************************)

\* The number of columns that a statement's text is generated from is the one its
\* rows have: total number of arguments divided by number of rows.
LEMMA DivIsWidth ==
    ASSUME NEW n \in Nat \ {0}, NEW w \in Nat
    PROVE  (n * w) \div n = w
<1>1. n * w \in Nat /\ n * w <= n * w /\ n * w < n * (w + 1)
  OBVIOUS
<1> QED
  BY <1>1

-----------------------------------------------------------------------------
(***************************************************************************)
(* What is done to the rows of the leaf hub, cluster by cluster of a       *)
(* policy: a row is inserted, deleted, or its compliance is updated.       *)
(***************************************************************************)
ChangeOK(d) ==
    /\ d.policy \in Policies
    /\ d.cluster \in Clusters
    /\ d.how # "delete" => d.compliance \in Compliance

\* The row r is the one that d is about.
About(d, r) == r.leafHub = LeafHub /\ r.policy = d.policy /\ r.cluster = d.cluster

NewRow(d) == [leafHub |-> LeafHub, policy |-> d.policy, cluster |-> d.cluster,
              compliance |-> d.compliance]

Result(rows, S) ==
    {r \in rows : \A d \in S : d.how # "insert" => ~About(d, r)}
        \cup {x \in Row : \E r \in rows, d \in S :
                  d.how = "update" /\ About(d, r) /\ x = [r EXCEPT !.compliance = d.compliance]}
        \cup {NewRow(d) : d \in {e \in S : e.how = "insert"}}

SameCluster(d, e) == d.policy = e.policy /\ d.cluster = e.cluster

Apart(S, T) == \A d \in S, e \in T : ~SameCluster(d, e)

LEMMA UpdatedRow ==
    ASSUME NEW r \in Row, NEW d, ChangeOK(d), d.how = "update"
    PROVE  /\ [r EXCEPT !.compliance = d.compliance] \in Row
           /\ \A e : About(e, [r EXCEPT !.compliance = d.compliance]) <=> About(e, r)
BY DEF Row, ChangeOK, About

LEMMA ResultType ==
    ASSUME NEW rows \in SUBSET Row, NEW S, \A d \in S : ChangeOK(d)
    PROVE  Result(rows, S) \in SUBSET Row
BY DEF Result, Row, ChangeOK, NewRow

\* Changes of other clusters can be made afterwards, or at once.
LEMMA ResultOfBoth ==
    ASSUME NEW rows \in SUBSET Row, NEW S, NEW T,
           \A d \in S \cup T : ChangeOK(d), Apart(S, T)
    PROVE  Result(Result(rows, S), T) = Result(rows, S \cup T)
<1> DEFINE mid == Result(rows, S)
           lhs == Result(mid, T)
           rhs == Result(rows, S \cup T)
<1>1. mid \in SUBSET Row
  BY ResultType
<1>2. ASSUME NEW d \in S, NEW e \in T, NEW r, About(d, r), About(e, r) PROVE FALSE
  BY <1>2 DEF Apart, SameCluster, About
<1>3. ASSUME NEW d \in S, NEW e \in T, d.how = "insert" PROVE ~About(e, NewRow(d))
  BY DEF About, NewRow, Apart, SameCluster
<1>4. ASSUME NEW x \in lhs PROVE x \in rhs
  <2>1. CASE x \in mid /\ \A e \in T : e.how # "insert" => ~About(e, x)
    <3>1. CASE x \in rows /\ \A d \in S : d.how # "insert" => ~About(d, x)
      BY <2>1, <3>1 DEF Result
    <3>2. CASE \E r \in rows, d \in S :
                   d.how = "update" /\ About(d, r) /\ x = [r EXCEPT !.compliance = d.compliance]
      <4>1. x \in Row
        BY <2>1, <1>1
      <4> QED
        BY <3>2, <4>1 DEF Result
    <3>3. CASE \E d \in S : d.how = "insert" /\ x = NewRow(d)
      BY <3>3 DEF Result
    <3> QED
      BY <2>1, <3>1, <3>2, <3>3 DEF Result
  <2>2. CASE \E r \in mid, e \in T :
                 e.how = "update" /\ About(e, r) /\ x = [r EXCEPT !.compliance = e.compliance]
    <3>1. PICK r \in mid, e \in T :
                 e.how = "update" /\ About(e, r) /\ x = [r EXCEPT !.compliance = e.compliance]
      BY <2>2
    <3>2. CASE r \in rows
      BY <1>1, <3>1, <3>2, UpdatedRow DEF Result
    <3>3. CASE \E q \in rows, d \in S :
                   d.how = "update" /\ About(d, q) /\ r = [q EXCEPT !.compliance = d.compliance]
      BY <1>2, <3>1, <3>3, UpdatedRow
    <3>4. CASE \E d \in S : d.how = "insert" /\ r = NewRow(d)
      BY <1>3, <3>1, <3>4
    <3> QED
      BY <3>1, <3>2, <3>3, <3>4 DEF Result
  <2>3. CASE \E e \in T : e.how = "insert" /\ x = NewRow(e)
    BY <2>3 DEF Result
  <2> QED
    BY <2>1, <2>2, <2>3 DEF Result
<1>5. ASSUME NEW x \in rhs PROVE x \in lhs
  <2>1. CASE x \in rows /\ \A d \in S \cup T : d.how # "insert" => ~About(d, x)
    <3>1. x \in mid
      BY <2>1 DEF Result
    <3> QED
      BY <2>1, <3>1 DEF Result
  <2>2. CASE \E r \in rows, d \in S \cup T :
                 d.how = "update" /\ About(d, r) /\ x = [r EXCEPT !.compliance = d.compliance]
    <3>1. PICK r \in rows, d \in S \cup T :
                 d.how = "update" /\ About(d, r) /\ x = [r EXCEPT !.compliance = d.compliance]
      BY <2>2
    <3>2. x \in Row /\ \A e : About(e, x) <=> About(e, r)
      BY <3>1, UpdatedRow
    <3>3. CASE d \in S
      <4>1. x \in mid
        BY <3>1, <3>2, <3>3 DEF Result
      <4>2. \A e \in T : ~About(e, x)
        BY <1>2, <3>1, <3>2, <3>3
      <4> QED
        BY <4>1, <4>2 DEF Result
    <3>4. CASE d \in T
      <4>1. \A e \in S : ~About(e, r)
        BY <1>2, <3>1, <3>4
      <4>2. r \in mid
        BY <4>1 DEF Result
      <4> QED
        BY <3>1, <3>2, <3>4, <4>2 DEF Result
    <3> QED
      BY <3>3, <3>4
  <2>3. CASE \E d \in S \cup T : d.how = "insert" /\ x = NewRow(d)
    <3>1. PICK d \in S \cup T : d.how = "insert" /\ x = NewRow(d)
      BY <2>3
    <3>2. CASE d \in T
      BY <3>1, <3>2 DEF Result
    <3>3. CASE d \in S
      <4>1. x \in mid
        BY <3>1, <3>3 DEF Result
      <4>2. \A e \in T : ~About(e, x)
        BY <1>3, <3>1, <3>3
      <4> QED
        BY <4>1, <4>2 DEF Result
    <3> QED
      BY <3>2, <3>3
  <2> QED
    BY <2>1, <2>2, <2>3 DEF Result
<1> HIDE DEF lhs, rhs, mid
<1>6. lhs = rhs
  BY <1>4, <1>5
<1> QED
  BY <1>6 DEF lhs, rhs, mid

-----------------------------------------------------------------------------
(***************************************************************************)
(* What the statement made of some rows of arguments does, for each of the *)
(* kinds whose statements may be cut.                                      *)
(***************************************************************************)
RowArgs(k) ==
    CASE k = "insert" ->
             {<<p, c, LeafHub, ErrorNone, x>> : p \in Policies, c \in Clusters, x \in Compliance}
      [] k = "updatePolicy" -> {<<p, LeafHub, x>> : p \in Policies, x \in Compliance}
      [] k = "updateCluster" ->
             {<<p, c, LeafHub, x>> : p \in Policies, c \in Clusters, x \in Compliance}
      [] k = "delete" -> {<<p>> : p \in Policies}

Inserting(v) == [how |-> "insert", policy |-> v[1], cluster |-> v[2], compliance |-> v[5]]

Updating(p, c, x) == [how |-> "update", policy |-> p, cluster |-> c, compliance |-> x]

Deleting(p, c) == [how |-> "delete", policy |-> p, cluster |-> c]

Changes(k, V) ==
    CASE k = "insert" -> {Inserting(v) : v \in V}
      [] k = "updatePolicy" -> {Updating(v[1], c, v[3]) : v \in V, c \in Clusters}
      [] k = "updateCluster" -> {Updating(v[1], v[2], v[4]) : v \in V}
      [] k = "delete" -> {Deleting(v[1], c) : v \in V, c \in Clusters}

StatementOf(k, V) ==
    CASE k = "insert" ->
             InsertRows({[policy |-> v[1], cluster |-> v[2], leafHub |-> v[3], compliance |-> v[5]] :
                            v \in V})
      [] k = "updatePolicy" ->
             UpdateRows("compliance", {"leafHub", "policy"},
                        {[policy |-> v[1], leafHub |-> v[2], compliance |-> v[3]] : v \in V})
      [] k = "updateCluster" ->
             UpdateRows("compliance", {"leafHub", "policy", "cluster"},
                        {[policy |-> v[1], cluster |-> v[2], leafHub |-> v[3], compliance |-> v[4]] :
                            v \in V})
      [] k = "delete" ->
             DeleteRows({"leafHub", "policy"}, {[leafHub |-> LeafHub, policy |-> v[1]] : v \in V})

LEMMA ChangesType ==
    ASSUME NEW k \in Kinds, NEW V \in SUBSET RowArgs(k)
    PROVE  \A d \in Changes(k, V) : ChangeOK(d)
<1>1. CASE k = "insert"
  BY <1>1 DEF RowArgs, Changes, Inserting, ChangeOK
<1>2. CASE k = "updatePolicy"
  BY <1>2 DEF RowArgs, Changes, Updating, ChangeOK
<1>3. CASE k = "updateCluster"
  BY <1>3 DEF RowArgs, Changes, Updating, ChangeOK
<1>4. CASE k = "delete"
  BY <1>4 DEF RowArgs, Changes, Deleting, ChangeOK
<1> QED
  BY <1>1, <1>2, <1>3, <1>4 DEF Kinds, Operations

LEMMA ChangesOfBoth ==
    ASSUME NEW k \in Kinds, NEW V, NEW W
    PROVE  Changes(k, V \cup W) = Changes(k, V) \cup Changes(k, W)
<1>1. CASE k = "insert"
  BY <1>1 DEF Changes
<1>2. CASE k = "updatePolicy"
  BY <1>2 DEF Changes
<1>3. CASE k = "updateCluster"
  BY <1>3 DEF Changes
<1>4. CASE k = "delete"
  BY <1>4 DEF Changes
<1> QED
  BY <1>1, <1>2, <1>3, <1>4 DEF Kinds, Operations

LEMMA AgreeOn ==
    /\ \A r, s : Agree(r, s, {"leafHub", "policy"}) <=> r.leafHub = s.leafHub /\ r.policy = s.policy
    /\ \A r, s : Agree(r, s, {"leafHub", "policy", "cluster"}) <=>
            r.leafHub = s.leafHub /\ r.policy = s.policy /\ r.cluster = s.cluster
BY Zenon DEF Agree

\* INSERT: the columns come in the order of Insert's arguments.
LEMMA InsertResult ==
    ASSUME NEW rows \in SUBSET Row, NEW V \in SUBSET RowArgs("insert")
    PROVE  Execute(rows, StatementOf("insert", V)) = Result(rows, Changes("insert", V))
<1> DEFINE new == {[policy |-> v[1], cluster |-> v[2], leafHub |-> v[3], compliance |-> v[5]] : v \in V}
           S == {Inserting(v) : v \in V}
<1>1. StatementOf("insert", V) = InsertRows(new) /\ Changes("insert", V) = S
  BY DEF StatementOf, Changes
<1>2. \A v \in V : v[3] = LeafHub
  BY DEF RowArgs
<1>3. \A v \in V : NewRow(Inserting(v)) = [policy |-> v[1], cluster |-> v[2], leafHub |-> v[3], compliance |-> v[5]]
  BY <1>2 DEF NewRow, Inserting
<1>4. \A d \in S : d.how = "insert"
  BY DEF Inserting
<1>5. {NewRow(d) : d \in {e \in S : e.how = "insert"}} = new
  BY <1>3, <1>4
<1> HIDE DEF new, S
<1>6. Result(rows, S) = rows \cup new
  BY <1>4, <1>5 DEF Result
<1> QED
  BY <1>1, <1>6, ExecuteInsert

\* UPDATE, however its rows name the clusters.
LEMMA UpdateResult ==
    ASSUME NEW rows \in SUBSET Row, NEW key, NEW new, NEW S,
           \A d \in S : d.how = "update" /\ ChangeOK(d),
           \A r \in rows : \A s \in new :
               Agree(r, s, key) => \E d \in S : About(d, r) /\ d.compliance = s.compliance,
           \A r \in rows : \A d \in S :
               About(d, r) => \E s \in new : Agree(r, s, key) /\ d.compliance = s.compliance
    PROVE  Execute(rows, UpdateRows("compliance", key, new)) = Result(rows, S)
<1> DEFINE after == Execute(rows, UpdateRows("compliance", key, new))
           With(r, v) == [r EXCEPT !.compliance = v]
<1>1. \A r \in rows : \A d \in S : With(r, d.compliance) \in Row
  BY UpdatedRow
<1>2. ASSUME NEW x
      PROVE  x \in after <=>
               \/ x \in rows /\ \A s \in new : ~Agree(x, s, key)
               \/ \E r \in rows : \E s \in new : Agree(r, s, key) /\ x = With(r, s.compliance)
  BY ExecuteUpdate
<1>3. ASSUME NEW x
      PROVE  x \in Result(rows, S) <=>
               \/ x \in rows /\ \A d \in S : ~About(d, x)
               \/ \E r \in rows : \E d \in S : About(d, r) /\ x = With(r, d.compliance)
  BY <1>1 DEF Result
<1> HIDE DEF after, With
<1>4. ASSUME NEW x PROVE x \in after <=> x \in Result(rows, S)
  <2>1. x \in rows => ((\A s \in new : ~Agree(x, s, key)) <=> (\A d \in S : ~About(d, x)))
    OBVIOUS
  <2>2. (\E r \in rows : \E s \in new : Agree(r, s, key) /\ x = With(r, s.compliance))
        <=> (\E r \in rows : \E d \in S : About(d, r) /\ x = With(r, d.compliance))
    OBVIOUS
  <2> QED
    BY <1>2, <1>3, <2>1, <2>2
<1> QED
  BY <1>4 DEF after

\* UPDATE of single clusters.
LEMMA UpdateClusterResult ==
    ASSUME NEW rows \in SUBSET Row, NEW V \in SUBSET RowArgs("updateCluster")
    PROVE  Execute(rows, StatementOf("updateCluster", V)) = Result(rows, Changes("updateCluster", V))
<1> DEFINE New(v) == [policy |-> v[1], cluster |-> v[2], leafHub |-> v[3], compliance |-> v[4]]
           key == {"leafHub", "policy", "cluster"}
           new == {New(v) : v \in V}
           S == {Updating(v[1], v[2], v[4]) : v \in V}
<1>1. StatementOf("updateCluster", V) = UpdateRows("compliance", key, new) /\ Changes("updateCluster", V) = S
  BY DEF StatementOf, Changes
<1>2. \A v \in V : v[3] = LeafHub
  BY DEF RowArgs
<1>3. ASSUME NEW r, NEW v \in V
      PROVE  /\ Agree(r, New(v), key) <=> About(Updating(v[1], v[2], v[4]), r)
             /\ New(v).compliance = Updating(v[1], v[2], v[4]).compliance
  BY <1>2, AgreeOn DEF About, Updating
<1>4. \A d \in S : d.how = "update" /\ ChangeOK(d)
  <2>1. \A d \in Changes("updateCluster", V) : ChangeOK(d)
    BY ChangesType DEF Kinds, Operations
  <2> QED
    BY <1>1, <2>1 DEF Updating
<1> HIDE DEF New, key
<1>5. /\ \A r \in rows : \A s \in new :
             Agree(r, s, key) => \E d \in S : About(d, r) /\ d.compliance = s.compliance
      /\ \A r \in rows : \A d \in S :
             About(d, r) => \E s \in new : Agree(r, s, key) /\ d.compliance = s.compliance
  BY <1>3
<1> HIDE DEF new, S
<1> QED
  BY <1>1, <1>4, <1>5, UpdateResult

\* UPDATE of all clusters of a policy: no cluster is named.
LEMMA UpdatePolicyResult ==
    ASSUME NEW rows \in SUBSET Row, NEW V \in SUBSET RowArgs("updatePolicy")
    PROVE  Execute(rows, StatementOf("updatePolicy", V)) = Result(rows, Changes("updatePolicy", V))
<1> DEFINE New(v) == [policy |-> v[1], leafHub |-> v[2], compliance |-> v[3]]
           key == {"leafHub", "policy"}
           new == {New(v) : v \in V}
           S == {Updating(v[1], c, v[3]) : v \in V, c \in Clusters}
<1>1. StatementOf("updatePolicy", V) = UpdateRows("compliance", key, new) /\ Changes("updatePolicy", V) = S
  BY DEF StatementOf, Changes
<1>2. \A v \in V : v[2] = LeafHub
  BY DEF RowArgs
<1>3. ASSUME NEW r \in Row, NEW v \in V
      PROVE  /\ Agree(r, New(v), key) => About(Updating(v[1], r.cluster, v[3]), r)
             /\ \A c \in Clusters : About(Updating(v[1], c, v[3]), r) => Agree(r, New(v), key)
             /\ \A c \in Clusters : New(v).compliance = Updating(v[1], c, v[3]).compliance
             /\ r.cluster \in Clusters
  BY <1>2, AgreeOn DEF About, Updating, Row
<1>4. \A d \in S : d.how = "update" /\ ChangeOK(d)
  <2>1. \A d \in Changes("updatePolicy", V) : ChangeOK(d)
    BY ChangesType DEF Kinds, Operations
  <2> QED
    BY <1>1, <2>1 DEF Updating
<1> HIDE DEF New, key
<1>5. ASSUME NEW r \in rows, NEW s \in new, Agree(r, s, key)
      PROVE  \E d \in S : About(d, r) /\ d.compliance = s.compliance
  BY <1>3, <1>5
<1>6. ASSUME NEW r \in rows, NEW d \in S, About(d, r)
      PROVE  \E s \in new : Agree(r, s, key) /\ d.compliance = s.compliance
  BY <1>3, <1>6
<1> HIDE DEF new, S
<1> QED
  BY <1>1, <1>4, <1>5, <1>6, UpdateResult

\* DELETE of policies.
LEMMA DeletePolicyResult ==
    ASSUME NEW rows \in SUBSET Row, NEW V \in SUBSET RowArgs("delete")
    PROVE  Execute(rows, StatementOf("delete", V)) = Result(rows, Changes("delete", V))
<1> DEFINE New(v) == [leafHub |-> LeafHub, policy |-> v[1]]
           key == {"leafHub", "policy"}
           old == {New(v) : v \in V}
           S == {Deleting(v[1], c) : v \in V, c \in Clusters}
<1>1. StatementOf("delete", V) = DeleteRows(key, old) /\ Changes("delete", V) = S
  BY DEF StatementOf, Changes
<1>2. ASSUME NEW r \in Row, NEW v \in V
      PROVE  /\ Agree(r, New(v), key) => About(Deleting(v[1], r.cluster), r)
             /\ \A c \in Clusters : About(Deleting(v[1], c), r) => Agree(r, New(v), key)
             /\ r.cluster \in Clusters
  BY AgreeOn DEF About, Deleting, Row
<1>3. \A d \in S : d.how = "delete"
  BY DEF Deleting
<1>4. ASSUME NEW r \in rows
      PROVE  (\A s \in old : ~Agree(r, s, key)) <=> (\A d \in S : ~About(d, r))
  <2> HIDE DEF key, New
  <2> QED
    BY <1>2
<1> HIDE DEF S, old, key
<1>5. Result(rows, S) = {r \in rows : \A d \in S : ~About(d, r)}
  BY <1>3 DEF Result
<1>6. Execute(rows, DeleteRows(key, old)) = {r \in rows : \A s \in old : ~Agree(r, s, key)}
  BY ExecuteDelete
<1> QED
  BY <1>1, <1>4, <1>5, <1>6

\* DELETE of some clusters of a policy.
LEMMA DeleteClustersResult ==
    ASSUME NEW rows \in SUBSET Row, NEW p \in Policies, NEW C \in SUBSET Clusters
    PROVE  Execute(rows, DeleteRows({"leafHub", "policy", "cluster"},
                                    {[leafHub |-> LeafHub, policy |-> p, cluster |-> c] : c \in C}))
           = Result(rows, {Deleting(p, c) : c \in C})
<1> DEFINE New(c) == [leafHub |-> LeafHub, policy |-> p, cluster |-> c]
           key == {"leafHub", "policy", "cluster"}
           old == {New(c) : c \in C}
           S == {Deleting(p, c) : c \in C}
<1>2. ASSUME NEW r, NEW c \in C
      PROVE  Agree(r, New(c), key) <=> About(Deleting(p, c), r)
  BY AgreeOn DEF About, Deleting
<1>3. \A d \in S : d.how = "delete"
  BY DEF Deleting
<1>4. ASSUME NEW r \in rows
      PROVE  (\A s \in old : ~Agree(r, s, key)) <=> (\A d \in S : ~About(d, r))
  <2> HIDE DEF key, New
  <2> QED
    BY <1>2
<1> HIDE DEF S, old, key
<1>5. Result(rows, S) = {r \in rows : \A d \in S : ~About(d, r)}
  BY <1>3 DEF Result
<1>6. Execute(rows, DeleteRows(key, old)) = {r \in rows : \A s \in old : ~Agree(r, s, key)}
  BY ExecuteDelete
<1>7. Execute(rows, DeleteRows(key, old)) = Result(rows, S)
  BY <1>4, <1>5, <1>6
<1> QED
  BY <1>7 DEF S, old, key

LEMMA StatementResult ==
    ASSUME NEW rows \in SUBSET Row, NEW k \in Kinds, NEW V \in SUBSET RowArgs(k)
    PROVE  Execute(rows, StatementOf(k, V)) = Result(rows, Changes(k, V))
BY InsertResult, UpdateClusterResult, UpdatePolicyResult, DeletePolicyResult DEF Kinds, Operations

-----------------------------------------------------------------------------
(***************************************************************************)
(* The arguments that are collected for a kind of statement are the rows   *)
(* that were added, one after the other, after the leaf hub if it is a     *)
(* deletion.                                                               *)
(***************************************************************************)
Value == {LeafHub, ErrorNone} \cup Policies \cup Clusters \cup Compliance

Lead(k) == IF k = "delete" THEN 1 ELSE 0

ArgsRow(k, a, i) == [j \in 1 .. Width(k) |-> a[Lead(k) + i * Width(k) + j]]

ArgsRows(k, a, n) == {ArgsRow(k, a, i) : i \in 0 .. n - 1}

ArgsOK(k, a, n) ==
    /\ a \in Seq(Value)
    /\ n \in Nat
    /\ Len(a) = Lead(k) + n * Width(k)
    /\ k = "delete" => a[1] = LeafHub
    /\ ArgsRows(k, a, n) \subseteq RowArgs(k)

LEMMA WidthType ==
    ASSUME NEW k \in Kinds
    PROVE  Width(k) \in {1, 3, 4, 5} /\ Lead(k) \in {0, 1}
BY DEF Width, Lead, Kinds, Operations

LEMMA RowIsSeq ==
    ASSUME NEW k \in Kinds, NEW row \in RowArgs(k)
    PROVE  /\ row \in Seq(Value)
           /\ Len(row) = Width(k)
           /\ row = [j \in 1 .. Width(k) |-> row[j]]
<1>1. CASE k = "insert"
  <2>1. PICK p \in Policies, c \in Clusters, x \in Compliance : row = <<p, c, LeafHub, ErrorNone, x>>
    BY <1>1 DEF RowArgs
  <2>2. p \in Value /\ c \in Value /\ LeafHub \in Value /\ ErrorNone \in Value /\ x \in Value
    BY DEF Value
  <2>3. row \in Seq(Value) /\ Len(row) = 5
    BY <2>1, <2>2
  <2> QED
    BY <1>1, <2>3 DEF Width
<1>2. CASE k = "updatePolicy"
  <2>1. PICK p \in Policies, x \in Compliance : row = <<p, LeafHub, x>>
    BY <1>2 DEF RowArgs
  <2>2. p \in Value /\ LeafHub \in Value /\ x \in Value
    BY DEF Value
  <2>3. row \in Seq(Value) /\ Len(row) = 3
    BY <2>1, <2>2
  <2> QED
    BY <1>2, <2>3 DEF Width
<1>3. CASE k = "updateCluster"
  <2>1. PICK p \in Policies, c \in Clusters, x \in Compliance : row = <<p, c, LeafHub, x>>
    BY <1>3 DEF RowArgs
  <2>2. p \in Value /\ c \in Value /\ LeafHub \in Value /\ x \in Value
    BY DEF Value
  <2>3. row \in Seq(Value) /\ Len(row) = 4
    BY <2>1, <2>2
  <2> QED
    BY <1>3, <2>3 DEF Width
<1>4. CASE k = "delete"
  <2>1. PICK p \in Policies : row = <<p>>
    BY <1>4 DEF RowArgs
  <2>2. p \in Value
    BY DEF Value
  <2>3. row \in Seq(Value) /\ Len(row) = 1
    BY <2>1, <2>2
  <2> QED
    BY <1>4, <2>3 DEF Width
<1> QED
  BY <1>1, <1>2, <1>3, <1>4 DEF Kinds, Operations

LEMMA NoArgsOK ==
    ASSUME NEW k \in Kinds
    PROVE  ArgsOK(k, NoArgs(k), 0) /\ ArgsRows(k, NoArgs(k), 0) = {}
<1>1. ArgsRows(k, NoArgs(k), 0) = {}
  BY DEF ArgsRows
<1>2. NoArgs(k) \in Seq(Value) /\ Len(NoArgs(k)) = Lead(k) /\ (k = "delete" => NoArgs(k)[1] = LeafHub)
  <2>1. LeafHub \in Value
    BY DEF Value
  <2>2. CASE k = "delete"
    BY <2>1, <2>2 DEF NoArgs, Lead
  <2>3. CASE k # "delete"
    BY <2>3 DEF NoArgs, Lead
  <2> QED
    BY <2>2, <2>3
<1>3. Lead(k) + 0 * Width(k) = Lead(k)
  BY WidthType
<1> QED
  BY <1>1, <1>2, <1>3 DEF ArgsOK

\* Rows start at multiples of their width.
LEMMA RowsFit ==
    ASSUME NEW n \in Nat, NEW i \in 0 .. n - 1, NEW w \in {1, 3, 4, 5}, NEW j \in 1 .. w
    PROVE  i * w + j \in 1 .. n * w
OBVIOUS

\* A row that is added comes after the others and leaves them as they are.
LEMMA RowAdded ==
    ASSUME NEW k \in Kinds, NEW a, NEW n, ArgsOK(k, a, n), NEW row \in RowArgs(k)
    PROVE  /\ ArgsOK(k, a \o row, n + 1)
           /\ ArgsRows(k, a \o row, n + 1) = ArgsRows(k, a, n) \cup {row}
<1> DEFINE w == Width(k)
           l == Lead(k)
           b == a \o row
           m == n * w
<1>1. w \in {1, 3, 4, 5} /\ l \in {0, 1} /\ n \in Nat /\ a \in Seq(Value) /\ Len(a) = l + n * w
  BY WidthType DEF ArgsOK
<1>2. row \in Seq(Value) /\ Len(row) = w /\ row = [j \in 1 .. w |-> row[j]]
  BY RowIsSeq
<1>3. /\ b \in Seq(Value)
      /\ Len(b) = Len(a) + Len(row)
      /\ \A i \in 1 .. Len(a) + Len(row) : b[i] = IF i <= Len(a) THEN a[i] ELSE row[i - Len(a)]
  BY <1>1, <1>2, ConcatProperties
<1>4. m \in Nat /\ (n + 1) * w = m + w /\ Len(a) = l + m
  BY <1>1
<1> HIDE DEF w, l, b, m
<1>5. Len(b) = l + (n + 1) * w
  <2>1. Len(b) = (l + m) + w /\ l \in Nat /\ w \in Nat
    BY <1>1, <1>2, <1>3, <1>4
  <2>2. (l + m) + w = l + (m + w)
    BY <1>4, <2>1
  <2> QED
    BY <1>4, <2>1, <2>2
<1>6. ASSUME NEW i \in 0 .. n - 1 PROVE ArgsRow(k, b, i) = ArgsRow(k, a, i)
  <2>1. ASSUME NEW j \in 1 .. w PROVE b[l + i * w + j] = a[l + i * w + j]
    <3>1. i * w + j \in 1 .. m
      BY <1>1, RowsFit DEF m
    <3>2. i * w \in Nat
      BY <1>1
    <3>3. l + i * w + j \in 1 .. Len(a)
      BY <1>1, <1>4, <3>1, <3>2
    <3>4. l + i * w + j \in 1 .. Len(a) + Len(row) /\ l + i * w + j <= Len(a)
      BY <1>1, <1>2, <1>4, <3>3
    <3> QED
      BY <1>3, <3>4
  <2> QED
    BY <2>1 DEF ArgsRow, w, l
<1>7. ArgsRow(k, b, n) = row
  <2>1. ASSUME NEW j \in 1 .. w PROVE b[l + m + j] = row[j]
    <3>1. /\ l + m + j \in 1 .. Len(a) + Len(row)
          /\ ~(l + m + j <= Len(a))
          /\ (l + m + j) - Len(a) = j
      BY <1>1, <1>2, <1>4
    <3> QED
      BY <1>3, <3>1
  <2>2. [j \in 1 .. w |-> b[l + m + j]] = [j \in 1 .. w |-> row[j]]
    BY <2>1
  <2> QED
    BY <1>2, <2>2 DEF ArgsRow, w, l, m
<1>8. ArgsRows(k, b, n + 1) = ArgsRows(k, a, n) \cup {row}
  <2>1. 0 .. (n + 1) - 1 = (0 .. n - 1) \cup {n}
    BY <1>1
  <2>2. ArgsRows(k, b, n + 1) = {ArgsRow(k, b, i) : i \in (0 .. n - 1) \cup {n}}
    BY <2>1 DEF ArgsRows
  <2> QED
    BY <1>6, <1>7, <2>2 DEF ArgsRows
<1>9. k = "delete" => b[1] = LeafHub
  <2> SUFFICES ASSUME k = "delete" PROVE b[1] = LeafHub
      OBVIOUS
  <2>1. l = 1 /\ a[1] = LeafHub
    BY DEF ArgsOK, l, Lead
  <2>2. 1 \in 1 .. Len(a) + Len(row) /\ 1 <= Len(a)
    BY <1>1, <1>2, <1>4, <2>1
  <2> QED
    BY <1>3, <2>1, <2>2
<1>10. ArgsRows(k, b, n + 1) \subseteq RowArgs(k)
  BY <1>8 DEF ArgsOK
<1>11. n + 1 \in Nat /\ b \in Seq(Value)
  BY <1>1, <1>3
<1>12. ArgsOK(k, b, n + 1)
  <2>1. Len(b) = Lead(k) + (n + 1) * Width(k)
    BY ONLY <1>5 DEF w, l
  <2> QED
    BY Zenon, <1>9, <1>10, <1>11, <2>1 DEF ArgsOK
<1> QED
  BY ONLY <1>8, <1>12 DEF b

\* The positions in the text of a statement are those of the rows that were added.
LEMMA GeneratedMeaning ==
    ASSUME NEW k \in Kinds, NEW a, NEW n, ArgsOK(k, a, n), n > 0
    PROVE  Meaning(Generate(k, a, n)) = StatementOf(k, ArgsRows(k, a, n))
<1> DEFINE s == Generate(k, a, n)
<1>0. n \in Nat \ {0} /\ a \in Seq(Value) /\ Len(a) = Lead(k) + n * Width(k)
  BY DEF ArgsOK
<1>1. s.operation = k /\ s.rowsCount = n /\ s.args = a /\ s.columnsCount = Len(a) \div n
  BY DEF Generate
<1> HIDE DEF s
<1>2. CASE k # "delete"
  <2>1. Lead(k) = 0 /\ Width(k) \in Nat
    BY <1>2, WidthType DEF Lead
  <2>2. Len(a) = n * Width(k)
    BY <1>0, <2>1
  <2>3. s.columnsCount = Width(k)
    BY <1>0, <1>1, <2>1, <2>2, DivIsWidth
  <2>4. ASSUME NEW i \in 0 .. n - 1 PROVE ValuesRow(s, i) = ArgsRow(k, a, i)
    <3>1. ASSUME NEW j \in 1 .. Width(k) PROVE Lead(k) + i * Width(k) + j = i * Width(k) + j
      BY <2>1
    <3> QED
      BY <1>1, <2>3, <3>1 DEF ValuesRow, ArgsRow
  <2>5. ValuesRows(s) = ArgsRows(k, a, n)
    BY <1>1, <2>4 DEF ValuesRows, ArgsRows
  <2> QED
    BY <1>1, <1>2, <2>5 DEF Meaning, StatementOf, Kinds, Operations, s
<1>3. CASE k = "delete"
  <2>1. a[1] = LeafHub
    BY <1>3 DEF ArgsOK
  <2>2. ASSUME NEW i \in 0 .. n - 1 PROVE ArgsRow(k, a, i)[1] = a[2 + i]
    <3>1. Width(k) = 1 /\ Lead(k) = 1 /\ 1 + i * 1 + 1 = 2 + i
      BY <1>3 DEF Width, Lead
    <3> QED
      BY <3>1 DEF ArgsRow
  <2>3. {[leafHub |-> s.args[1], policy |-> p] : p \in ArgsList(s, 2)}
        = {[leafHub |-> LeafHub, policy |-> v[1]] : v \in ArgsRows(k, a, n)}
    BY <1>1, <2>1, <2>2 DEF ArgsList, ArgsRows
  <2> QED
    BY <1>1, <1>3, <2>3 DEF Meaning, StatementOf, s
<1> QED
  BY <1>2, <1>3

-----------------------------------------------------------------------------
(***************************************************************************)
(* The batch grows at its end.                                             *)
(***************************************************************************)
Statement == [operation : Operations, rowsCount : Nat, columnsCount : Nat, args : Seq(Value)]

Meanings(b) == [i \in DOMAIN b |-> Meaning(b[i])]

After(b, rows) == ExecuteFirst(Len(b), Meanings(b), rows)

LEMMA MeaningsType ==
    ASSUME NEW b \in Seq(Statement)
    PROVE  Len(b) \in Nat /\ Len(Meanings(b)) = Len(b) /\ \A i \in 1 .. Len(b) : Meanings(b)[i] = Meaning(b[i])
<1>1. Len(b) \in Nat /\ DOMAIN b = 1 .. Len(b)
  OBVIOUS
<1>2. Meanings(b) = [i \in 1 .. Len(b) |-> Meaning(b[i])]
  BY <1>1 DEF Meanings
<1> DEFINE S == {Meaning(b[i]) : i \in 1 .. Len(b)}
<1>3. Meanings(b) \in Seq(S) /\ DOMAIN Meanings(b) = 1 .. Len(b)
  BY <1>1, <1>2
<1>4. Len(Meanings(b)) = Len(b)
  BY <1>1, <1>3
<1> QED
  BY <1>1, <1>2, <1>4

LEMMA SamePrefix ==
    ASSUME NEW b \in Seq(Statement), NEW c \in Seq(Statement), Len(b) <= Len(c),
           \A i \in 1 .. Len(b) : c[i] = b[i], NEW rows
    PROVE  ExecuteFirst(Len(b), Meanings(c), rows) = After(b, rows)
<1> DEFINE F(n) == ExecuteFirst(n, Meanings(c), rows)
           G(n) == ExecuteFirst(n, Meanings(b), rows)
           S == {n \in Nat : n <= Len(b) => F(n) = G(n)}
<1>1. /\ Len(b) \in Nat /\ Len(Meanings(b)) = Len(b)
      /\ \A i \in 1 .. Len(b) : Meanings(b)[i] = Meaning(b[i])
  BY MeaningsType
<1>2. /\ Len(c) \in Nat /\ Len(Meanings(c)) = Len(c)
      /\ \A i \in 1 .. Len(c) : Meanings(c)[i] = Meaning(c[i])
  BY MeaningsType
<1>3. F(0) = rows /\ \A n \in 1 .. Len(c) : F(n) = Execute(F(n - 1), Meanings(c)[n])
  BY <1>2, ExecuteFirstStep
<1>4. G(0) = rows /\ \A n \in 1 .. Len(b) : G(n) = Execute(G(n - 1), Meanings(b)[n])
  BY <1>1, ExecuteFirstStep
<1> HIDE DEF F, G
<1>5. 0 \in S
  BY <1>3, <1>4
<1>6. ASSUME NEW n \in Nat, n \in S PROVE n + 1 \in S
  <2> SUFFICES ASSUME n + 1 <= Len(b) PROVE F(n + 1) = G(n + 1)
      OBVIOUS
  <2>1. n + 1 \in 1 .. Len(b) /\ n + 1 \in 1 .. Len(c) /\ (n + 1) - 1 = n /\ n <= Len(b)
    BY <1>1, <1>2
  <2>2. Meanings(c)[n + 1] = Meanings(b)[n + 1]
    BY <1>1, <1>2, <2>1
  <2>3. F(n) = G(n)
    BY <1>6, <2>1
  <2> QED
    BY <1>3, <1>4, <2>1, <2>2, <2>3
<1>7. Nat \subseteq S
  <2> HIDE DEF S
  <2> QED
    BY <1>5, <1>6, SetInduction
<1>8. F(Len(b)) = G(Len(b))
  BY <1>1, <1>7
<1> QED
  BY <1>8 DEF F, G, After

LEMMA AfterAppend ==
    ASSUME NEW b \in Seq(Statement), NEW s \in Statement, NEW rows
    PROVE  /\ b \o <<s>> \in Seq(Statement)
           /\ After(b \o <<s>>, rows) = Execute(After(b, rows), Meaning(s))
<1> DEFINE c == b \o <<s>>
<1>1. /\ c \in Seq(Statement) /\ Len(c) = Len(b) + 1 /\ Len(b) \in Nat
      /\ \A i \in 1 .. Len(b) : c[i] = b[i]
      /\ c[Len(b) + 1] = s
  <2>1. /\ c = Append(b, s)
    BY AppendIsConcat
  <2> QED
    BY <2>1, AppendProperties
<1> HIDE DEF c
<1>2. Len(c) \in Nat /\ Len(Meanings(c)) = Len(c) /\ Meanings(c)[Len(c)] = Meaning(s)
  BY <1>1, MeaningsType
<1>3. ExecuteFirst(Len(c), Meanings(c), rows)
      = Execute(ExecuteFirst(Len(c) - 1, Meanings(c), rows), Meanings(c)[Len(c)])
  <2>1. \A n \in 1 .. Len(Meanings(c)) :
            ExecuteFirst(n, Meanings(c), rows)
            = Execute(ExecuteFirst(n - 1, Meanings(c), rows), Meanings(c)[n])
    BY <1>2, ExecuteFirstStep
  <2>2. Len(c) \in 1 .. Len(Meanings(c))
    BY <1>1, <1>2
  <2> QED
    BY <2>1, <2>2
<1>4. ExecuteFirst(Len(b), Meanings(c), rows) = After(b, rows)
  BY <1>1, SamePrefix
<1>5. Len(c) - 1 = Len(b)
  BY <1>1
<1> QED
  BY <1>1, <1>2, <1>3, <1>4, <1>5 DEF After, c

-----------------------------------------------------------------------------
(***************************************************************************)
(* The inductive invariant.  Until Build is called, what was asked for is  *)
(* what the statements queued so far do, followed by the changes that are  *)
(* still collected.  No two of the collections change the same cluster of  *)
(* a policy, so it does not matter which of them is queued first, or which *)
(* part of one.                                                            *)
(***************************************************************************)
Collected(k) == Changes(k, ArgsRows(k, args[k], rowsCount[k]))

DeletedClusters(p) ==
    {deleteClusterComplianceArgs[p][i] : i \in 3 .. Len(deleteClusterComplianceArgs[p])}

Deletions(p) == {Deleting(p, c) : c \in DeletedClusters(p)}

AllDeletions == UNION {Deletions(p) : p \in Policies}

AllCollected == (UNION {Collected(k) : k \in Kinds}) \cup AllDeletions

DeletionArgsOK(p) ==
    LET a == deleteClusterComplianceArgs[p]
    IN  a # <<>> => /\ Len(a) >= 3
                    /\ a[1] = LeafHub
                    /\ a[2] = p
                    /\ \A i \in 3 .. Len(a) : a[i] \in Clusters

BBTypes ==
    /\ maxArgsInStatement \in Nat \ {0}
    /\ args \in [Kinds -> Seq(Value)]
    /\ rowsCount \in [Kinds -> Nat]
    /\ deleteClusterComplianceArgs \in [Policies -> Seq(Value)]
    /\ batch \in Seq(Statement)
    /\ built \in BOOLEAN
    /\ table \in SUBSET Row
    /\ After(batch, table) \in SUBSET Row

ArgsInv ==
    /\ \A k \in Kinds : ArgsOK(k, args[k], rowsCount[k]) /\ Len(args[k]) <= maxArgsInStatement
    /\ \A p \in Policies : DeletionArgsOK(p)

ApartInv ==
    /\ \A d \in AllCollected : <<d.policy, d.cluster>> \in touched
    /\ \A k, l \in Kinds : k # l => Apart(Collected(k), Collected(l))
    /\ \A k \in Kinds : Apart(Collected(k), AllDeletions)

StatementOK(s) ==
    /\ s.rowsCount > 0
    /\ CASE s.operation = "delete" -> Len(s.args) = s.rowsCount + 1
         [] s.operation = "deleteCluster" -> Len(s.args) = s.rowsCount + 2
         [] OTHER -> Len(s.args) = s.rowsCount * s.columnsCount
    /\ s.operation # "deleteCluster" => FitsLimit(s)

BBInv ==
    /\ BBTypes
    /\ ArgsInv
    /\ \A i \in 1 .. Len(batch) : StatementOK(batch[i])
    /\ ApartInv
    /\ ~built => asked = Result(After(batch, table), AllCollected)
    /\ built => asked = After(batch, table)

\* Nothing is collected at first.
LEMMA BBInitInv == BBInit => BBInv
<1> SUFFICES ASSUME BBInit PROVE BBInv
    OBVIOUS
<1>1. \A k \in Kinds : ArgsOK(k, args[k], rowsCount[k]) /\ ArgsRows(k, args[k], rowsCount[k]) = {}
  BY NoArgsOK DEF BBInit
<1>2. \A k \in Kinds : Collected(k) = {}
  BY <1>1 DEF Collected, Changes, Kinds, Operations
<1>3. \A p \in Policies : deleteClusterComplianceArgs[p] = <<>> /\ Deletions(p) = {}
  BY DEF BBInit, Deletions, DeletedClusters
<1>4. AllCollected = {} /\ AllDeletions = {}
  BY <1>2, <1>3 DEF AllCollected, AllDeletions
<1>5. After(batch, table) = table
  <2>1. batch \in Seq(Statement) /\ Len(batch) = 0
    BY DEF BBInit
  <2>2. Len(Meanings(batch)) = 0
    BY <2>1, MeaningsType
  <2> QED
    BY <2>1, <2>2, ExecuteFirstStep DEF After
<1>6. table \in SUBSET Row /\ maxArgsInStatement \in Nat \ {0}
  BY BuilderAssumption DEF BBInit
<1>7. BBTypes
  <2>1. \A k \in Kinds : NoArgs(k) \in Seq(Value)
    BY NoArgsOK DEF ArgsOK
  <2>2. <<>> \in Seq(Statement) /\ <<>> \in Seq(Value) /\ 0 \in Nat
    OBVIOUS
  <2>3. args \in [Kinds -> Seq(Value)] /\ rowsCount \in [Kinds -> Nat]
        /\ deleteClusterComplianceArgs \in [Policies -> Seq(Value)]
    BY <2>1, <2>2 DEF BBInit
  <2> QED
    BY <1>5, <1>6, <2>2, <2>3 DEF BBInit, BBTypes
<1>8. ArgsInv
  <2>1. \A k \in Kinds : Len(args[k]) <= 1
    BY DEF BBInit, NoArgs
  <2>2. \A k \in Kinds : Len(args[k]) <= maxArgsInStatement
    BY <1>1, <1>6, <2>1 DEF ArgsOK
  <2> QED
    BY <1>1, <1>3, <2>2 DEF ArgsInv, DeletionArgsOK
<1>9. ApartInv
  BY <1>2, <1>4 DEF ApartInv, Apart
<1>10. asked = Result(After(batch, table), AllCollected) /\ ~built
  BY <1>4, <1>5 DEF BBInit, Result
<1>11. Len(batch) = 0
  BY DEF BBInit
<1> QED
  BY <1>7, <1>8, <1>9, <1>10, <1>11 DEF BBInv

\* The changes of the invariant are changes of rows.
LEMMA CollectedType ==
    ASSUME BBInv
    PROVE  /\ \A k \in Kinds : \A d \in Collected(k) : ChangeOK(d)
           /\ \A p \in Policies : DeletedClusters(p) \in SUBSET Clusters
           /\ \A d \in AllDeletions : ChangeOK(d)
           /\ \A d \in AllCollected : ChangeOK(d)
<1>1. ASSUME NEW k \in Kinds PROVE \A d \in Collected(k) : ChangeOK(d)
  <2>1. ArgsRows(k, args[k], rowsCount[k]) \in SUBSET RowArgs(k)
    BY DEF BBInv, ArgsInv, ArgsOK
  <2> QED
    BY <2>1, ChangesType DEF Collected
<1>2. ASSUME NEW p \in Policies PROVE DeletedClusters(p) \in SUBSET Clusters
  <2>1. deleteClusterComplianceArgs[p] \in Seq(Value) /\ DeletionArgsOK(p)
    BY DEF BBInv, BBTypes, ArgsInv
  <2>2. CASE deleteClusterComplianceArgs[p] = <<>>
    BY <2>2 DEF DeletedClusters
  <2>3. CASE deleteClusterComplianceArgs[p] # <<>>
    BY <2>1, <2>3 DEF DeletedClusters, DeletionArgsOK
  <2> QED
    BY <2>2, <2>3
<1>3. ASSUME NEW p \in Policies, NEW d \in Deletions(p) PROVE ChangeOK(d)
  BY <1>2 DEF Deletions, Deleting, ChangeOK
<1>4. \A d \in AllDeletions : ChangeOK(d)
  BY <1>3 DEF AllDeletions
<1>5. ASSUME NEW d \in AllCollected PROVE ChangeOK(d)
  <2>1. d \in AllDeletions \/ \E k \in Kinds : d \in Collected(k)
    BY DEF AllCollected
  <2> QED
    BY <1>1, <1>4, <2>1
<1> QED
  BY <1>1, <1>2, <1>4, <1>5

\* A change of clusters that were not touched is apart from all that is collected.
LEMMA NewIsApart ==
    ASSUME BBInv, NEW S, NEW clusters, clusters \cap touched = {},
           \A d \in S : <<d.policy, d.cluster>> \in clusters
    PROVE  Apart(AllCollected, S)
BY DEF BBInv, ApartInv, Apart, SameCluster

\* What a call of the builder does to what was asked for: the changes of the row
\* come after all others, and could as well have come with them.
LEMMA AskedGrows ==
    ASSUME BBInv, ~built, NEW S, \A d \in S : ChangeOK(d), Apart(AllCollected, S)
    PROVE  Result(asked, S) = Result(After(batch, table), AllCollected \cup S)
<1>1. \A d \in AllCollected \cup S : ChangeOK(d)
  BY CollectedType
<1>2. asked = Result(After(batch, table), AllCollected) /\ After(batch, table) \in SUBSET Row
  BY DEF BBInv, BBTypes
<1> QED
  BY <1>1, <1>2, ResultOfBoth

LEMMA AskedType ==
    ASSUME BBInv, ~built
    PROVE  asked \in SUBSET Row
BY CollectedType, ResultType DEF BBInv, BBTypes

\* The collections of the other kinds do not change.
LEMMA OthersKept ==
    ASSUME BBInv, NEW k \in Kinds, NEW a, NEW n,
           args' = [args EXCEPT ![k] = a], rowsCount' = [rowsCount EXCEPT ![k] = n],
           UNCHANGED deleteClusterComplianceArgs
    PROVE  /\ \A l \in Kinds \ {k} : Collected(l)' = Collected(l) /\ args'[l] = args[l]
                                      /\ rowsCount'[l] = rowsCount[l]
           /\ AllDeletions' = AllDeletions
           /\ \A p \in Policies : DeletionArgsOK(p)'
           /\ args'[k] = a /\ rowsCount'[k] = n
           /\ Collected(k)' = Changes(k, ArgsRows(k, a, n))
<1>1. /\ \A l \in Kinds \ {k} : args'[l] = args[l] /\ rowsCount'[l] = rowsCount[l]
      /\ args'[k] = a /\ rowsCount'[k] = n
  BY DEF BBInv, BBTypes
<1>2. \A l \in Kinds \ {k} : Collected(l)' = Collected(l)
  BY <1>1 DEF Collected
<1>3. Collected(k)' = Changes(k, ArgsRows(k, a, n))
  BY <1>1 DEF Collected
<1>4. AllDeletions' = AllDeletions /\ \A p \in Policies : DeletionArgsOK(p)'
  BY DEF AllDeletions, Deletions, DeletedClusters, DeletionArgsOK, BBInv, ArgsInv
<1> QED
  BY <1>1, <1>2, <1>3, <1>4

\* The statement generated from collected rows is a statement, has a row, and is as
\* long as its text says.
LEMMA GeneratedOK ==
    ASSUME NEW k \in Kinds, NEW a, NEW n, ArgsOK(k, a, n), n > 0,
           maxArgsInStatement \in Nat, Len(a) <= maxArgsInStatement + Width(k)
    PROVE  Generate(k, a, n) \in Statement /\ StatementOK(Generate(k, a, n))
<1> DEFINE s == Generate(k, a, n)
<1>1. n \in Nat \ {0} /\ a \in Seq(Value) /\ Len(a) = Lead(k) + n * Width(k) /\ Len(a) \in Nat
  BY DEF ArgsOK
<1>2. s.operation = k /\ s.rowsCount = n /\ s.args = a /\ s.columnsCount = Len(a) \div n
  BY DEF Generate
<1>3. Len(a) \div n \in Nat
  BY <1>1
<1>4. s \in Statement
  BY <1>1, <1>3 DEF Generate, Statement, Kinds
<1>5. k # "deleteCluster"
  BY DEF Kinds
<1>6. FitsLimit(s)
  BY <1>2 DEF FitsLimit
<1>7. CASE k = "delete"
  <2>1. Len(a) = n + 1
    BY <1>1, <1>7 DEF Lead, Width
  <2> QED
    BY <1>1, <1>2, <1>4, <1>6, <1>7, <2>1 DEF StatementOK
<1>8. CASE k # "delete"
  <2>1. Lead(k) = 0 /\ Width(k) \in Nat
    BY <1>8, WidthType DEF Lead
  <2>2. Len(a) = n * Width(k)
    BY <1>1, <2>1
  <2>3. Len(a) \div n = Width(k)
    BY <1>1, <2>1, <2>2, DivIsWidth
  <2> QED
    BY <1>1, <1>2, <1>4, <1>5, <1>6, <1>8, <2>2, <2>3 DEF StatementOK
<1> QED
  BY <1>7, <1>8

\* A statement that is queued keeps the others.
LEMMA QueuedOK ==
    ASSUME BBInv, NEW s \in Statement, StatementOK(s), batch' = Append(batch, s),
           maxArgsInStatement' = maxArgsInStatement
    PROVE  /\ batch' \in Seq(Statement)
           /\ \A i \in 1 .. Len(batch') : StatementOK(batch[i])'
           /\ batch' = batch \o <<s>>
<1>1. batch \in Seq(Statement) /\ \A i \in 1 .. Len(batch) : StatementOK(batch[i])
  BY DEF BBInv, BBTypes
<1>2. /\ batch' \in Seq(Statement) /\ Len(batch') = Len(batch) + 1 /\ Len(batch) \in Nat
      /\ \A i \in 1 .. Len(batch) : batch'[i] = batch[i]
      /\ batch'[Len(batch) + 1] = s
  BY <1>1, AppendProperties
<1>3. ASSUME NEW i \in 1 .. Len(batch') PROVE StatementOK(batch'[i])
  <2>1. CASE i \in 1 .. Len(batch)
    BY <1>1, <1>2, <2>1
  <2>2. CASE i = Len(batch) + 1
    BY <1>2, <2>2
  <2> QED
    BY <1>2, <2>1, <2>2
<1>4. ASSUME NEW i \in 1 .. Len(batch') PROVE StatementOK(batch[i])'
  BY <1>3 DEF StatementOK, FitsLimit
<1>5. batch' = batch \o <<s>>
  BY <1>1, AppendIsConcat
<1> QED
  BY <1>2, <1>4, <1>5

\* insert, update, delete and UpdateClusterCompliance, whether or not the row makes a
\* statement too long: its changes are collected, or queued with all others of its
\* kind, which nothing else that is collected depends on.
LEMMA AddKeepsInv ==
    ASSUME BBInv, NEW k \in Kinds, NEW row \in RowArgs(k), NEW clusters,
           Ask(k, clusters, StatementOf(k, {row})), Add(k, row),
           \A d \in Changes(k, {row}) : <<d.policy, d.cluster>> \in clusters
    PROVE  BBInv'
<1> DEFINE a == args[k] \o row
           n == rowsCount[k] + 1
           new == Changes(k, {row})
           queued == After(batch, table)
           others == (UNION {Collected(l) : l \in Kinds \ {k}}) \cup AllDeletions
<1>0. ~built /\ UNCHANGED <<maxArgsInStatement, operations, table, built>>
      /\ clusters \cap touched = {} /\ touched' = touched \cup clusters
  BY DEF Ask, rigidVars
<1>1. /\ ArgsOK(k, a, n)
      /\ ArgsRows(k, a, n) = ArgsRows(k, args[k], rowsCount[k]) \cup {row}
  <2>1. ArgsOK(k, args[k], rowsCount[k])
    BY DEF BBInv, ArgsInv
  <2> QED
    BY <2>1, RowAdded
<1>2. Changes(k, ArgsRows(k, a, n)) = Collected(k) \cup new
  BY <1>1, ChangesOfBoth DEF Collected
<1>3. \A d \in new : ChangeOK(d)
  BY ChangesType
<1>4. Apart(AllCollected, new)
  BY <1>0, NewIsApart
<1>5. asked' = Result(queued, AllCollected \cup new)
  <2>1. asked' = Execute(asked, StatementOf(k, {row})) /\ asked \in SUBSET Row
    BY <1>0, AskedType DEF Ask
  <2>2. asked' = Result(asked, new)
    BY <2>1, StatementResult
  <2> QED
    BY <1>0, <1>3, <1>4, <2>2, AskedGrows
<1>6. queued \in SUBSET Row /\ maxArgsInStatement \in Nat \ {0} /\ table \in SUBSET Row
      /\ batch \in Seq(Statement) /\ args \in [Kinds -> Seq(Value)] /\ rowsCount \in [Kinds -> Nat]
      /\ deleteClusterComplianceArgs \in [Policies -> Seq(Value)]
  BY DEF BBInv, BBTypes
<1>7. a \in Seq(Value) /\ n \in Nat \ {0} /\ Len(a) \in Nat
  BY <1>1, <1>6 DEF ArgsOK
<1>8. \A d \in AllCollected \cup new : ChangeOK(d)
  BY <1>3, CollectedType
<1>9. AllCollected = Collected(k) \cup others
  BY DEF AllCollected
<1>10. Apart(Collected(k) \cup new, others)
  <2>1. Apart(Collected(k), others)
    <3> SUFFICES ASSUME NEW d \in Collected(k), NEW e \in others PROVE ~SameCluster(d, e)
        BY DEF Apart
    <3>1. e \in AllDeletions \/ \E l \in Kinds \ {k} : e \in Collected(l)
      OBVIOUS
    <3> QED
      BY <3>1 DEF BBInv, ApartInv, Apart
  <2>2. Apart(new, others)
    BY <1>4, <1>9 DEF Apart, SameCluster
  <2> QED
    BY <2>1, <2>2 DEF Apart
<1>11. \A d \in AllCollected \cup new : <<d.policy, d.cluster>> \in touched'
  BY <1>0 DEF BBInv, ApartInv
<1>12. \A i \in 1 .. Len(batch) : StatementOK(batch[i])
  BY DEF BBInv
<1> HIDE DEF a, n, new, queued, others
<1>13. CASE Len(a) > maxArgsInStatement
  <2>1. /\ batch' = Append(batch, Generate(k, a, n))
        /\ args' = [args EXCEPT ![k] = NoArgs(k)]
        /\ rowsCount' = [rowsCount EXCEPT ![k] = 0]
        /\ UNCHANGED deleteClusterComplianceArgs
    BY <1>13 DEF Add, a, n
  <2>2. /\ \A l \in Kinds \ {k} : Collected(l)' = Collected(l) /\ args'[l] = args[l]
                                   /\ rowsCount'[l] = rowsCount[l]
        /\ AllDeletions' = AllDeletions
        /\ \A p \in Policies : DeletionArgsOK(p)'
        /\ args'[k] = NoArgs(k) /\ rowsCount'[k] = 0
        /\ Collected(k)' = Changes(k, ArgsRows(k, NoArgs(k), 0))
    BY <2>1, OthersKept
  <2>3. ArgsOK(k, NoArgs(k), 0) /\ Collected(k)' = {}
    <3>1. ArgsRows(k, NoArgs(k), 0) = {} /\ ArgsOK(k, NoArgs(k), 0)
      BY NoArgsOK
    <3>2. Changes(k, {}) = {}
      BY DEF Changes, Kinds, Operations
    <3> QED
      BY <2>2, <3>1, <3>2
  <2>4. Len(a) <= maxArgsInStatement + Width(k)
    <3>1. Len(args[k]) <= maxArgsInStatement /\ args[k] \in Seq(Value)
      BY DEF BBInv, ArgsInv, ArgsOK
    <3>2. row \in Seq(Value) /\ Len(row) = Width(k)
      BY RowIsSeq
    <3>3. Len(a) = Len(args[k]) + Len(row)
      BY <3>1, <3>2, ConcatProperties DEF a
    <3> QED
      BY <1>6, <3>1, <3>2, <3>3
  <2>5. Generate(k, a, n) \in Statement /\ StatementOK(Generate(k, a, n))
    BY <1>1, <1>6, <1>7, <2>4, GeneratedOK
  <2>6. /\ batch' \in Seq(Statement)
        /\ \A i \in 1 .. Len(batch') : StatementOK(batch[i])'
        /\ batch' = batch \o <<Generate(k, a, n)>>
    BY <1>0, <2>1, <2>5, QueuedOK
  <2>7. After(batch', table) = Result(queued, Collected(k) \cup new)
    <3>1. After(batch', table) = Execute(queued, Meaning(Generate(k, a, n)))
      BY <1>6, <2>5, <2>6, AfterAppend DEF queued
    <3>2. Meaning(Generate(k, a, n)) = StatementOf(k, ArgsRows(k, a, n))
      <4>1. n > 0
        BY <1>7
      <4> QED
        BY <1>1, <4>1, GeneratedMeaning
    <3>3. ArgsRows(k, a, n) \in SUBSET RowArgs(k)
      BY <1>1 DEF ArgsOK
    <3> QED
      BY <1>2, <1>6, <3>1, <3>2, <3>3, StatementResult
  <2>8. After(batch, table)' = After(batch', table)
    BY <1>0 DEF After, Meanings
  <2>9. AllCollected' = others
    BY <2>2, <2>3 DEF AllCollected, others
  <2>10. asked' = Result(After(batch', table), others)
    <3>1. AllCollected \cup new = (Collected(k) \cup new) \cup others
      BY <1>9
    <3>2. \A d \in (Collected(k) \cup new) \cup others : ChangeOK(d)
      BY <1>8, <3>1
    <3>3. ASSUME NEW S, NEW T, Apart(S, T), \A d \in S \cup T : ChangeOK(d)
          PROVE  Result(Result(queued, S), T) = Result(queued, S \cup T)
      <4>1. queued \in SUBSET Row
        BY <1>6
      <4>2. Apart(S, T) /\ \A d \in S \cup T : ChangeOK(d)
        BY <3>3
      <4>3. ASSUME NEW R \in SUBSET Row PROVE Result(Result(R, S), T) = Result(R, S \cup T)
        BY <4>2, ResultOfBoth
      <4> QED
        BY <4>1, <4>3
    <3> QED
      BY <1>5, <1>10, <2>7, <3>1, <3>2, <3>3
  <2>11. After(batch', table) \in SUBSET Row
    BY <1>6, <1>8, <1>9, <2>7, ResultType
  <2>12. BBTypes'
    BY <1>0, <1>6, <2>1, <2>3, <2>6, <2>8, <2>11 DEF BBTypes, ArgsOK, BBInv
  <2>13. ArgsInv'
    <3>1. Len(NoArgs(k)) <= maxArgsInStatement
      BY <1>6 DEF NoArgs
    <3>2. ASSUME NEW l \in Kinds PROVE ArgsOK(l, args'[l], rowsCount'[l]) /\ Len(args'[l]) <= maxArgsInStatement
      BY <2>2, <2>3, <3>1 DEF BBInv, ArgsInv
    <3> QED
      BY <1>0, <2>2, <3>2 DEF ArgsInv
  <2>14. ApartInv'
    <3>1. \A d \in AllCollected' : <<d.policy, d.cluster>> \in touched'
      BY <1>9, <1>11, <2>9
    <3>2. ASSUME NEW l \in Kinds, NEW m \in Kinds, l # m PROVE Apart(Collected(l)', Collected(m)')
      BY <2>2, <2>3, <3>2 DEF BBInv, ApartInv, Apart
    <3>3. ASSUME NEW l \in Kinds PROVE Apart(Collected(l)', AllDeletions')
      BY <2>2, <2>3 DEF BBInv, ApartInv, Apart
    <3> QED
      BY <3>1, <3>2, <3>3 DEF ApartInv, Apart
  <2> QED
    BY <1>0, <2>6, <2>8, <2>9, <2>10, <2>12, <2>13, <2>14 DEF BBInv
<1>14. CASE ~(Len(a) > maxArgsInStatement)
  <2>1. /\ batch' = batch
        /\ args' = [args EXCEPT ![k] = a]
        /\ rowsCount' = [rowsCount EXCEPT ![k] = n]
        /\ UNCHANGED deleteClusterComplianceArgs
    BY <1>14 DEF Add, a, n
  <2>2. /\ \A l \in Kinds \ {k} : Collected(l)' = Collected(l) /\ args'[l] = args[l]
                                   /\ rowsCount'[l] = rowsCount[l]
        /\ AllDeletions' = AllDeletions
        /\ \A p \in Policies : DeletionArgsOK(p)'
        /\ args'[k] = a /\ rowsCount'[k] = n
        /\ Collected(k)' = Changes(k, ArgsRows(k, a, n))
    BY <2>1, OthersKept
  <2>3. Collected(k)' = Collected(k) \cup new
    BY <1>2, <2>2
  <2>4. AllCollected' = AllCollected \cup new
    BY <1>9, <2>2, <2>3 DEF AllCollected, others
  <2>5. After(batch, table)' = queued
    BY <1>0, <2>1 DEF After, Meanings, queued
  <2>6. BBTypes'
    BY <1>0, <1>6, <1>7, <2>1, <2>5 DEF BBTypes, BBInv
  <2>7. ArgsInv'
    <3>1. Len(a) <= maxArgsInStatement
      BY <1>6, <1>7, <1>14
    <3>2. ASSUME NEW l \in Kinds PROVE ArgsOK(l, args'[l], rowsCount'[l]) /\ Len(args'[l]) <= maxArgsInStatement
      BY <1>1, <2>2, <3>1 DEF BBInv, ArgsInv
    <3> QED
      BY <1>0, <2>2, <3>2 DEF ArgsInv
  <2>8. ApartInv'
    <3>0. \A l \in Kinds \ {k} : Apart(Collected(k) \cup new, Collected(l)) /\ Apart(Collected(l), Collected(k) \cup new)
      BY <1>10 DEF Apart, SameCluster, others
    <3>1. \A d \in AllCollected' : <<d.policy, d.cluster>> \in touched'
      BY <1>11, <2>4
    <3>2. ASSUME NEW l \in Kinds, NEW m \in Kinds, l # m PROVE Apart(Collected(l)', Collected(m)')
      BY <2>2, <2>3, <3>0, <3>2 DEF BBInv, ApartInv
    <3>3. ASSUME NEW l \in Kinds PROVE Apart(Collected(l)', AllDeletions')
      <4>1. AllDeletions \subseteq others
        BY DEF others
      <4>2. Apart(Collected(k) \cup new, AllDeletions)
        BY <1>10, <4>1 DEF Apart
      <4> QED
        BY <2>2, <2>3, <4>2 DEF BBInv, ApartInv
    <3> QED
      BY <3>1, <3>2, <3>3 DEF ApartInv, Apart
  <2>9. \A i \in 1 .. Len(batch') : StatementOK(batch[i])'
    BY <1>0, <1>12, <2>1 DEF StatementOK, FitsLimit
  <2> QED
    BY <1>0, <1>5, <2>4, <2>5, <2>6, <2>7, <2>8, <2>9 DEF BBInv
<1> QED
  BY <1>13, <1>14

\* A cluster is added to those of its policy that are to be deleted.
LEMMA DeletionAdded ==
    ASSUME BBInv, NEW p \in Policies, NEW c \in Clusters,
           deleteClusterComplianceArgs' = [deleteClusterComplianceArgs EXCEPT ![p] =
               IF @ = <<>> THEN <<LeafHub, p, c>> ELSE Append(@, c)]
    PROVE  /\ deleteClusterComplianceArgs' \in [Policies -> Seq(Value)]
           /\ \A q \in Policies : DeletionArgsOK(q)'
           /\ AllDeletions' = AllDeletions \cup {Deleting(p, c)}
<1> DEFINE a == deleteClusterComplianceArgs[p]
           b == IF a = <<>> THEN <<LeafHub, p, c>> ELSE Append(a, c)
<1>1. /\ deleteClusterComplianceArgs \in [Policies -> Seq(Value)]
      /\ \A q \in Policies : DeletionArgsOK(q)
  BY DEF BBInv, BBTypes, ArgsInv
<1>2. LeafHub \in Value /\ p \in Value /\ c \in Value
  BY DEF Value
<1>3. /\ deleteClusterComplianceArgs'[p] = b
      /\ \A q \in Policies \ {p} : deleteClusterComplianceArgs'[q] = deleteClusterComplianceArgs[q]
  BY <1>1
<1>4. /\ b \in Seq(Value) /\ b # <<>> /\ Len(b) >= 3 /\ b[1] = LeafHub /\ b[2] = p
      /\ {b[i] : i \in 3 .. Len(b)} = DeletedClusters(p) \cup {c}
  <2>1. CASE a = <<>>
    <3>1. b = <<LeafHub, p, c>> /\ b \in Seq(Value) /\ Len(b) = 3 /\ b[1] = LeafHub /\ b[2] = p /\ b[3] = c
      BY <1>2, <2>1
    <3>2. DeletedClusters(p) = {}
      BY <2>1 DEF DeletedClusters
    <3>3. {b[i] : i \in 3 .. Len(b)} = DeletedClusters(p) \cup {c}
      BY <3>1, <3>2
    <3> QED
      BY <3>1, <3>3
  <2>2. CASE a # <<>>
    <3>1. /\ b \in Seq(Value) /\ Len(b) = Len(a) + 1 /\ Len(a) \in Nat
          /\ \A i \in 1 .. Len(a) : b[i] = a[i]
          /\ b[Len(a) + 1] = c
      BY <1>1, <1>2, <2>2, AppendProperties
    <3>2. Len(a) >= 3 /\ a[1] = LeafHub /\ a[2] = p /\ \A i \in 3 .. Len(a) : a[i] \in Clusters
      BY <1>1, <2>2 DEF DeletionArgsOK
    <3> HIDE DEF a, b
    <3>3. b # <<>> /\ Len(b) >= 3 /\ b[1] = LeafHub /\ b[2] = p
      BY <3>1, <3>2
    <3>4. 3 .. Len(b) = (3 .. Len(a)) \cup {Len(a) + 1}
      BY <3>1, <3>2
    <3>5. \A i \in 3 .. Len(a) : b[i] = a[i]
      BY <3>1, <3>2
    <3>6. {b[i] : i \in 3 .. Len(b)} = DeletedClusters(p) \cup {c}
      <4>1. {b[i] : i \in 3 .. Len(b)} = {b[i] : i \in 3 .. Len(a)} \cup {c}
        BY <3>1, <3>4
      <4> QED
        BY <3>5, <4>1 DEF DeletedClusters, a
    <3> QED
      BY <3>1, <3>3, <3>6
  <2> QED
    BY <2>1, <2>2
<1> HIDE DEF a, b
<1>5. deleteClusterComplianceArgs' \in [Policies -> Seq(Value)]
  BY <1>1, <1>4 DEF a, b
<1>6. DeletedClusters(p) \in SUBSET Clusters
  BY CollectedType
<1>7. \A i \in 3 .. Len(b) : b[i] \in Clusters
  BY <1>4, <1>6
<1>8. ASSUME NEW q \in Policies PROVE DeletionArgsOK(q)'
  <2>1. CASE q = p
    BY <1>3, <1>4, <1>7, <2>1 DEF DeletionArgsOK
  <2>2. CASE q # p
    BY <1>1, <1>3, <2>2 DEF DeletionArgsOK
  <2> QED
    BY <2>1, <2>2
<1>9. Deletions(p)' = Deletions(p) \cup {Deleting(p, c)}
  <2>1. DeletedClusters(p)' = DeletedClusters(p) \cup {c}
    BY <1>3, <1>4 DEF DeletedClusters
  <2> QED
    BY <2>1 DEF Deletions
<1>10. \A q \in Policies \ {p} : Deletions(q)' = Deletions(q)
  BY <1>3 DEF Deletions, DeletedClusters
<1>11. AllDeletions' = AllDeletions \cup {Deleting(p, c)}
  BY <1>9, <1>10 DEF AllDeletions
<1> QED
  BY <1>5, <1>8, <1>11

LEMMA DeleteClusterKeepsInv ==
    ASSUME BBInv, NEW p \in Policies, NEW c \in Clusters, DeleteClusterStatus(p, c)
    PROVE  BBInv'
<1> DEFINE new == {Deleting(p, c)}
           old == {[leafHub |-> LeafHub, policy |-> p, cluster |-> x] : x \in {c}}
           queued == After(batch, table)
<1>0. /\ ~built /\ UNCHANGED <<maxArgsInStatement, operations, table, built, args, rowsCount, batch>>
      /\ {<<p, c>>} \cap touched = {} /\ touched' = touched \cup {<<p, c>>}
      /\ asked' = Execute(asked, DeleteRows({"leafHub", "policy", "cluster"}, old))
  <2>1. old = {[leafHub |-> LeafHub, policy |-> p, cluster |-> c]}
    OBVIOUS
  <2> HIDE DEF old
  <2> QED
    BY <2>1 DEF DeleteClusterStatus, Ask, rigidVars
<1>1. /\ deleteClusterComplianceArgs' \in [Policies -> Seq(Value)]
      /\ \A q \in Policies : DeletionArgsOK(q)'
      /\ AllDeletions' = AllDeletions \cup new
  BY DeletionAdded DEF DeleteClusterStatus
<1>2. \A d \in new : ChangeOK(d) /\ d.policy = p /\ d.cluster = c
  BY DEF Deleting, ChangeOK
<1>3. Apart(AllCollected, new)
  BY <1>0, <1>2, NewIsApart
<1>4. asked' = Result(queued, AllCollected \cup new)
  <2>1. asked \in SUBSET Row
    BY <1>0, AskedType
  <2>2. {Deleting(p, x) : x \in {c}} = new
    OBVIOUS
  <2>3. asked' = Result(asked, new)
    BY <1>0, <2>1, <2>2, DeleteClustersResult
  <2> QED
    BY <1>0, <1>2, <1>3, <2>3, AskedGrows
<1>5. \A k \in Kinds : Collected(k)' = Collected(k)
  BY <1>0 DEF Collected
<1> HIDE DEF new
<1>6. AllCollected' = AllCollected \cup new
  BY <1>1, <1>5 DEF AllCollected
<1>7. After(batch, table)' = queued
  BY <1>0 DEF After, Meanings
<1>8. BBTypes'
  BY <1>0, <1>1, <1>7 DEF BBTypes, BBInv
<1>9. ArgsInv'
  BY <1>0, <1>1 DEF ArgsInv, BBInv
<1>10. ApartInv'
  <2>1. \A d \in AllCollected' : <<d.policy, d.cluster>> \in touched'
    BY <1>0, <1>2, <1>6 DEF BBInv, ApartInv
  <2>2. ASSUME NEW k \in Kinds PROVE Apart(Collected(k)', AllDeletions')
    <3>1. Apart(Collected(k), new)
      BY <1>3 DEF Apart, AllCollected
    <3>2. Apart(Collected(k), AllDeletions)
      BY DEF BBInv, ApartInv
    <3> QED
      BY <1>1, <1>5, <3>1, <3>2 DEF Apart
  <2>3. ASSUME NEW k \in Kinds, NEW l \in Kinds, k # l PROVE Apart(Collected(k)', Collected(l)')
    BY <1>5, <2>3 DEF BBInv, ApartInv
  <2> QED
    BY <2>1, <2>2, <2>3 DEF ApartInv, Apart
<1>11. \A i \in 1 .. Len(batch') : StatementOK(batch[i])'
  BY <1>0 DEF BBInv, StatementOK, FitsLimit
<1> QED
  BY <1>0, <1>4, <1>6, <1>7, <1>8, <1>9, <1>10, <1>11 DEF BBInv

-----------------------------------------------------------------------------
(***************************************************************************)
(* Build.                                                                  *)
(***************************************************************************)

\* What is left over of a kind is queued, if there is anything.
LEMMA RemainingQueued ==
    ASSUME BBInv, NEW k \in Kinds, NEW b \in Seq(Statement), After(b, table) \in SUBSET Row,
           \A i \in 1 .. Len(b) : StatementOK(b[i])
    PROVE  /\ b \o Remaining(k) \in Seq(Statement)
           /\ After(b \o Remaining(k), table) = Result(After(b, table), Collected(k))
           /\ After(b \o Remaining(k), table) \in SUBSET Row
           /\ \A i \in 1 .. Len(b \o Remaining(k)) : StatementOK((b \o Remaining(k))[i])
<1> DEFINE a == args[k]
           n == rowsCount[k]
           s == Generate(k, a, n)
           c == b \o <<s>>
<1>1. ArgsOK(k, a, n) /\ n \in Nat /\ maxArgsInStatement \in Nat /\ Len(a) <= maxArgsInStatement
  BY DEF BBInv, BBTypes, ArgsInv
<1>2. CASE n = 0
  <2>1. b \o Remaining(k) = b
    BY <1>2, ConcatEmptySeq DEF Remaining
  <2>2. Collected(k) = {}
    <3>1. ArgsRows(k, a, n) = {}
      BY <1>2 DEF ArgsRows
    <3> QED
      BY <3>1 DEF Collected, Changes, Kinds, Operations
  <2>3. Result(After(b, table), Collected(k)) = After(b, table)
    BY <2>2 DEF Result
  <2> QED
    BY <2>1, <2>3
<1>3. CASE n # 0
  <2>1. n > 0 /\ Remaining(k) = <<s>>
    BY <1>1, <1>3 DEF Remaining
  <2>2. Len(a) <= maxArgsInStatement + Width(k)
    BY <1>1, WidthType DEF ArgsOK
  <2>3. s \in Statement /\ StatementOK(s)
    BY <1>1, <2>1, <2>2, GeneratedOK
  <2> HIDE DEF s, a, n
  <2>4. c \in Seq(Statement) /\ After(c, table) = Execute(After(b, table), Meaning(s))
    BY <2>3, AfterAppend
  <2>5. Meaning(s) = StatementOf(k, ArgsRows(k, a, n)) /\ ArgsRows(k, a, n) \in SUBSET RowArgs(k)
    BY <1>1, <2>1, GeneratedMeaning DEF s, ArgsOK
  <2>6. Execute(After(b, table), StatementOf(k, ArgsRows(k, a, n))) = Result(After(b, table), Collected(k))
    <3>1. ASSUME NEW R \in SUBSET Row
          PROVE  Execute(R, StatementOf(k, ArgsRows(k, a, n))) = Result(R, Changes(k, ArgsRows(k, a, n)))
      BY <2>5, StatementResult
    <3> QED
      BY <3>1 DEF Collected, a, n
  <2>7. Result(After(b, table), Collected(k)) \in SUBSET Row
    BY CollectedType, ResultType
  <2>8. ASSUME NEW i \in 1 .. Len(c) PROVE StatementOK(c[i])
    <3>1. /\ Len(c) = Len(b) + 1 /\ Len(b) \in Nat
          /\ \A j \in 1 .. Len(b) : c[j] = b[j]
          /\ c[Len(b) + 1] = s
      BY <2>3, AppendIsConcat, AppendProperties
    <3>2. i \in 1 .. Len(b) \/ i = Len(b) + 1
      BY <3>1
    <3> QED
      BY <2>3, <3>1, <3>2
  <2> QED
    BY <2>1, <2>4, <2>5, <2>6, <2>7, <2>8
<1> QED
  BY <1>2, <1>3

\* The statement that deletes clusters of policy p.
DeletionOf(p) ==
    [operation |-> "deleteCluster", rowsCount |-> Len(deleteClusterComplianceArgs[p]) - 2,
     columnsCount |-> 1, args |-> deleteClusterComplianceArgs[p]]

LEMMA DeletionStatement ==
    ASSUME BBInv, NEW p \in Policies, deleteClusterComplianceArgs[p] # <<>>
    PROVE  /\ DeletionOf(p) \in Statement
           /\ StatementOK(DeletionOf(p))
           /\ \A R \in SUBSET Row : Execute(R, Meaning(DeletionOf(p))) = Result(R, Deletions(p))
<1> DEFINE a == deleteClusterComplianceArgs[p]
           s == DeletionOf(p)
<1>1. a \in Seq(Value) /\ Len(a) \in Nat /\ Len(a) >= 3 /\ a[1] = LeafHub /\ a[2] = p
  BY DEF BBInv, BBTypes, ArgsInv, DeletionArgsOK
<1>2. s.operation = "deleteCluster" /\ s.rowsCount = Len(a) - 2 /\ s.columnsCount = 1 /\ s.args = a
  BY DEF DeletionOf
<1>3. Len(a) - 2 \in Nat /\ Len(a) - 2 > 0 /\ Len(a) = (Len(a) - 2) + 2
  BY <1>1
<1>4. s \in Statement
  BY <1>1, <1>3 DEF DeletionOf, Statement, Operations
<1> HIDE DEF s, a
<1>5. StatementOK(s)
  BY <1>2, <1>3 DEF StatementOK
<1>6. ArgsList(s, 3) = DeletedClusters(p)
  <2>1. ArgsList(s, 3) = {a[3 + i] : i \in 0 .. (Len(a) - 2) - 1}
    BY <1>2 DEF ArgsList
  <2>2. DeletedClusters(p) = {a[i] : i \in 3 .. Len(a)}
    BY DEF DeletedClusters, a
  <2>3. ASSUME NEW i \in 0 .. (Len(a) - 2) - 1 PROVE 3 + i \in 3 .. Len(a)
    BY <1>1
  <2>4. ASSUME NEW i \in 3 .. Len(a) PROVE i - 3 \in 0 .. (Len(a) - 2) - 1 /\ 3 + (i - 3) = i
    BY <1>1
  <2> QED
    BY <2>1, <2>2, <2>3, <2>4
<1>7. Meaning(s) = DeleteRows({"leafHub", "policy", "cluster"},
                              {[leafHub |-> LeafHub, policy |-> p, cluster |-> c] : c \in DeletedClusters(p)})
  BY <1>1, <1>2, <1>6 DEF Meaning
<1>8. DeletedClusters(p) \in SUBSET Clusters
  BY CollectedType
<1>9. ASSUME NEW R \in SUBSET Row PROVE Execute(R, Meaning(s)) = Result(R, Deletions(p))
  BY <1>7, <1>8, DeleteClustersResult DEF Deletions
<1> QED
  BY <1>4, <1>5, <1>9 DEF s

\* Deletions of different policies are apart, so that the order of the map does not
\* matter.
LEMMA DeletionsQueued ==
    ASSUME BBInv, NEW b \in Seq(Statement), After(b, table) \in SUBSET Row, NEW m \in Nat,
           NEW o \in [1 .. m -> {p \in Policies : deleteClusterComplianceArgs[p] # <<>>}],
           \A i, j \in 1 .. m : i # j => o[i] # o[j],
           \A i \in 1 .. Len(b) : StatementOK(b[i])
    PROVE  LET c == b \o ClusterDeletions(o)
           IN  /\ c \in Seq(Statement)
               /\ After(c, table) = Result(After(b, table), UNION {Deletions(o[i]) : i \in 1 .. m})
               /\ \A i \in 1 .. Len(c) : StatementOK(c[i])
<1> DEFINE t == ClusterDeletions(o)
           c == b \o t
           R == After(b, table)
           D(n) == UNION {Deletions(o[i]) : i \in 1 .. n}
           F(n) == ExecuteFirst(n, Meanings(c), table)
           S == {n \in Nat : n <= m => F(Len(b) + n) = Result(R, D(n))}
<1>1. ASSUME NEW i \in 1 .. m
      PROVE  /\ o[i] \in Policies
             /\ DeletionOf(o[i]) \in Statement
             /\ StatementOK(DeletionOf(o[i]))
             /\ \A Q \in SUBSET Row : Execute(Q, Meaning(DeletionOf(o[i]))) = Result(Q, Deletions(o[i]))
  BY DeletionStatement
<1>2. t \in Seq(Statement) /\ Len(t) = m /\ \A i \in 1 .. m : t[i] = DeletionOf(o[i])
  <2>1. t = [i \in 1 .. m |-> DeletionOf(o[i])]
    BY DEF ClusterDeletions, DeletionOf
  <2> QED
    BY <1>1, <2>1
<1> HIDE DEF t
<1>3. /\ c \in Seq(Statement) /\ Len(b) \in Nat /\ Len(c) = Len(b) + m
      /\ \A i \in 1 .. Len(b) : c[i] = b[i]
      /\ \A i \in 1 .. m : c[Len(b) + i] = DeletionOf(o[i])
  <2>1. /\ c \in Seq(Statement) /\ Len(c) = Len(b) + Len(t) /\ Len(b) \in Nat
        /\ \A i \in 1 .. Len(b) + Len(t) : c[i] = IF i <= Len(b) THEN b[i] ELSE t[i - Len(b)]
    BY <1>2, ConcatProperties
  <2>2. ASSUME NEW i \in 1 .. m PROVE c[Len(b) + i] = t[i]
    <3>1. /\ Len(b) + i \in 1 .. Len(b) + Len(t) /\ ~(Len(b) + i <= Len(b))
          /\ (Len(b) + i) - Len(b) = i
      BY <1>2, <2>1
    <3> QED
      BY <2>1, <3>1
  <2>3. ASSUME NEW i \in 1 .. Len(b) PROVE c[i] = b[i]
    <3>1. i \in 1 .. Len(b) + Len(t) /\ i <= Len(b)
      BY <1>2, <2>1
    <3> QED
      BY <2>1, <3>1
  <2> QED
    BY <1>2, <2>1, <2>2, <2>3
<1> HIDE DEF c
<1>4. /\ Len(Meanings(c)) = Len(c)
      /\ \A i \in 1 .. m : Meanings(c)[Len(b) + i] = Meaning(DeletionOf(o[i]))
  BY <1>3, MeaningsType
<1>5. \A n \in 1 .. Len(c) : F(n) = Execute(F(n - 1), Meanings(c)[n])
  <2>1. ASSUME NEW B, NEW T, Len(B) \in Nat, NEW n \in 1 .. Len(B)
        PROVE  ExecuteFirst(n, B, T) = Execute(ExecuteFirst(n - 1, B, T), B[n])
    BY <2>1, ExecuteFirstStep
  <2>2. Len(Meanings(c)) \in Nat
    BY <1>3, <1>4
  <2> QED
    BY <1>4, <2>1, <2>2
<1>6. F(Len(b)) = R
  <2>1. Len(b) <= Len(c)
    BY <1>3
  <2>2. ASSUME NEW T PROVE ExecuteFirst(Len(b), Meanings(c), T) = After(b, T)
    BY <1>3, <2>1, SamePrefix
  <2> QED
    BY <2>2
<1>7. \A i \in 1 .. m : \A d \in Deletions(o[i]) : ChangeOK(d) /\ d.policy = o[i]
  <2>1. \A d \in AllDeletions : ChangeOK(d)
    BY CollectedType
  <2>2. \A i \in 1 .. m : Deletions(o[i]) \subseteq AllDeletions
    BY <1>1 DEF AllDeletions
  <2>3. \A i \in 1 .. m : \A d \in Deletions(o[i]) : d.policy = o[i]
    BY DEF Deletions, Deleting
  <2> QED
    BY <2>1, <2>2, <2>3
<1> HIDE DEF F, R
<1>8. 0 \in S
  <2>1. D(0) = {}
    OBVIOUS
  <2>2. Result(R, {}) = R
    BY DEF Result
  <2>3. Len(b) + 0 = Len(b)
    BY <1>3
  <2> QED
    BY <1>6, <2>1, <2>2, <2>3
<1>9. ASSUME NEW n \in Nat, n \in S PROVE n + 1 \in S
  <2> SUFFICES ASSUME n + 1 <= m PROVE F(Len(b) + (n + 1)) = Result(R, D(n + 1))
      OBVIOUS
  <2>1. /\ n + 1 \in 1 .. m /\ n <= m
        /\ Len(b) + (n + 1) \in 1 .. Len(c) /\ (Len(b) + (n + 1)) - 1 = Len(b) + n
    BY <1>3
  <2>2. F(Len(b) + n) = Result(R, D(n))
    BY <1>9, <2>1
  <2>3. 1 .. n + 1 = (1 .. n) \cup {n + 1} /\ 1 .. n \subseteq 1 .. m /\ n + 1 \notin 1 .. n
    BY <2>1
  <2>4. D(n + 1) = D(n) \cup Deletions(o[n + 1])
    BY <2>3
  <2>5. \A d \in D(n) : ChangeOK(d) /\ d.policy # o[n + 1]
    <3>1. \A i \in 1 .. n : o[i] # o[n + 1]
      BY <2>1, <2>3
    <3> QED
      BY <1>7, <2>3, <3>1
  <2>6. \A d \in Deletions(o[n + 1]) : ChangeOK(d) /\ d.policy = o[n + 1]
    BY <1>7, <2>1
  <2> HIDE DEF D
  <2>7. Apart(D(n), Deletions(o[n + 1])) /\ \A d \in D(n) \cup Deletions(o[n + 1]) : ChangeOK(d)
    BY <2>5, <2>6 DEF Apart, SameCluster
  <2>8. ASSUME NEW Q \in SUBSET Row
        PROVE  Result(Result(Q, D(n)), Deletions(o[n + 1])) = Result(Q, D(n) \cup Deletions(o[n + 1]))
    BY <2>7, ResultOfBoth
  <2>9. R \in SUBSET Row
    BY DEF R
  <2>10. Result(R, D(n)) \in SUBSET Row
    <3>1. ASSUME NEW Q \in SUBSET Row PROVE Result(Q, D(n)) \in SUBSET Row
      BY <2>5, ResultType
    <3> QED
      BY <2>9, <3>1
  <2>11. F(Len(b) + (n + 1)) = Execute(Result(R, D(n)), Meaning(DeletionOf(o[n + 1])))
    BY <1>4, <1>5, <2>1, <2>2
  <2>12. F(Len(b) + (n + 1)) = Result(Result(R, D(n)), Deletions(o[n + 1]))
    BY <1>1, <2>1, <2>10, <2>11
  <2> QED
    BY <2>4, <2>8, <2>9, <2>12
<1>10. Nat \subseteq S
  <2> HIDE DEF S
  <2> QED
    BY <1>8, <1>9, SetInduction
<1>11. F(Len(c)) = Result(R, D(m))
  <2>1. m \in S
    BY <1>10
  <2> QED
    BY <1>3, <2>1
<1>12. ASSUME NEW i \in 1 .. Len(c) PROVE StatementOK(c[i])
  <2>1. CASE i \in 1 .. Len(b)
    BY <1>3, <2>1
  <2>2. CASE i \notin 1 .. Len(b)
    <3>1. i - Len(b) \in 1 .. m /\ Len(b) + (i - Len(b)) = i
      BY <1>3, <2>2
    <3>2. c[i] = DeletionOf(o[i - Len(b)])
      BY <1>3, <3>1
    <3> QED
      BY <1>1, <3>1, <3>2
  <2> QED
    BY <2>1, <2>2
<1> QED
  BY <1>3, <1>11, <1>12 DEF After, F, R, c, t

\* An order of the map names every policy that has clusters to delete.
LEMMA OrderIsOnto ==
    ASSUME NEW S, IsFiniteSet(S), NEW o \in SetToSeqs(S)
    PROVE  /\ Cardinality(S) \in Nat
           /\ o \in [1 .. Cardinality(S) -> S]
           /\ \A i, j \in 1 .. Cardinality(S) : i # j => o[i] # o[j]
           /\ \A p \in S : \E i \in 1 .. Cardinality(S) : o[i] = p
<1> DEFINE m == Cardinality(S)
<1>1. m \in Nat
  BY FS_CardinalityType
<1>2. o \in [1 .. m -> S] /\ \A i, j \in 1 .. m : i # j => o[i] # o[j]
  BY DEF SetToSeqs
<1>3. o \in Injection(1 .. m, S)
  BY <1>2 DEF Injection, IsInjective
<1>4. Cardinality(1 .. m) = m
  BY <1>1, FS_Interval
<1>5. o \in Surjection(1 .. m, S)
  BY <1>3, <1>4, FS_Injection
<1> QED
  BY <1>1, <1>2, <1>5 DEF Surjection

\* Build queues all that is left over, kind by kind and policy by policy: what was
\* asked for is then what the batch does.
LEMMA BuildKeepsInv ==
    ASSUME BBInv, BuildBatch
    PROVE  BBInv'
<1> DEFINE P(k) == Collected(k)
           R == After(batch, table)
           b1 == batch \o Remaining("insert")
           b2 == b1 \o Remaining("updatePolicy")
           b3 == b2 \o Remaining("delete")
           b4 == b3 \o Remaining("updateCluster")
           S == {p \in Policies : deleteClusterComplianceArgs[p] # <<>>}
           m == Cardinality(S)
           K == ((P("insert") \cup P("updatePolicy")) \cup P("delete")) \cup P("updateCluster")
<1>0. /\ ~built /\ built' /\ built' \in BOOLEAN
      /\ UNCHANGED <<maxArgsInStatement, operations, table, args, rowsCount,
                     deleteClusterComplianceArgs, touched, asked>>
  BY DEF BuildBatch, rigidVars
<1>1. PICK o \in SetToSeqs(S) : batch' = b4 \o ClusterDeletions(o)
  BY DEF BuildBatch
<1>2. /\ m \in Nat
      /\ o \in [1 .. m -> S]
      /\ \A i, j \in 1 .. m : i # j => o[i] # o[j]
      /\ \A p \in S : \E i \in 1 .. m : o[i] = p
  <2>1. IsFiniteSet(S)
    BY BuilderAssumption, FS_Subset
  <2> HIDE DEF S
  <2> QED
    BY <2>1, OrderIsOnto
<1>3. "insert" \in Kinds /\ "updatePolicy" \in Kinds /\ "delete" \in Kinds /\ "updateCluster" \in Kinds
      /\ Kinds = {"insert", "updatePolicy", "delete", "updateCluster"}
  BY DEF Kinds, Operations
<1>4. /\ batch \in Seq(Statement) /\ R \in SUBSET Row
      /\ \A i \in 1 .. Len(batch) : StatementOK(batch[i])
  BY DEF BBInv, BBTypes
<1>5. /\ b1 \in Seq(Statement) /\ After(b1, table) = Result(R, P("insert"))
      /\ After(b1, table) \in SUBSET Row
      /\ \A i \in 1 .. Len(b1) : StatementOK(b1[i])
  BY <1>3, <1>4, RemainingQueued
<1> HIDE DEF b1
<1>6. /\ b2 \in Seq(Statement) /\ After(b2, table) = Result(After(b1, table), P("updatePolicy"))
      /\ After(b2, table) \in SUBSET Row
      /\ \A i \in 1 .. Len(b2) : StatementOK(b2[i])
  BY <1>3, <1>5, RemainingQueued
<1> HIDE DEF b2
<1>7. /\ b3 \in Seq(Statement) /\ After(b3, table) = Result(After(b2, table), P("delete"))
      /\ After(b3, table) \in SUBSET Row
      /\ \A i \in 1 .. Len(b3) : StatementOK(b3[i])
  BY <1>3, <1>6, RemainingQueued
<1> HIDE DEF b3
<1>8. /\ b4 \in Seq(Statement) /\ After(b4, table) = Result(After(b3, table), P("updateCluster"))
      /\ After(b4, table) \in SUBSET Row
      /\ \A i \in 1 .. Len(b4) : StatementOK(b4[i])
  BY <1>3, <1>7, RemainingQueued
<1> HIDE DEF b4, R, S, m
<1>9. \A k, l \in Kinds : k # l => Apart(P(k), P(l))
  BY DEF BBInv, ApartInv
<1>10. \A k \in Kinds : \A d \in P(k) : ChangeOK(d)
  BY CollectedType
<1>11. \A k \in Kinds : Apart(P(k), AllDeletions)
  BY DEF BBInv, ApartInv
<1>12. \A d \in AllDeletions : ChangeOK(d)
  BY CollectedType
<1>13. ASSUME NEW Q \in SUBSET Row, NEW X, NEW Y, Apart(X, Y), \A d \in X \cup Y : ChangeOK(d)
       PROVE  Result(Result(Q, X), Y) = Result(Q, X \cup Y)
  BY <1>13, ResultOfBoth
<1> HIDE DEF P
<1>14. After(b4, table) = Result(R, K)
  <2> DEFINE X2 == P("insert") \cup P("updatePolicy")
             X3 == X2 \cup P("delete")
  <2>1. After(b2, table) = Result(R, X2)
    <3>1. Apart(P("insert"), P("updatePolicy")) /\ \A d \in X2 : ChangeOK(d)
      BY <1>3, <1>9, <1>10
    <3> QED
      BY <1>4, <1>5, <1>6, <1>13, <3>1
  <2>2. After(b3, table) = Result(R, X3)
    <3>1. Apart(X2, P("delete")) /\ \A d \in X3 : ChangeOK(d)
      BY <1>3, <1>9, <1>10 DEF Apart
    <3> HIDE DEF X2
    <3> QED
      BY <1>4, <1>7, <1>13, <2>1, <3>1
  <2>3. Apart(X3, P("updateCluster")) /\ \A d \in X3 \cup P("updateCluster") : ChangeOK(d)
    BY <1>3, <1>9, <1>10 DEF Apart
  <2>4. K = X3 \cup P("updateCluster")
    OBVIOUS
  <2> HIDE DEF X2, X3, K
  <2> QED
    BY <1>4, <1>8, <1>13, <2>2, <2>3, <2>4
<1>15. AllCollected = K \cup AllDeletions
  BY <1>3 DEF AllCollected, P
<1>16. Apart(K, AllDeletions) /\ \A d \in K \cup AllDeletions : ChangeOK(d)
  BY <1>3, <1>10, <1>11, <1>12 DEF Apart
<1> HIDE DEF K
<1>17. UNION {Deletions(o[i]) : i \in 1 .. m} = AllDeletions
  <2>1. \A p \in Policies \ S : Deletions(p) = {}
    BY DEF Deletions, DeletedClusters, S
  <2>2. S \subseteq Policies
    BY DEF S
  <2> QED
    BY <1>2, <2>1, <2>2 DEF AllDeletions
<1>18. /\ batch' \in Seq(Statement)
       /\ After(batch', table) = Result(After(b4, table), AllDeletions)
       /\ \A i \in 1 .. Len(batch') : StatementOK(batch'[i])
  <2>1. ASSUME NEW b \in Seq(Statement), After(b, table) \in SUBSET Row,
               \A i \in 1 .. Len(b) : StatementOK(b[i])
        PROVE  LET c == b \o ClusterDeletions(o)
               IN  /\ c \in Seq(Statement)
                   /\ After(c, table) = Result(After(b, table), UNION {Deletions(o[i]) : i \in 1 .. m})
                   /\ \A i \in 1 .. Len(c) : StatementOK(c[i])
    BY <1>2, <2>1, DeletionsQueued DEF S
  <2> QED
    BY <1>1, <1>8, <1>17, <2>1
<1>19. asked = After(batch', table) /\ After(batch', table) \in SUBSET Row
  <2>1. asked = Result(R, AllCollected)
    BY <1>0 DEF BBInv, R
  <2>2. asked \in SUBSET Row
    BY <1>0, AskedType
  <2> QED
    BY <1>4, <1>13, <1>14, <1>15, <1>16, <1>18, <2>1, <2>2
<1>20. After(batch, table)' = After(batch', table)
  BY <1>0 DEF After, Meanings
<1>21. BBTypes'
  BY <1>0, <1>18, <1>19, <1>20 DEF BBTypes, BBInv
<1>22. ArgsInv'
  BY <1>0 DEF ArgsInv, BBInv, DeletionArgsOK
<1>23. ApartInv'
  <2>1. \A k \in Kinds : Collected(k)' = Collected(k)
    BY <1>0 DEF Collected
  <2>2. AllDeletions' = AllDeletions
    BY <1>0 DEF AllDeletions, Deletions, DeletedClusters
  <2>3. AllCollected' = AllCollected
    BY <2>1, <2>2 DEF AllCollected
  <2> QED
    BY <1>0, <2>1, <2>2, <2>3 DEF ApartInv, BBInv, Apart
<1>24. \A i \in 1 .. Len(batch') : StatementOK(batch[i])'
  BY <1>0, <1>18 DEF StatementOK, FitsLimit
<1> QED
  BY <1>0, <1>19, <1>20, <1>21, <1>22, <1>23, <1>24 DEF BBInv

-----------------------------------------------------------------------------
(***************************************************************************)
(* The calls of the handlers are statements with one row.                  *)
(***************************************************************************)
LEMMA InsertKeepsInv ==
    ASSUME BBInv, NEW p \in Policies, NEW c \in Clusters, NEW x \in Compliance, Insert(p, c, x)
    PROVE  BBInv'
<1> DEFINE row == <<p, c, LeafHub, ErrorNone, x>>
<1>1. "insert" \in Kinds /\ row \in RowArgs("insert")
  BY DEF Kinds, Operations, RowArgs
<1>2. row[1] = p /\ row[2] = c /\ row[3] = LeafHub /\ row[5] = x
  OBVIOUS
<1>3. /\ Ask("insert", {<<p, c>>}, InsertRows({[leafHub |-> LeafHub, policy |-> p, cluster |-> c,
                                                compliance |-> x]}))
      /\ Add("insert", row)
  BY DEF Insert
<1> HIDE DEF row
<1>4. StatementOf("insert", {row}) =
          InsertRows({[leafHub |-> LeafHub, policy |-> p, cluster |-> c, compliance |-> x]})
  <2>1. {[policy |-> v[1], cluster |-> v[2], leafHub |-> v[3], compliance |-> v[5]] : v \in {row}}
        = {[leafHub |-> LeafHub, policy |-> p, cluster |-> c, compliance |-> x]}
    BY <1>2
  <2> QED
    BY <2>1 DEF StatementOf
<1>5. \A d \in Changes("insert", {row}) : <<d.policy, d.cluster>> \in {<<p, c>>}
  BY <1>2 DEF Changes, Inserting
<1> QED
  BY <1>1, <1>3, <1>4, <1>5, AddKeepsInv

LEMMA UpdateClusterKeepsInv ==
    ASSUME BBInv, NEW p \in Policies, NEW c \in Clusters, NEW x \in Compliance,
           UpdateClusterCompliance(p, c, x)
    PROVE  BBInv'
<1> DEFINE row == <<p, c, LeafHub, x>>
           key == {"leafHub", "policy", "cluster"}
           new == {[leafHub |-> LeafHub, policy |-> p, cluster |-> c, compliance |-> x]}
<1>1. "updateCluster" \in Kinds /\ row \in RowArgs("updateCluster")
  BY DEF Kinds, Operations, RowArgs
<1>2. row[1] = p /\ row[2] = c /\ row[3] = LeafHub /\ row[4] = x
  OBVIOUS
<1>3. Ask("updateCluster", {<<p, c>>}, UpdateRows("compliance", key, new)) /\ Add("updateCluster", row)
  BY DEF UpdateClusterCompliance
<1> HIDE DEF row
<1>4. StatementOf("updateCluster", {row}) = UpdateRows("compliance", key, new)
  <2>1. {[policy |-> v[1], cluster |-> v[2], leafHub |-> v[3], compliance |-> v[4]] : v \in {row}} = new
    BY <1>2
  <2> QED
    BY <2>1 DEF StatementOf
<1>5. \A d \in Changes("updateCluster", {row}) : <<d.policy, d.cluster>> \in {<<p, c>>}
  BY <1>2 DEF Changes, Updating
<1> QED
  BY <1>1, <1>3, <1>4, <1>5, AddKeepsInv

LEMMA UpdatePolicyKeepsInv ==
    ASSUME BBInv, NEW p \in Policies, NEW x \in Compliance, UpdatePolicyCompliance(p, x)
    PROVE  BBInv'
<1> DEFINE row == <<p, LeafHub, x>>
           key == {"leafHub", "policy"}
           new == {[leafHub |-> LeafHub, policy |-> p, compliance |-> x]}
<1>1. "updatePolicy" \in Kinds /\ row \in RowArgs("updatePolicy")
  BY DEF Kinds, Operations, RowArgs
<1>2. row[1] = p /\ row[2] = LeafHub /\ row[3] = x
  OBVIOUS
<1>3. Ask("updatePolicy", ClustersOf(p), UpdateRows("compliance", key, new)) /\ Add("updatePolicy", row)
  BY DEF UpdatePolicyCompliance
<1> HIDE DEF row
<1>4. StatementOf("updatePolicy", {row}) = UpdateRows("compliance", key, new)
  <2>1. {[policy |-> v[1], leafHub |-> v[2], compliance |-> v[3]] : v \in {row}} = new
    BY <1>2
  <2> QED
    BY <2>1 DEF StatementOf
<1>5. \A d \in Changes("updatePolicy", {row}) : <<d.policy, d.cluster>> \in ClustersOf(p)
  BY <1>2 DEF Changes, Updating, ClustersOf
<1> QED
  BY <1>1, <1>3, <1>4, <1>5, AddKeepsInv

LEMMA DeletePolicyKeepsInv ==
    ASSUME BBInv, NEW p \in Policies, DeletePolicy(p)
    PROVE  BBInv'
<1> DEFINE row == <<p>>
           key == {"leafHub", "policy"}
           old == {[leafHub |-> LeafHub, policy |-> p]}
<1>1. "delete" \in Kinds /\ row \in RowArgs("delete")
  BY DEF Kinds, Operations, RowArgs
<1>2. row[1] = p
  OBVIOUS
<1>3. Ask("delete", ClustersOf(p), DeleteRows(key, old)) /\ Add("delete", row)
  BY DEF DeletePolicy
<1> HIDE DEF row
<1>4. StatementOf("delete", {row}) = DeleteRows(key, old)
  <2>1. {[leafHub |-> LeafHub, policy |-> v[1]] : v \in {row}} = old
    BY <1>2
  <2> QED
    BY <2>1 DEF StatementOf
<1>5. \A d \in Changes("delete", {row}) : <<d.policy, d.cluster>> \in ClustersOf(p)
  BY <1>2 DEF Changes, Deleting, ClustersOf
<1> QED
  BY <1>1, <1>3, <1>4, <1>5, AddKeepsInv

LEMMA BBStutters == BBInv /\ UNCHANGED bbVars => BBInv'
<1> SUFFICES ASSUME BBInv, UNCHANGED bbVars PROVE BBInv'
    OBVIOUS
<1>1. UNCHANGED <<maxArgsInStatement, operations, table, args, rowsCount,
                  deleteClusterComplianceArgs, batch, built, touched, asked>>
  BY DEF bbVars, rigidVars, builderVars
<1>2. After(batch, table)' = After(batch, table) /\ AllCollected' = AllCollected
      /\ AllDeletions' = AllDeletions /\ \A k \in Kinds : Collected(k)' = Collected(k)
  BY <1>1 DEF After, Meanings, AllCollected, AllDeletions, Deletions, DeletedClusters, Collected
<1>3. BBTypes'
  BY <1>1, <1>2 DEF BBTypes, BBInv
<1>4. ArgsInv'
  BY <1>1 DEF ArgsInv, BBInv, DeletionArgsOK
<1>5. ApartInv'
  BY <1>1, <1>2 DEF ApartInv, BBInv, Apart
<1>6. \A i \in 1 .. Len(batch') : StatementOK(batch[i])'
  BY <1>1 DEF BBInv, StatementOK, FitsLimit
<1> QED
  BY <1>1, <1>2, <1>3, <1>4, <1>5, <1>6 DEF BBInv

LEMMA BBInvariance == BBSpec => []BBInv
<1>1. BBInv /\ [BBNext]_bbVars => BBInv'
  <2> SUFFICES ASSUME BBInv, BBNext PROVE BBInv'
      BY BBStutters
  <2>1. CASE \E p \in Policies, c \in Clusters : \E x \in Compliance :
                 Insert(p, c, x) \/ UpdateClusterCompliance(p, c, x)
    BY <2>1, InsertKeepsInv, UpdateClusterKeepsInv
  <2>2. CASE \E p \in Policies, c \in Clusters : DeleteClusterStatus(p, c)
    BY <2>2, DeleteClusterKeepsInv
  <2>3. CASE \E p \in Policies :
                 DeletePolicy(p) \/ \E x \in Compliance : UpdatePolicyCompliance(p, x)
    BY <2>3, DeletePolicyKeepsInv, UpdatePolicyKeepsInv
  <2>4. CASE BuildBatch
    BY <2>4, BuildKeepsInv
  <2> QED
    BY <2>1, <2>2, <2>3, <2>4 DEF BBNext
<1> QED
  BY <1>1, BBInitInv, PTL DEF BBSpec

\* The batch that Build returns changes the table as if every call of Insert, Update...
\* and Delete... had been a statement of its own, executed at once: wherever
\* statements were cut and in whatever order the map gave its policies.
THEOREM BuiltAsAsked == BBSpec => []BatchDoesWhatWasAsked
<1>1. BBInv => BatchDoesWhatWasAsked
  <2> SUFFICES ASSUME BBInv, built PROVE ExecuteFirst(Len(batch), Sent, table) = asked
      BY DEF BatchDoesWhatWasAsked
  <2>1. Sent = Meanings(batch)
    BY DEF Sent, Meanings
  <2> QED
    BY <2>1 DEF BBInv, After
<1> QED
  BY <1>1, BBInvariance, PTL

\* generateInsertOrUpdateArgs and generateArgsList number as many arguments as are
\* queued with the statement.
THEOREM ArgsAreNumbered == BBSpec => []PlaceholdersMatchArgs
<1>1. BBInv => PlaceholdersMatchArgs
  <2> SUFFICES ASSUME BBInv, NEW i \in DOMAIN batch
               PROVE  /\ batch[i].rowsCount > 0
                      /\ CASE batch[i].operation = "delete" -> Len(batch[i].args) = batch[i].rowsCount + 1
                           [] batch[i].operation = "deleteCluster" ->
                                  Len(batch[i].args) = batch[i].rowsCount + 2
                           [] OTHER -> Len(batch[i].args) = batch[i].rowsCount * batch[i].columnsCount
      BY DEF PlaceholdersMatchArgs
  <2>1. i \in 1 .. Len(batch)
    BY DEF BBInv, BBTypes
  <2> QED
    BY <2>1 DEF BBInv, StatementOK
<1> QED
  BY <1>1, BBInvariance, PTL

\* However many rows there are, a statement that may be cut has at most one row more
\* than maxArgsInStatement allows.
THEOREM LongStatementsAreCut == BBSpec => []StatementsAreCut
<1>1. BBInv => StatementsAreCut
  <2> SUFFICES ASSUME BBInv, NEW i \in DOMAIN batch, batch[i].operation # "deleteCluster"
               PROVE  FitsLimit(batch[i])
      BY DEF StatementsAreCut
  <2>1. i \in 1 .. Len(batch)
    BY DEF BBInv, BBTypes
  <2> QED
    BY <2>1 DEF BBInv, StatementOK
<1> QED
  BY <1>1, BBInvariance, PTL
=============================================================================
