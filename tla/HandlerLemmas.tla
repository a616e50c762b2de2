--------------------------- MODULE HandlerLemmas ---------------------------
(***************************************************************************)
(* What the proofs about the db syncers share: an invariant of             *)
(* SerialDelivery, which calls their handlers, and what a batch of         *)
(* statements of any length leaves in a table.                             *)
(***************************************************************************)
EXTENDS SerialDelivery, BatchStatements, WellFoundedInduction, TLAPS

(***************************************************************************)
(* The handler that works for a leaf hub is the only one, its bundle is    *)
(* newer than what was processed, and the unit keeps this bundle, or a     *)
(* newer one, for as long as the handler works: a unit that holds nothing  *)
(* has no handler.                                                         *)
(***************************************************************************)
SDTypeOK ==
    /\ held \in [LeafHubs -> [Priorities -> Bundle \cup {Nil}]]
    /\ processed \in [LeafHubs -> [Priorities -> Nat]]
    /\ active \in [LeafHubs -> SUBSET Activity]
    /\ stored \in [LeafHubs -> [Priorities -> Nat]]

HeldIsNew ==
    \A lh \in LeafHubs : \A p \in Priorities :
        held[lh][p] # Nil => held[lh][p] \in bundles[p] /\ held[lh][p].generation > processed[lh][p]

OneHandler == \A lh \in LeafHubs : \A a, b \in active[lh] : a = b

ActiveIsHeld ==
    \A lh \in LeafHubs : \A a \in active[lh] :
        /\ a.bundle \in bundles[a.priority]
        /\ held[lh][a.priority] # Nil
        /\ held[lh][a.priority].generation >= a.bundle.generation
        /\ a.bundle.generation > processed[lh][a.priority]

SDInv == SDTypeOK /\ HeldIsNew /\ OneHandler /\ ActiveIsHeld

\* Nothing is held and no handler works at first.
LEMMA SDInitInv == SDInit => SDInv
BY UnitAssumption DEF SDInit, SDInv, SDTypeOK, HeldIsNew, OneHandler, ActiveIsHeld

\* What the invariant says of the bundle a handler works on.
LEMMA ActiveFacts ==
    ASSUME SDInv, NEW lh \in LeafHubs, NEW a \in active[lh]
    PROVE  /\ a.priority \in Priorities
           /\ a.bundle \in bundles[a.priority]
           /\ a.bundle.generation \in Nat
           /\ held[lh][a.priority] # Nil
           /\ held[lh][a.priority].generation \in Nat
           /\ held[lh][a.priority].generation >= a.bundle.generation
           /\ processed[lh][a.priority] \in Nat
           /\ a.bundle.generation > processed[lh][a.priority]
           /\ active[lh] = {a}
<1>1. a \in Activity
  BY DEF SDInv, SDTypeOK
<1>2. a.priority \in Priorities /\ a.bundle \in Bundle
  BY <1>1 DEF Activity
<1>3. a.bundle.generation \in Nat
  BY <1>2 DEF Bundle
<1>4. held[lh][a.priority] \in Bundle \cup {Nil} /\ processed[lh][a.priority] \in Nat
  BY <1>2 DEF SDInv, SDTypeOK
<1>5. held[lh][a.priority] # Nil => held[lh][a.priority].generation \in Nat
  BY <1>4 DEF Bundle
<1>6. active[lh] = {a}
  BY DEF SDInv, OneHandler
<1> QED
  BY <1>2, <1>3, <1>4, <1>5, <1>6 DEF SDInv, ActiveIsHeld

\* A newer bundle that replaces the held one leaves the handler alone.
LEMMA SDReceive ==
    ASSUME SDInv, NEW lh \in LeafHubs, NEW p \in Priorities, NEW b \in bundles[p], Receive(lh, p, b)
    PROVE  SDInv'
<1> USE UnitAssumption, DeliveryAssumption
<1>1. b \in Bundle /\ b # Nil /\ b.generation \in Nat
  BY DEF Bundle
<1>2. /\ held' \in [LeafHubs -> [Priorities -> Bundle \cup {Nil}]]
      /\ held'[lh][p] = b
      /\ \A k \in LeafHubs : \A q \in Priorities : k # lh \/ q # p => held'[k][q] = held[k][q]
      /\ held[lh][p] # Nil => b.generation > held[lh][p].generation
      /\ b.generation > processed[lh][p]
      /\ UNCHANGED <<processed, active, stored>>
  BY <1>1 DEF SDInv, SDTypeOK, Receive
<1>3. SDTypeOK' /\ OneHandler'
  BY <1>2 DEF SDInv, SDTypeOK, OneHandler
<1>4. HeldIsNew'
  BY <1>1, <1>2 DEF SDInv, HeldIsNew
<1>5. ActiveIsHeld'
  <2> SUFFICES ASSUME NEW k \in LeafHubs, NEW a \in active[k]
               PROVE  /\ held'[k][a.priority] # Nil
                      /\ held'[k][a.priority].generation >= a.bundle.generation
      BY <1>2 DEF SDInv, ActiveIsHeld
  <2>1. CASE k = lh /\ a.priority = p
    BY <1>1, <1>2, <2>1, ActiveFacts
  <2>2. CASE ~(k = lh /\ a.priority = p)
    <3>1. /\ a.priority \in Priorities
          /\ held[k][a.priority] # Nil
          /\ held[k][a.priority].generation >= a.bundle.generation
      BY ActiveFacts
    <3>2. held'[k][a.priority] = held[k][a.priority]
      BY <1>2, <2>2, <3>1
    <3> QED
      BY <3>1, <3>2
  <2> QED
    BY <2>1, <2>2
<1> QED
  BY <1>3, <1>4, <1>5 DEF SDInv

\* The held bundle is given to a handler.
LEMMA SDStart ==
    ASSUME SDInv, NEW lh \in LeafHubs, NEW p \in Priorities, Start(lh, p)
    PROVE  SDInv'
<1> DEFINE a == [priority |-> p, bundle |-> held[lh][p]]
<1>1. a \in Activity /\ held[lh][p] # Nil /\ held[lh][p] \in Bundle
  BY DEF SDInv, SDTypeOK, Start, Activity
<1>2. /\ active' \in [LeafHubs -> SUBSET Activity]
      /\ active'[lh] = {a}
      /\ \A k \in LeafHubs \ {lh} : active'[k] = active[k]
      /\ UNCHANGED <<held, processed, stored>>
  BY <1>1 DEF SDInv, SDTypeOK, Start
<1>3. SDTypeOK' /\ HeldIsNew'
  BY <1>2 DEF SDInv, SDTypeOK, HeldIsNew
<1>5. OneHandler'
  BY <1>2 DEF SDInv, OneHandler
<1>4. ActiveIsHeld'
  <2>1. /\ a.bundle \in bundles[a.priority]
        /\ held[lh][a.priority] # Nil
        /\ held[lh][a.priority].generation >= a.bundle.generation
        /\ a.bundle.generation > processed[lh][a.priority]
    BY <1>1 DEF SDInv, HeldIsNew, Bundle
  <2> QED
    BY <1>2, <2>1 DEF SDInv, ActiveIsHeld
<1> QED
  BY <1>3, <1>4, <1>5 DEF SDInv

\* A bundle that was handled is forgotten unless a newer one is held, which is then
\* newer than what was processed.
LEMMA SDSucceed ==
    ASSUME SDInv, NEW lh \in LeafHubs, NEW a \in active[lh], Succeed(lh, a)
    PROVE  SDInv'
<1> USE UnitAssumption
<1> DEFINE p == a.priority
           g == a.bundle.generation
           h == held[lh][p]
<1>1. /\ p \in Priorities /\ g \in Nat /\ h # Nil /\ h.generation \in Nat /\ h.generation >= g
      /\ h \in Bundle \cup {Nil}
  BY ActiveFacts DEF SDInv, SDTypeOK
<1>2. /\ held' \in [LeafHubs -> [Priorities -> Bundle \cup {Nil}]]
      /\ held'[lh][p] = IF h.generation = g THEN Nil ELSE h
      /\ \A k \in LeafHubs : \A q \in Priorities : k # lh \/ q # p => held'[k][q] = held[k][q]
  BY <1>1 DEF SDInv, SDTypeOK, Succeed
<1>3. /\ processed' \in [LeafHubs -> [Priorities -> Nat]]
      /\ processed'[lh][p] = g
      /\ \A k \in LeafHubs : \A q \in Priorities : k # lh \/ q # p => processed'[k][q] = processed[k][q]
  BY <1>1 DEF SDInv, SDTypeOK, Succeed
<1>4. /\ active' \in [LeafHubs -> SUBSET Activity]
      /\ active'[lh] = {}
      /\ \A k \in LeafHubs \ {lh} : active'[k] = active[k]
      /\ UNCHANGED stored
  BY DEF SDInv, SDTypeOK, Succeed
<1>5. SDTypeOK'
  BY <1>2, <1>3, <1>4 DEF SDInv, SDTypeOK
<1>8. OneHandler'
  BY <1>4 DEF SDInv, OneHandler
<1>6. HeldIsNew'
  <2> SUFFICES ASSUME NEW k \in LeafHubs, NEW q \in Priorities, held'[k][q] # Nil
               PROVE  held'[k][q] \in bundles[q] /\ held'[k][q].generation > processed'[k][q]
      BY DEF HeldIsNew
  <2>1. CASE k = lh /\ q = p
    <3>1. held'[k][q] = h /\ h.generation # g /\ processed'[k][q] = g
      BY <1>2, <1>3, <2>1
    <3>2. h \in bundles[p]
      BY <1>1 DEF SDInv, HeldIsNew
    <3> QED
      BY <1>1, <2>1, <3>1, <3>2
  <2>2. CASE k # lh \/ q # p
    <3>1. held'[k][q] = held[k][q] /\ processed'[k][q] = processed[k][q]
      BY <1>2, <1>3, <2>2
    <3> QED
      BY <3>1 DEF SDInv, HeldIsNew
  <2> QED
    BY <2>1, <2>2
<1>7. ActiveIsHeld'
  <2> SUFFICES ASSUME NEW k \in LeafHubs, NEW b \in active'[k]
               PROVE  /\ b.bundle \in bundles[b.priority]
                      /\ held'[k][b.priority] # Nil
                      /\ held'[k][b.priority].generation >= b.bundle.generation
                      /\ b.bundle.generation > processed'[k][b.priority]
      BY DEF ActiveIsHeld
  <2>1. k # lh /\ b \in active[k]
    BY <1>4
  <2>2. b.priority \in Priorities
    BY <2>1, ActiveFacts
  <2>3. held'[k][b.priority] = held[k][b.priority] /\ processed'[k][b.priority] = processed[k][b.priority]
    BY <1>2, <1>3, <2>1, <2>2
  <2> QED
    BY <2>1, <2>3 DEF SDInv, ActiveIsHeld
<1> QED
  BY <1>5, <1>6, <1>7, <1>8 DEF SDInv

\* A handler that writes changes what is stored, and one that fails goes.
LEMMA SDStoreOrFail ==
    ASSUME SDInv, NEW lh \in LeafHubs,
           (\E a \in active[lh] : Store(lh, a)) \/ Fail(lh)
    PROVE  SDInv'
<1>1. CASE \E a \in active[lh] : Store(lh, a)
  <2>1. PICK a \in active[lh] : Store(lh, a)
    BY <1>1
  <2>2. a.priority \in Priorities /\ a.bundle.generation \in Nat
    BY ActiveFacts
  <2>3. stored' \in [LeafHubs -> [Priorities -> Nat]] /\ UNCHANGED <<held, processed, active>>
    BY <2>1, <2>2 DEF SDInv, SDTypeOK, Store
  <2> QED
    BY <2>3 DEF SDInv, SDTypeOK, HeldIsNew, OneHandler, ActiveIsHeld
<1>2. CASE Fail(lh)
  <2>1. /\ active' \in [LeafHubs -> SUBSET Activity]
        /\ active'[lh] = {}
        /\ \A k \in LeafHubs \ {lh} : active'[k] = active[k]
        /\ UNCHANGED <<held, processed, stored>>
    BY <1>2 DEF SDInv, SDTypeOK, Fail
  <2>2. SDTypeOK' /\ HeldIsNew'
    BY <2>1 DEF SDInv, SDTypeOK, HeldIsNew
  <2>3. OneHandler' /\ ActiveIsHeld'
    BY <2>1 DEF SDInv, OneHandler, ActiveIsHeld
  <2> QED
    BY <2>2, <2>3 DEF SDInv
<1> QED
  BY <1>1, <1>2

\* SDInv is inductive for every step of SerialDelivery.
LEMMA SDStepInv == SDInv /\ [SDNext]_sdVars => SDInv'
<1> SUFFICES ASSUME SDInv, [SDNext]_sdVars PROVE SDInv'
    OBVIOUS
<1>1. CASE UNCHANGED sdVars
  BY <1>1 DEF SDInv, SDTypeOK, HeldIsNew, OneHandler, ActiveIsHeld, sdVars
<1>2. CASE SDNext
  BY <1>2, SDReceive, SDStart, SDSucceed, SDStoreOrFail DEF SDNext
<1> QED
  BY <1>1, <1>2

-----------------------------------------------------------------------------
(***************************************************************************)
(* Batches of any length.                                                  *)
(***************************************************************************)

\* Induction over the natural numbers for a set, from the smallest number that
\* is not in it.
LEMMA SetInduction ==
    ASSUME NEW S, 0 \in S, \A n \in Nat : n \in S => n + 1 \in S
    PROVE  Nat \subseteq S
<1>1. SUFFICES ASSUME Nat \ S # {} PROVE FALSE
  OBVIOUS
<1>2. PICK x \in Nat \ S : \A y \in Nat \ S : ~(<<y, x>> \in OpToRel(<, Nat))
  <2>1. Nat \ S \subseteq Nat
    OBVIOUS
  <2> QED
    BY <1>1, <2>1, NatLessThanWellFounded, WFMin
<1>3. \A y \in Nat \ S : ~(y < x)
  BY <1>2 DEF OpToRel
<1>4. x # 0 /\ x - 1 \in Nat
  OBVIOUS
<1> QED
  BY <1>3, <1>4

\* The recursion of ExecuteFirst: the rows after n statements are those after
\* n - 1 of them, changed by the last.
LEMMA ExecuteFirstStep ==
    ASSUME NEW batch, NEW rows, Len(batch) \in Nat
    PROVE  /\ ExecuteFirst(0, batch, rows) = rows
           /\ \A n \in 1 .. Len(batch) :
                  ExecuteFirst(n, batch, rows) =
                      Execute(ExecuteFirst(n - 1, batch, rows), batch[n])
<1> DEFINE Upto(n) == 0 .. n
           Body(f, i) == IF i = 0 THEN rows ELSE Execute(f[i - 1], batch[i])
           S == {n \in Nat : \E f : f = [i \in Upto(n) |-> Body(f, i)]}
           F == CHOOSE f : f = [i \in Upto(Len(batch)) |-> Body(f, i)]
<1>1. 0 \in S
  <2> DEFINE f == [i \in Upto(0) |-> rows]
  <2>1. f = [i \in Upto(0) |-> Body(f, i)]
    OBVIOUS
  <2> QED
    BY <2>1
<1>2. ASSUME NEW n \in Nat, n \in S PROVE n + 1 \in S
  <2>1. PICK f : f = [i \in Upto(n) |-> Body(f, i)]
    BY <1>2
  <2> DEFINE g == [i \in Upto(n + 1) |-> IF i = n + 1 THEN Execute(f[n], batch[n + 1]) ELSE f[i]]
  <2>2. \A i \in Upto(n) : g[i] = f[i] /\ f[i] = Body(f, i)
    BY <2>1
  <2>3. ASSUME NEW i \in Upto(n + 1) PROVE g[i] = Body(g, i)
    <3>1. CASE i = n + 1
      <4>1. g[i] = Execute(f[n], batch[n + 1]) /\ g[n] = f[n] /\ i # 0 /\ i - 1 = n
        BY <3>1
      <4> QED
        BY <3>1, <4>1
    <3>2. CASE i = 0
      <4>1. 0 \in Upto(n)
        OBVIOUS
      <4>2. g[0] = f[0] /\ f[0] = rows
        BY <2>2, <4>1
      <4> QED
        BY <3>2, <4>2
    <3>3. CASE i # 0 /\ i # n + 1
      <4>1. i \in Upto(n) /\ i - 1 \in Upto(n)
        BY <3>3
      <4>2. g[i] = f[i] /\ f[i] = Body(f, i) /\ g[i - 1] = f[i - 1]
        BY <2>2, <4>1
      <4> QED
        BY <3>3, <4>2
    <3> QED
      BY <3>1, <3>2, <3>3
  <2>4. g = [i \in Upto(n + 1) |-> Body(g, i)]
    BY <2>3
  <2>5. \E h : h = [i \in Upto(n + 1) |-> Body(h, i)]
    <3> HIDE DEF g
    <3> QED
      BY <2>4
  <2> QED
    BY <2>5
<1>3. Nat \subseteq S
  <2> HIDE DEF S
  <2> QED
    BY <1>1, <1>2, SetInduction
<1>4. \E f : f = [i \in Upto(Len(batch)) |-> Body(f, i)]
  BY <1>3
<1>5. F = [i \in Upto(Len(batch)) |-> Body(F, i)]
  BY <1>4
<1>6. ASSUME NEW n PROVE ExecuteFirst(n, batch, rows) = F[n]
  BY DEF ExecuteFirst
<1>7. \A i \in Upto(Len(batch)) : F[i] = Body(F, i)
  <2> HIDE DEF F
  <2> QED
    BY <1>5
<1> QED
  <2> HIDE DEF F
  <2>1. F[0] = rows
    BY <1>7
  <2>2. ASSUME NEW n \in 1 .. Len(batch) PROVE F[n] = Execute(F[n - 1], batch[n])
    BY <1>7
  <2> QED
    BY <1>6, <2>1, <2>2

\* What each kind of statement leaves of the rows.
LEMMA ExecuteInsert ==
    ASSUME NEW rows, NEW new
    PROVE  Execute(rows, InsertRows(new)) = rows \cup new
BY DEF Execute, InsertRows

LEMMA ExecuteDelete ==
    ASSUME NEW rows, NEW key, NEW deleted
    PROVE  Execute(rows, DeleteRows(key, deleted)) =
               {r \in rows : \A s \in deleted : ~Agree(r, s, key)}
BY DEF Execute, DeleteRows, Matched

LEMMA ExecuteUpdate ==
    ASSUME NEW rows, NEW column, NEW key, NEW new, NEW x
    PROVE  x \in Execute(rows, UpdateRows(column, key, new)) <=>
               \/ x \in rows /\ \A s \in new : ~Agree(x, s, key)
               \/ \E r \in rows : \E s \in new :
                      Agree(r, s, key) /\ x = [r EXCEPT ![column] = s[column]]
<1>1. Execute(rows, UpdateRows(column, key, new)) =
          {r \in rows : \A s \in new : ~Agree(r, s, key)}
              \cup UNION {{[r EXCEPT ![column] = s[column]] : s \in {t \in new : Agree(r, t, key)}} :
                             r \in rows}
  BY DEF Execute, UpdateRows, Matched
<1> QED
  BY <1>1
=============================================================================
