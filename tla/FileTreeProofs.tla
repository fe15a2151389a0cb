-------------------------- MODULE FileTreeProofs --------------------------
(***************************************************************************)
(* Proofs about FileTree, for any number of peers, names and operations.   *)
(*                                                                         *)
(* Two facts carry everything.  UpToDate: the tree that a peer keeps up to *)
(* date step by step is the one that its log gives when the operations are *)
(* applied in order.  History: each operation was allowed in the tree of   *)
(* what its author had.  The properties of a tree follow by going back     *)
(* from it to the operations that made it so, and from those to the trees  *)
(* that their authors saw.                                                 *)
(***************************************************************************)
EXTENDS FileTree, FiniteSetTheorems, WellFoundedInduction, TLAPS

-----------------------------------------------------------------------------
(***************************************************************************)
(* Induction over numbers, for sets instead of predicates.                 *)
(***************************************************************************)

\* A set of numbers has a least one.
LEMMA LeastElement ==
    ASSUME NEW T \in SUBSET Nat, T # {}
    PROVE  \E m \in T : \A k \in T : m <= k
<1> DEFINE I == {1..n : n \in T}
<1>1. \A n \in Nat : 1..n \in FiniteSubsetsOf(Nat)
  BY FS_Interval DEF FiniteSubsetsOf
<1>2. I \subseteq FiniteSubsetsOf(Nat) /\ I # {}
  BY <1>1
<1>3. \E x \in I : \A y \in I : ~(<<y, x>> \in StrictSubsetOrdering(Nat))
  BY <1>2, WFMin, FS_StrictSubsetOrderingWellFounded, Zenon
<1>4. PICK m \in T : \A k \in T : ~(<<1..k, 1..m>> \in StrictSubsetOrdering(Nat))
  BY <1>3
<1>5. ASSUME NEW k \in T, k < m PROVE FALSE
  <2>1. 1..k \subseteq 1..m /\ m \in 1..m /\ m \notin 1..k
    BY <1>5
  <2>2. <<1..k, 1..m>> \in (SUBSET Nat) \X (SUBSET Nat)
    OBVIOUS
  <2>3. <<1..k, 1..m>> \in StrictSubsetOrdering(Nat)
    BY <2>1, <2>2, Zenon DEF StrictSubsetOrdering
  <2> QED BY <1>4, <2>3
<1> QED BY <1>5

\* A set that has a number and the successor of each of its members has all from there.
LEMMA Induct ==
    ASSUME NEW S, NEW b \in Nat, b \in S, \A n \in Nat : n >= b /\ n \in S => n + 1 \in S
    PROVE  \A n \in Nat : n >= b => n \in S
<1> DEFINE T == {n \in Nat : n >= b /\ n \notin S}
<1> SUFFICES ASSUME T # {} PROVE FALSE
  OBVIOUS
<1>1. PICK m \in T : \A k \in T : m <= k
  BY LeastElement
<1>2. m # b /\ m - 1 \in Nat /\ m - 1 >= b /\ m - 1 \notin T
  BY <1>1
<1> QED BY <1>1, <1>2

-----------------------------------------------------------------------------
(***************************************************************************)
(* Recursion over numbers: a function can be applied again and again.      *)
(***************************************************************************)
Iterates(f, G, a, n) == f[0] = a /\ \A k \in 1..n : f[k] = G[f[k - 1]]

\* To any number.
LEMMA IterateTo ==
    ASSUME NEW G, NEW a
    PROVE  \A n \in Nat : \E f : Iterates(f, G, a, n)
<1> DEFINE S == {n \in Nat : \E f : Iterates(f, G, a, n)}
<1>1. 0 \in S
  <2>1. Iterates([k \in 0..0 |-> a], G, a, 0)
    BY DEF Iterates
  <2> QED BY <2>1
<1>2. ASSUME NEW n \in Nat, n \in S PROVE n + 1 \in S
  <2>1. PICK f : Iterates(f, G, a, n)
    BY <1>2
  <2> DEFINE g == [k \in 0..(n + 1) |-> IF k = n + 1 THEN G[f[n]] ELSE f[k]]
  <2>2. /\ g[n + 1] = G[f[n]]
        /\ \A k \in 0..n : g[k] = f[k]
    OBVIOUS
  <2> HIDE DEF g
  <2>3. g[0] = a
    BY <2>1, <2>2 DEF Iterates
  <2>4. ASSUME NEW k \in 1..(n + 1) PROVE g[k] = G[g[k - 1]]
    <3>1. k - 1 \in 0..n
      OBVIOUS
    <3>2. g[k - 1] = f[k - 1]
      BY <2>2, <3>1
    <3>3. CASE k = n + 1
      BY <2>2, <3>2, <3>3
    <3>4. CASE k # n + 1
      <4>1. k \in 1..n /\ k \in 0..n
        BY <3>4
      <4>2. g[k] = f[k] /\ f[k] = G[f[k - 1]]
        BY <2>1, <2>2, <4>1 DEF Iterates
      <4> QED BY <3>2, <4>2
    <3> QED BY <3>3, <3>4
  <2>5. Iterates(g, G, a, n + 1)
    BY <2>3, <2>4 DEF Iterates
  <2> QED BY <2>5
<1> HIDE DEF S
<1>3. \A n \in Nat : n >= 0 => n \in S
  BY <1>1, <1>2, Induct
<1> QED BY <1>3 DEF S

\* In one way only.
LEMMA IterateOnce ==
    ASSUME NEW G, NEW a, NEW f, NEW g, NEW i \in Nat, NEW j \in Nat,
           Iterates(f, G, a, i), Iterates(g, G, a, j)
    PROVE  \A n \in Nat : n <= i /\ n <= j => f[n] = g[n]
<1> DEFINE S == {n \in Nat : n <= i /\ n <= j => f[n] = g[n]}
<1>1. 0 \in S
  BY DEF Iterates
<1>2. ASSUME NEW n \in Nat, n \in S PROVE n + 1 \in S
  <2> SUFFICES ASSUME n + 1 <= i, n + 1 <= j PROVE f[n + 1] = g[n + 1]
    OBVIOUS
  <2>1. f[n] = g[n]
    BY <1>2
  <2>2. n + 1 \in 1..i /\ n + 1 \in 1..j /\ (n + 1) - 1 = n
    OBVIOUS
  <2>3. f[n + 1] = G[f[n]] /\ g[n + 1] = G[g[n]]
    BY <2>2 DEF Iterates
  <2> QED BY <2>1, <2>3
<1> HIDE DEF S
<1>3. \A n \in Nat : n >= 0 => n \in S
  BY <1>1, <1>2, Induct
<1> QED BY <1>3 DEF S

\* Repeated without end.
Repeated(f, G, a) ==
    /\ f = [k \in Nat |-> f[k]]
    /\ f[0] = a
    /\ \A k \in Nat : f[k + 1] = G[f[k]]

\* There is such a function for every G.
LEMMA IterateForever ==
    ASSUME NEW G, NEW a
    PROVE  \E f : Repeated(f, G, a)
<1> DEFINE to == [n \in Nat |-> CHOOSE f : Iterates(f, G, a, n)]
           f == [n \in Nat |-> to[n][n]]
<1>1. ASSUME NEW n \in Nat PROVE Iterates(to[n], G, a, n)
  <2>1. \E g : Iterates(g, G, a, n)
    BY IterateTo
  <2>2. to[n] = CHOOSE g : Iterates(g, G, a, n)
    OBVIOUS
  <2> QED BY <2>1, <2>2, Zenon
<1>2. \A n \in Nat : f[n] = to[n][n]
  OBVIOUS
<1> HIDE DEF to
<1>3. f[0] = a
  BY <1>1, <1>2 DEF Iterates
<1>4. ASSUME NEW k \in Nat PROVE f[k + 1] = G[f[k]]
  <2>1. Iterates(to[k], G, a, k) /\ Iterates(to[k + 1], G, a, k + 1)
    BY <1>1
  <2>2. k <= k /\ k <= k + 1 /\ k + 1 \in Nat
    OBVIOUS
  <2>3. \A n \in Nat : n <= k /\ n <= k + 1 => to[k][n] = to[k + 1][n]
    BY <2>1, <2>2, IterateOnce
  <2>4. to[k][k] = to[k + 1][k]
    BY <2>2, <2>3
  <2>5. k + 1 \in 1..(k + 1) /\ (k + 1) - 1 = k
    OBVIOUS
  <2>6. to[k + 1][k + 1] = G[to[k + 1][k]]
    BY <2>1, <2>5 DEF Iterates
  <2> QED BY <1>2, <2>2, <2>4, <2>6
<1>5. f = [k \in Nat |-> f[k]]
  OBVIOUS
<1> HIDE DEF f
<1>6. Repeated(f, G, a)
  BY <1>3, <1>4, <1>5 DEF Repeated
<1> QED BY <1>6

-----------------------------------------------------------------------------
(***************************************************************************)
(* The tree after each time.                                               *)
(***************************************************************************)

\* The tree after time k, from the trees before.
Following(ops, f, k) ==
    IF k = 0 THEN <<>>
    ELSE IF \E op \in ops : op.time = k
         THEN Apply(f[k - 1], CHOOSE op \in ops : op.time = k)
         ELSE f[k - 1]

\* The recursion of AfterEach can be followed to any time.
LEMMA FollowingExists ==
    ASSUME NEW ops
    PROVE  \A n \in Nat : \E f : f = [k \in 0..n |-> Following(ops, f, k)]
<1> DEFINE S == {n \in Nat : \E f : f = [k \in 0..n |-> Following(ops, f, k)]}
<1>1. 0 \in S
  <2> DEFINE f == [k \in 0..0 |-> <<>>]
  <2>1. f = [k \in 0..0 |-> Following(ops, f, k)]
    BY DEF Following
  <2> QED BY <2>1
<1>2. ASSUME NEW n \in Nat, n \in S PROVE n + 1 \in S
  <2>1. PICK f : f = [k \in 0..n |-> Following(ops, f, k)]
    BY <1>2
  <2> DEFINE g == [k \in 0..(n + 1) |-> IF k \in 0..n THEN f[k] ELSE Following(ops, f, k)]
  <2>2. \A k \in 0..n : g[k] = f[k]
    OBVIOUS
  <2>3. \A k \in 0..(n + 1) : Following(ops, g, k) = Following(ops, f, k)
    <3> SUFFICES ASSUME NEW k \in 0..(n + 1), k # 0
                 PROVE  Following(ops, g, k) = Following(ops, f, k)
      BY DEF Following
    <3>1. k - 1 \in 0..n
      OBVIOUS
    <3>2. g[k - 1] = f[k - 1]
      BY <2>2, <3>1
    <3> HIDE DEF g
    <3> QED BY <3>2 DEF Following
  <2>4. \A k \in 0..(n + 1) : g[k] = Following(ops, f, k)
    BY <2>1
  <2> HIDE DEF g
  <2>5. DOMAIN g = 0..(n + 1) /\ g = [k \in 0..(n + 1) |-> g[k]]
    BY DEF g
  <2>6. g = [k \in 0..(n + 1) |-> Following(ops, g, k)]
    BY <2>3, <2>4, <2>5
  <2> QED BY <2>6
<1> HIDE DEF S
<1>3. \A n \in Nat : n >= 0 => n \in S
  BY <1>1, <1>2, Induct
<1> QED BY <1>3 DEF S

\* AfterEach is what its recursion says.
LEMMA AfterEachFollows ==
    ASSUME NEW ops
    PROVE  /\ AfterEach(ops)[0] = <<>>
           /\ \A k \in 1..MaxOps :
                AfterEach(ops)[k] = IF \E op \in ops : op.time = k
                                    THEN Apply(AfterEach(ops)[k - 1], CHOOSE op \in ops : op.time = k)
                                    ELSE AfterEach(ops)[k - 1]
<1> DEFINE F == AfterEach(ops)
<1>1. \E f : f = [k \in 0..MaxOps |-> Following(ops, f, k)]
  BY FollowingExists, TreeAssumption
<1>2. F = CHOOSE f : f = [k \in 0..MaxOps |-> Following(ops, f, k)]
  BY DEF AfterEach, Following
<1>3. F = [k \in 0..MaxOps |-> Following(ops, F, k)]
  BY <1>1, <1>2, Zenon
<1> HIDE DEF F
<1>4. \A k \in 0..MaxOps : F[k] = Following(ops, F, k)
  BY <1>3
<1>5. F[0] = <<>>
  BY <1>4, TreeAssumption DEF Following
<1>6. ASSUME NEW k \in 1..MaxOps
      PROVE  F[k] = IF \E op \in ops : op.time = k
                    THEN Apply(F[k - 1], CHOOSE op \in ops : op.time = k)
                    ELSE F[k - 1]
  <2>1. k \in 0..MaxOps /\ k # 0
    BY TreeAssumption
  <2>2. F[k] = Following(ops, F, k)
    BY <1>4, <2>1
  <2> QED BY <2>1, <2>2, Zenon DEF Following
<1> QED BY <1>5, <1>6 DEF F

\* No two operations have one time.
Timed(ops) ==
    /\ \A op \in ops : op.time \in 1..MaxOps
    /\ \A op1, op2 \in ops : op1.time = op2.time => op1 = op2

\* An operation that is later than all others is applied to the tree of the others.
LEMMA LastIsApplied ==
    ASSUME NEW ops, NEW op, Timed(ops), op.time \in 1..MaxOps,
           \A old \in ops : old.time < op.time
    PROVE  TreeOf(ops \cup {op}) = Apply(TreeOf(ops), op)
<1> DEFINE F == AfterEach(ops)
           more == ops \cup {op}
           G == AfterEach(more)
           t == op.time
<1>1. t \in Nat /\ t >= 1 /\ t <= MaxOps /\ MaxOps \in Nat
  BY TreeAssumption
<1>2. \A k \in 1..MaxOps : F[k] = IF \E o \in ops : o.time = k
                                THEN Apply(F[k - 1], CHOOSE o \in ops : o.time = k)
                                ELSE F[k - 1]
  BY AfterEachFollows
<1>3. \A k \in 1..MaxOps : G[k] = IF \E o \in more : o.time = k
                                THEN Apply(G[k - 1], CHOOSE o \in more : o.time = k)
                                ELSE G[k - 1]
  BY AfterEachFollows
<1>4. F[0] = <<>> /\ G[0] = <<>>
  BY AfterEachFollows
<1> HIDE DEF F, G
<1>5. ASSUME NEW k \in 1..MaxOps, k < t, F[k - 1] = G[k - 1]
      PROVE  F[k] = G[k]
  <2>1. \A o \in more : o.time = k => o \in ops
    BY <1>1, <1>5
  <2>2. CASE \E o \in ops : o.time = k
    <3>1. PICK old \in ops : old.time = k
      BY <2>2
    <3>2. \A o \in more : o.time = k <=> o = old
      BY <2>1, <3>1 DEF Timed
    <3>3. (CHOOSE o \in ops : o.time = k) = old
      BY <3>1, <3>2
    <3>4. (CHOOSE o \in more : o.time = k) = old
      BY <3>1, <3>2
    <3>5. F[k] = Apply(F[k - 1], old)
      BY <1>2, <2>2, <3>3, Zenon
    <3>6. \E o \in more : o.time = k
      BY <3>1
    <3>7. G[k] = Apply(G[k - 1], old)
      BY <1>3, <3>4, <3>6, Zenon
    <3> QED BY <1>5, <3>5, <3>7
  <2>3. CASE ~\E o \in ops : o.time = k
    <3>1. ~\E o \in more : o.time = k
      BY <2>1, <2>3
    <3>2. F[k] = F[k - 1]
      BY <1>2, <2>3, Zenon
    <3>3. G[k] = G[k - 1]
      BY <1>3, <3>1, Zenon
    <3> QED BY <1>5, <3>2, <3>3
  <2> QED BY <2>2, <2>3
<1>6. F[t - 1] = G[t - 1]
  <2> DEFINE S == {k \in Nat : k < t => F[k] = G[k]}
  <2>1. 0 \in S
    BY <1>4
  <2>2. ASSUME NEW n \in Nat, n \in S PROVE n + 1 \in S
    <3> SUFFICES ASSUME n + 1 < t PROVE F[n + 1] = G[n + 1]
      OBVIOUS
    <3>1. n + 1 \in 1..MaxOps /\ (n + 1) - 1 = n /\ F[n] = G[n]
      BY <1>1, <2>2
    <3> QED BY <1>5, <3>1
  <2> HIDE DEF S
  <2>3. \A n \in Nat : n >= 0 => n \in S
    BY <2>1, <2>2, Induct
  <2>4. t - 1 \in Nat /\ t - 1 >= 0 /\ t - 1 < t
    BY <1>1
  <2> QED BY <2>3, <2>4 DEF S
<1>7. F[t] = F[t - 1]
  <2>1. ~\E o \in ops : o.time = t
    BY <1>1
  <2>2. t \in 1..MaxOps
    BY <1>1
  <2> QED BY <1>2, <2>1, <2>2, Zenon
<1>8. G[t] = Apply(G[t - 1], op)
  <2>1. \A o \in more : o.time = t <=> o = op
    BY <1>1
  <2>2. (CHOOSE o \in more : o.time = t) = op
    BY <2>1
  <2>3. \E o \in more : o.time = t
    BY <2>1
  <2> QED BY <1>3, <2>2, <2>3, Zenon
<1>9. ASSUME NEW k \in 1..MaxOps, t < k
      PROVE  F[k] = F[k - 1] /\ G[k] = G[k - 1]
  <2>1. \A o \in more : ~(o.time = k)
    <3>1. \A o \in ops : o.time \in Nat /\ o.time < t
      BY TreeAssumption DEF Timed
    <3> QED BY <1>1, <1>9, <3>1
  <2>2. F[k] = F[k - 1]
    BY <1>2, <2>1, Zenon
  <2>3. G[k] = G[k - 1]
    BY <1>3, <2>1, Zenon
  <2> QED BY <2>2, <2>3
<1>10. F[MaxOps] = F[t] /\ G[MaxOps] = G[t]
  <2> DEFINE S == {k \in Nat : k <= MaxOps => F[k] = F[t] /\ G[k] = G[t]}
  <2>1. t \in S
    BY <1>1
  <2>2. ASSUME NEW n \in Nat, n >= t, n \in S PROVE n + 1 \in S
    <3> SUFFICES ASSUME n + 1 <= MaxOps PROVE F[n + 1] = F[t] /\ G[n + 1] = G[t]
      OBVIOUS
    <3>1. n + 1 \in 1..MaxOps /\ t < n + 1 /\ (n + 1) - 1 = n /\ F[n] = F[t] /\ G[n] = G[t]
      BY <1>1, <2>2
    <3> QED BY <1>9, <3>1
  <2> HIDE DEF S
  <2>3. \A n \in Nat : n >= t => n \in S
    BY <1>1, <2>1, <2>2, Induct
  <2>4. MaxOps \in S
    BY <1>1, <2>3
  <2> QED BY <1>1, <2>4 DEF S
<1>11. G[MaxOps] = Apply(F[MaxOps], op)
  BY <1>6, <1>7, <1>8, <1>10
<1> QED BY <1>11 DEF TreeOf, F, G

-----------------------------------------------------------------------------
(***************************************************************************)
(* The inductive invariant: what everybody knows is timed, and every tree  *)
(* is up to date with its log.                                             *)
(***************************************************************************)
UpToDate ==
    /\ log = [p \in Peer |-> log[p]] /\ DOMAIN tree = Peer
    /\ Timed(Log!Known)
    /\ \A p \in Peer : tree[p] = TreeOf(log[p])

\* All start with the operations of Prelude.
LEMMA InitUpToDate == Init => UpToDate
<1> SUFFICES ASSUME Init PROVE UpToDate
  OBVIOUS
<1>1. \A op \in Log!Known : op \in Prelude
  BY DEF Init, Log!Known
<1>2. Timed(Log!Known)
  BY <1>1, PreludeAssumption DEF Timed, Operation
<1> QED BY <1>2 DEF Init, UpToDate

\* A call applies its operation to the tree at once, which is the same as if it had been
\* applied after all others.
LEMMA MutateStep ==
    ASSUME UpToDate, NEW p \in Peer, NEW n, NEW parent, NEW meta, NEW call,
           Mutate(p, n, parent, meta, call)
    PROVE  UpToDate'
<1>1. PICK op : /\ op.time \in 1..MaxOps
               /\ Log!Make(p, op)
               /\ tree' = [tree EXCEPT ![p] = Apply(@, op)]
  <2>1. PICK k \in 1..MaxOps :
            LET op == [time |-> k, actor |-> p, node |-> n, parent |-> parent, meta |-> meta,
                       call |-> call, seen |-> {old.time : old \in log[p]}]
            IN  /\ Log!Make(p, op)
                /\ tree' = [tree EXCEPT ![p] = Apply(@, op)]
    BY DEF Mutate
  <2> DEFINE op == [time |-> k, actor |-> p, node |-> n, parent |-> parent, meta |-> meta,
                    call |-> call, seen |-> {old.time : old \in log[p]}]
  <2>2. op.time \in 1..MaxOps
    OBVIOUS
  <2>3. Log!Make(p, op) /\ tree' = [tree EXCEPT ![p] = Apply(@, op)]
    BY <2>1
  <2> HIDE DEF op
  <2> QED BY <2>2, <2>3
<1>2. /\ \A old \in Log!Known : old.time < op.time \/ op.time < old.time
      /\ \A old \in log[p] : old.time < op.time
      /\ log' = [log EXCEPT ![p] = @ \cup {op}]
  BY <1>1 DEF Log!Make, Earlier
<1>3. log' = [q \in Peer |-> log'[q]] /\ DOMAIN tree' = Peer
  BY <1>1, <1>2 DEF UpToDate
<1>4. \A o \in Log!Known' : o \in Log!Known \/ o = op
  BY <1>2 DEF Log!Known, UpToDate
<1>5. Timed(Log!Known')
  <2>1. \A o \in Log!Known : o.time \in Nat /\ o.time # op.time
    BY <1>1, <1>2, TreeAssumption DEF UpToDate, Timed
  <2> QED BY <1>1, <1>4, <2>1 DEF UpToDate, Timed
<1>6. ASSUME NEW q \in Peer PROVE tree'[q] = TreeOf(log'[q])
  <2>1. CASE q = p
    <3>1. Timed(log[p])
      BY DEF UpToDate, Timed, Log!Known
    <3>2. TreeOf(log[p] \cup {op}) = Apply(TreeOf(log[p]), op)
      BY <1>1, <1>2, <3>1, LastIsApplied
    <3>3. log'[p] = log[p] \cup {op} /\ tree'[p] = Apply(tree[p], op) /\ tree[p] = TreeOf(log[p])
      BY <1>1, <1>2 DEF UpToDate
    <3> QED BY <2>1, <3>2, <3>3
  <2>2. CASE q # p
    BY <1>1, <1>2, <2>2 DEF UpToDate
  <2> QED BY <2>1, <2>2
<1> QED BY <1>3, <1>5, <1>6 DEF UpToDate, Timed

\* Operations that come from others rebuild the tree.
LEMMA ApplyStep ==
    ASSUME UpToDate, NEW p \in Peer, NEW ops, ApplyOperations(p, ops)
    PROVE  UpToDate'
<1>1. /\ ops \subseteq Log!Known
      /\ log' = [log EXCEPT ![p] = @ \cup ops]
      /\ tree' = [tree EXCEPT ![p] = TreeOf(log'[p])]
  BY DEF ApplyOperations, Log!Learn
<1>2. \A o \in Log!Known' : o \in Log!Known
  BY <1>1 DEF Log!Known, UpToDate
<1>3. Timed(Log!Known')
  BY <1>2 DEF UpToDate, Timed
<1>4. ASSUME NEW q \in Peer PROVE tree'[q] = TreeOf(log'[q])
  BY <1>1 DEF UpToDate
<1>5. log' = [q \in Peer |-> log'[q]] /\ DOMAIN tree' = Peer
  BY <1>1 DEF UpToDate
<1> QED BY <1>3, <1>4, <1>5 DEF UpToDate, Timed

\* Whatever is called ends in one operation, or in none.
LEMMA NextUpToDate == UpToDate /\ [Next]_vars => UpToDate'
<1> SUFFICES ASSUME UpToDate, [Next]_vars PROVE UpToDate'
  OBVIOUS
<1>1. ASSUME NEW p \in Peer, NEW d, NEW name,
             Mkdir(p, d, name) \/ Create(p, d, name) \/ Symlink(p, d, name)
      PROVE  UpToDate'
  BY <1>1, MutateStep DEF Mkdir, Create, Symlink, CreateNode
<1>2. ASSUME NEW p \in Peer, NEW d, NEW name, Unlink(p, d, name) \/ Rmdir(p, d, name)
      PROVE  UpToDate'
  BY <1>2, MutateStep DEF Unlink, Rmdir, DeleteNode
<1>3. ASSUME NEW p \in Peer, NEW d, NEW name, NEW d2, NEW name2, Rename(p, d, name, d2, name2)
      PROVE  UpToDate'
  BY <1>3, MutateStep DEF Rename
<1>4. ASSUME NEW p \in Peer, NEW n, TruncateFile(p, n) \/ WriteFile(p, n)
      PROVE  UpToDate'
  BY <1>4, MutateStep DEF TruncateFile, WriteFile
<1>5. ASSUME NEW p \in Peer, NEW ops, ApplyOperations(p, ops)
      PROVE  UpToDate'
  BY <1>5, ApplyStep
<1>6. CASE UNCHANGED vars
  BY <1>6 DEF vars, UpToDate, Timed, Log!Known
<1> QED BY <1>1, <1>2, <1>3, <1>4, <1>5, <1>6 DEF Next

\* Every tree is the one that its log gives.
THEOREM TreesFollowLogs == Spec => []UpToDate
<1> QED BY InitUpToDate, NextUpToDate, PTL DEF Spec

\* NodeTree::apply_operations: peers that have the same operations have the same tree, in
\* whatever order these came, and what a user did was applied at once.
THEOREM EqualLogsEqualTrees == Spec => []TreesConverge
<1>1. UpToDate => TreesConverge
  BY DEF UpToDate, TreesConverge
<1> QED BY <1>1, TreesFollowLogs, PTL

-----------------------------------------------------------------------------
(***************************************************************************)
(* Ancestors.                                                              *)
(***************************************************************************)

\* The ancestors are collected by going from nodes to their parents.
Collects(t, n, up) ==
    /\ Ancestors(t, n) = UNION {up[k] : k \in 1..(Cardinality(DOMAIN t) + 1)}
    /\ up[0] = {n}
    /\ \A k \in Nat : up[k + 1] = {t[m].parent : m \in up[k] \cap DOMAIN t}

\* There is a function that does.
LEMMA AncestorSteps ==
    ASSUME NEW t, NEW n
    PROVE  \E up : Collects(t, n, up)
<1> DEFINE D == SUBSET ({n} \cup {t[m].parent : m \in DOMAIN t})
           G == [s \in D |-> {t[m].parent : m \in s \cap DOMAIN t}]
           up == CHOOSE f : f = [k \in Nat |-> IF k = 0 THEN {n}
                                    ELSE {t[m].parent : m \in f[k - 1] \cap DOMAIN t}]
<1>1. PICK f : /\ f = [k \in Nat |-> f[k]]
               /\ f[0] = {n}
               /\ \A k \in Nat : f[k + 1] = G[f[k]]
  <2> HIDE DEF G
  <2>1. PICK f : Repeated(f, G, {n})
    BY IterateForever
  <2> QED BY <2>1 DEF Repeated
<1>2. \A s \in D : G[s] \in D /\ G[s] = {t[m].parent : m \in s \cap DOMAIN t}
  OBVIOUS
<1>3. \A k \in Nat : f[k] \in D
  <2> DEFINE S == {k \in Nat : f[k] \in D}
  <2>1. 0 \in S
    BY <1>1
  <2>2. ASSUME NEW k \in Nat, k \in S PROVE k + 1 \in S
    <3> HIDE DEF G, D
    <3> QED BY <1>1, <1>2, <2>2
  <2> HIDE DEF S
  <2>3. \A k \in Nat : k >= 0 => k \in S
    BY <2>1, <2>2, Induct
  <2> QED BY <2>3 DEF S
<1> HIDE DEF G, D
<1>4. ASSUME NEW k \in Nat
      PROVE  f[k] = IF k = 0 THEN {n} ELSE {t[m].parent : m \in f[k - 1] \cap DOMAIN t}
  <2>1. CASE k = 0
    BY <1>1, <2>1
  <2>2. CASE k # 0
    <3>1. k - 1 \in Nat /\ (k - 1) + 1 = k
      BY <2>2
    <3>2. f[k] = G[f[k - 1]]
      BY <1>1, <3>1
    <3> QED BY <1>2, <1>3, <2>2, <3>1, <3>2
  <2> QED BY <2>1, <2>2
<1>5. f = [k \in Nat |-> IF k = 0 THEN {n} ELSE {t[m].parent : m \in f[k - 1] \cap DOMAIN t}]
  BY <1>1, <1>4, Zenon
<1>6. up = [k \in Nat |-> IF k = 0 THEN {n} ELSE {t[m].parent : m \in up[k - 1] \cap DOMAIN t}]
  BY <1>5, Zenon
<1>7. Ancestors(t, n) = UNION {up[k] : k \in 1..(Cardinality(DOMAIN t) + 1)}
  BY DEF Ancestors
<1> HIDE DEF up
<1>8. up[0] = {n}
  BY <1>6
<1>9. ASSUME NEW k \in Nat PROVE up[k + 1] = {t[m].parent : m \in up[k] \cap DOMAIN t}
  <2>1. k + 1 \in Nat /\ k + 1 # 0 /\ (k + 1) - 1 = k
    OBVIOUS
  <2> QED BY <1>6, <2>1
<1>10. Collects(t, n, up)
  BY <1>7, <1>8, <1>9 DEF Collects
<1> QED BY <1>10

\* S has the parent of each of its members.
Upward(t, S) == \A x \in S \cap DOMAIN t : t[x].parent \in S

Parents(t) == {t[m].parent : m \in DOMAIN t}

\* They are no more than the nodes.
LEMMA ParentsFinite ==
    ASSUME NEW t, IsFiniteSet(DOMAIN t)
    PROVE  IsFiniteSet(Parents(t)) /\ Cardinality(Parents(t)) <= Cardinality(DOMAIN t)
<1> DEFINE f == [m \in DOMAIN t |-> t[m].parent]
<1>1. f \in Surjection(DOMAIN t, Parents(t))
  BY DEF Surjection, Parents
<1> QED BY <1>1, FS_Surjection

\* The ancestors are in every set that goes upward from the parent.
LEMMA AncestorsLeast ==
    ASSUME NEW t, NEW n, NEW S, Upward(t, S), n \in DOMAIN t => t[n].parent \in S
    PROVE  Ancestors(t, n) \subseteq S
<1>0. PICK up : Collects(t, n, up)
  BY AncestorSteps
<1>1. /\ Ancestors(t, n) = UNION {up[k] : k \in 1..(Cardinality(DOMAIN t) + 1)}
      /\ up[0] = {n}
      /\ \A k \in Nat : up[k + 1] = {t[m].parent : m \in up[k] \cap DOMAIN t}
  BY <1>0 DEF Collects
<1> DEFINE T == {k \in Nat : up[k] \subseteq S}
<1>2. 1 \in T
  <2>1. up[0 + 1] = {t[m].parent : m \in up[0] \cap DOMAIN t}
    BY <1>1
  <2> QED BY <1>1, <2>1
<1>3. ASSUME NEW k \in Nat, k \in T PROVE k + 1 \in T
  BY <1>1, <1>3 DEF Upward
<1> HIDE DEF T
<1>4. \A k \in Nat : k >= 1 => k \in T
  BY <1>2, <1>3, Induct
<1>5. \A k \in 1..(Cardinality(DOMAIN t) + 1) : k \in T
  BY <1>4
<1> QED BY <1>1, <1>5 DEF T

\* Nothing is above what the tree does not have.
LEMMA NoAncestors ==
    ASSUME NEW t, NEW n, n \notin DOMAIN t
    PROVE  Ancestors(t, n) = {}
<1>1. Upward(t, {})
  BY DEF Upward
<1> QED BY <1>1, AncestorsLeast, Zenon

\* The first ancestor is the parent, and the ancestors go upward: as many steps as there
\* are nodes collect all.
LEMMA AncestorsUpward ==
    ASSUME NEW t, NEW n, IsFiniteSet(DOMAIN t)
    PROVE  /\ n \in DOMAIN t => t[n].parent \in Ancestors(t, n)
           /\ Upward(t, Ancestors(t, n))
<1> DEFINE N == Cardinality(DOMAIN t)
<1>0. N \in Nat
  BY FS_CardinalityType
<1> PICK up : Collects(t, n, up)
  BY AncestorSteps
<1>1. /\ Ancestors(t, n) = UNION {up[k] : k \in 1..(N + 1)}
      /\ up[0] = {n}
      /\ \A k \in Nat : up[k + 1] = {t[m].parent : m \in up[k] \cap DOMAIN t}
  BY DEF Collects
<1> HIDE DEF N
<1> DEFINE U(k) == UNION {up[i] : i \in 1..k}
           Closed(k) == (n \in DOMAIN t => t[n].parent \in U(k)) /\ Upward(t, U(k))
<1>2. up[1] = {t[m].parent : m \in {n} \cap DOMAIN t}
  <2>1. up[0 + 1] = {t[m].parent : m \in up[0] \cap DOMAIN t}
    BY <1>1
  <2> QED BY <1>1, <2>1
<1>3. n \in DOMAIN t => \A k \in Nat : k >= 1 => t[n].parent \in U(k)
  BY <1>2
<1>4. IsFiniteSet(Parents(t)) /\ Cardinality(Parents(t)) <= N
  BY ParentsFinite DEF N
<1>5. \A k \in Nat : k >= 1 => up[k] \subseteq Parents(t)
  <2>1. ASSUME NEW k \in Nat, k >= 1 PROVE up[k] \subseteq Parents(t)
    <3>1. k - 1 \in Nat /\ (k - 1) + 1 = k
      BY <2>1
    <3>2. up[k] = {t[m].parent : m \in up[k - 1] \cap DOMAIN t}
      BY <1>1, <3>1
    <3> QED BY <3>2 DEF Parents
  <2> QED BY <2>1
<1>6. \A k \in Nat : IsFiniteSet(U(k)) /\ Cardinality(U(k)) <= N /\ Cardinality(U(k)) \in Nat
  <2>1. ASSUME NEW k \in Nat
        PROVE  IsFiniteSet(U(k)) /\ Cardinality(U(k)) <= N /\ Cardinality(U(k)) \in Nat
    <3>1. \A i \in 1..k : up[i] \subseteq Parents(t)
      BY <1>5
    <3>2. U(k) \subseteq Parents(t)
      BY <3>1
    <3> HIDE DEF U
    <3>3. IsFiniteSet(U(k)) /\ Cardinality(U(k)) <= Cardinality(Parents(t))
      BY <1>4, <3>2, FS_Subset
    <3>4. Cardinality(U(k)) \in Nat /\ Cardinality(Parents(t)) \in Nat
      BY <1>4, <3>3, FS_CardinalityType
    <3> QED BY <1>0, <1>4, <3>3, <3>4
  <2> QED BY <2>1
<1>7. ASSUME NEW k \in Nat, k >= 1
      PROVE  U(k + 1) = U(k) \cup up[k + 1]
  <2>1. 1..(k + 1) = (1..k) \cup {k + 1}
    OBVIOUS
  <2> QED BY <2>1
<1>8. ASSUME NEW k \in Nat, k >= 1, Closed(k)
      PROVE  Closed(k + 1)
  <2>1. up[k] \subseteq U(k)
    <3>1. k \in 1..k
      BY <1>8
    <3> QED BY <3>1
  <2>2. up[k + 1] \subseteq U(k)
    BY <1>1, <1>8, <2>1 DEF Upward
  <2>3. U(k + 1) = U(k)
    BY <1>7, <1>8, <2>2
  <2> HIDE DEF U
  <2> QED BY <1>8, <2>3
<1>9. ASSUME NEW k \in Nat, k >= 1, U(k + 1) = U(k)
      PROVE  Closed(k)
  <2>1. ASSUME NEW x \in U(k) \cap DOMAIN t PROVE t[x].parent \in U(k)
    <3>1. PICK i \in 1..k : x \in up[i]
      OBVIOUS
    <3>2. t[x].parent \in up[i + 1]
      BY <1>1, <3>1
    <3>3. i + 1 \in 1..(k + 1)
      OBVIOUS
    <3>4. t[x].parent \in U(k + 1)
      BY <3>2, <3>3
    <3> QED BY <1>9, <3>4
  <2>2. Upward(t, U(k))
    BY <2>1 DEF Upward
  <2> QED BY <1>3, <1>9, <2>2
<1> DEFINE S == {k \in Nat : Closed(k) \/ Cardinality(U(k)) >= k}
<1>10. 1 \in S
  <2>1. CASE n \in DOMAIN t
    <3>1. t[n].parent \in U(1)
      BY <1>3, <2>1
    <3> HIDE DEF U
    <3>2. Cardinality(U(1)) # 0
      BY <1>6, <3>1, FS_EmptySet
    <3>3. Cardinality(U(1)) >= 1
      BY <1>6, <3>2
    <3> QED BY <3>3
  <2>2. CASE n \notin DOMAIN t
    <3>1. up[1] = {}
      BY <1>2, <2>2
    <3>2. U(1) = {}
      <4>1. \A i \in 1..1 : i = 1
        OBVIOUS
      <4> QED BY <3>1, <4>1
    <3> HIDE DEF U
    <3>3. Closed(1)
      BY <2>2, <3>2 DEF Upward
    <3> QED BY <3>3
  <2> QED BY <2>1, <2>2
<1>11. ASSUME NEW k \in Nat, k >= 1, k \in S PROVE k + 1 \in S
  <2>1. CASE Closed(k)
    BY <1>8, <1>11, <2>1
  <2>2. CASE ~Closed(k)
    <3>1. U(k) \subseteq U(k + 1) /\ U(k) # U(k + 1)
      BY <1>7, <1>9, <1>11, <2>2
    <3>2. Cardinality(U(k)) >= k
      BY <1>11, <2>2
    <3> HIDE DEF U
    <3>3. IsFiniteSet(U(k + 1)) /\ k + 1 \in Nat
      BY <1>6
    <3>4. /\ Cardinality(U(k)) <= Cardinality(U(k + 1))
          /\ Cardinality(U(k)) # Cardinality(U(k + 1))
      BY <3>1, <3>3, FS_Subset
    <3>5. Cardinality(U(k)) \in Nat /\ Cardinality(U(k + 1)) \in Nat
      BY <1>6, <3>3
    <3>6. Cardinality(U(k + 1)) >= k + 1
      BY <3>2, <3>4, <3>5
    <3> QED BY <3>3, <3>6
  <2> QED BY <2>1, <2>2
<1> HIDE DEF S
<1>12. \A k \in Nat : k >= 1 => k \in S
  BY <1>10, <1>11, Induct
<1>13. N + 1 \in S /\ N + 1 \in Nat
  BY <1>0, <1>12
<1>14. Closed(N + 1)
  <2> HIDE DEF U
  <2>1. Cardinality(U(N + 1)) \in Nat /\ Cardinality(U(N + 1)) <= N
    BY <1>6, <1>13
  <2> QED BY <1>0, <1>13, <2>1 DEF S
<1>15. Ancestors(t, n) = U(N + 1)
  BY <1>1
<1> HIDE DEF U
<1> QED BY <1>14, <1>15

\* A tree is finite and has no cycle.
Acyclic(t) ==
    /\ IsFiniteSet(DOMAIN t)
    /\ \A n \in DOMAIN t : n \notin Ancestors(t, n)

UpFrom(t, n) == {n} \cup Ancestors(t, n)

\* From a node on, all ancestors follow.
LEMMA UpFromUpward ==
    ASSUME NEW t, NEW n, IsFiniteSet(DOMAIN t)
    PROVE  Upward(t, UpFrom(t, n))
<1>1. n \in DOMAIN t => t[n].parent \in Ancestors(t, n)
  BY AncestorsUpward
<1>2. Upward(t, Ancestors(t, n))
  BY AncestorsUpward
<1> QED BY <1>1, <1>2 DEF Upward, UpFrom

\* The ancestors of a node are its parent and the ancestors of that.
LEMMA AncestorsOfParent ==
    ASSUME NEW t, NEW n, IsFiniteSet(DOMAIN t), n \in DOMAIN t
    PROVE  Ancestors(t, n) = UpFrom(t, t[n].parent)
<1> DEFINE p == t[n].parent
<1>1. p \in Ancestors(t, n) /\ Upward(t, Ancestors(t, n))
  BY AncestorsUpward
<1>2. p \in DOMAIN t => t[p].parent \in Ancestors(t, n)
  BY <1>1 DEF Upward
<1>3. Ancestors(t, p) \subseteq Ancestors(t, n)
  <2> HIDE DEF p
  <2> QED BY <1>1, <1>2, AncestorsLeast
<1>4. Upward(t, UpFrom(t, p)) /\ p \in UpFrom(t, p)
  <2> HIDE DEF p
  <2> QED BY UpFromUpward DEF UpFrom
<1>5. Ancestors(t, n) \subseteq UpFrom(t, p)
  <2>1. n \in DOMAIN t => t[n].parent \in UpFrom(t, p)
    BY <1>4
  <2> HIDE DEF p
  <2> QED BY <1>4, <2>1, AncestorsLeast
<1> QED BY <1>1, <1>3, <1>5 DEF UpFrom

\* Ancestors of ancestors are ancestors.
LEMMA AncestorsOfAncestor ==
    ASSUME NEW t, NEW n, IsFiniteSet(DOMAIN t), NEW x \in Ancestors(t, n)
    PROVE  Ancestors(t, x) \subseteq Ancestors(t, n)
<1>1. Upward(t, Ancestors(t, n))
  BY AncestorsUpward
<1>2. x \in DOMAIN t => t[x].parent \in Ancestors(t, n)
  BY <1>1 DEF Upward
<1> QED BY <1>1, <1>2, AncestorsLeast

\* A node that is placed where it is not above makes no cycle.
LEMMA PlacedAcyclic ==
    ASSUME NEW t, NEW op, Acyclic(t), op.node \notin UpFrom(t, op.parent)
    PROVE  Acyclic(Placed(t, op))
<1> DEFINE q == op.node
           p == op.parent
           u == Placed(t, op)
<1>1. IsFiniteSet(DOMAIN t) /\ \A n \in DOMAIN t : n \notin Ancestors(t, n)
  BY DEF Acyclic
<1>2. DOMAIN u = DOMAIN t \cup {q}
  BY DEF Placed
<1>3. u[q].parent = p
  BY DEF Placed
<1>4. \A n \in DOMAIN t : n # q => u[n] = t[n]
  BY DEF Placed
<1>5. q \notin UpFrom(t, p) /\ p \in UpFrom(t, p) /\ Upward(t, UpFrom(t, p))
  BY <1>1, UpFromUpward DEF UpFrom
<1> HIDE DEF u, q, p
<1>6. IsFiniteSet(DOMAIN u)
  BY <1>1, <1>2, FS_AddElement
<1>7. Upward(u, UpFrom(t, p))
  BY <1>2, <1>4, <1>5 DEF Upward
<1>8. q \notin Ancestors(u, q)
  BY <1>3, <1>5, <1>7, AncestorsLeast
<1>9. ASSUME NEW n \in DOMAIN t, n # q PROVE n \notin Ancestors(u, n)
  <2>1. /\ n \notin Ancestors(t, n)
        /\ t[n].parent \in Ancestors(t, n)
        /\ Upward(t, Ancestors(t, n))
        /\ u[n].parent = t[n].parent
    BY <1>1, <1>4, <1>9, AncestorsUpward
  <2>2. CASE q \notin Ancestors(t, n)
    <3>1. Upward(u, Ancestors(t, n))
      BY <1>2, <1>4, <2>1, <2>2 DEF Upward
    <3>2. Ancestors(u, n) \subseteq Ancestors(t, n)
      BY <2>1, <3>1, AncestorsLeast
    <3> QED BY <2>1, <3>2
  <2>3. CASE q \in Ancestors(t, n)
    <3> DEFINE B == {x \in Ancestors(t, n) : q \in UpFrom(t, x)}
               S == B \cup UpFrom(t, p)
    <3>1. \A x \in DOMAIN t : Ancestors(t, x) = UpFrom(t, t[x].parent)
      BY <1>1, AncestorsOfParent
    <3>2. u[n].parent \in S
      BY <2>1, <2>3, <3>1
    <3>3. ASSUME NEW x \in S, x \in DOMAIN u PROVE u[x].parent \in S
      <4>1. CASE x = q
        BY <1>3, <1>5, <4>1
      <4>2. CASE x # q /\ x \in B
        <5>1. x \in DOMAIN t /\ q \in Ancestors(t, x)
          BY <1>2, <3>3, <4>2 DEF UpFrom
        <5>2. t[x].parent \in Ancestors(t, n)
          BY <2>1, <4>2, <5>1 DEF Upward
        <5>3. t[x].parent \in B
          BY <3>1, <5>1, <5>2
        <5> QED BY <1>4, <4>2, <5>1, <5>3
      <4>3. CASE x # q /\ x \in UpFrom(t, p)
        BY <1>2, <1>4, <1>5, <3>3, <4>3 DEF Upward
      <4> QED BY <4>1, <4>2, <4>3
    <3>4. n \notin S
      <4>1. CASE n = p
        BY <1>5, <2>3, <4>1 DEF UpFrom
      <4>2. CASE n \in Ancestors(t, p)
        <5>1. Ancestors(t, n) \subseteq Ancestors(t, p)
          BY <1>1, <4>2, AncestorsOfAncestor
        <5> QED BY <1>5, <2>3, <5>1 DEF UpFrom
      <4> QED BY <2>1, <4>1, <4>2 DEF UpFrom
    <3> HIDE DEF S
    <3>5. Upward(u, S)
      BY <3>3 DEF Upward
    <3>6. Ancestors(u, n) \subseteq S
      BY <3>2, <3>5, AncestorsLeast
    <3> QED BY <3>4, <3>6
  <2> QED BY <2>2, <2>3
<1>10. \A n \in DOMAIN u : n \notin Ancestors(u, n)
  BY <1>2, <1>8, <1>9
<1>11. Acyclic(u)
  BY <1>6, <1>10 DEF Acyclic
<1> QED BY <1>11 DEF u

\* What would make a cycle is passed over.
LEMMA ApplyAcyclic ==
    ASSUME NEW t, NEW op, Acyclic(t)
    PROVE  Acyclic(Apply(t, op))
<1>1. CASE op.node \in UpFrom(t, op.parent)
  BY <1>1 DEF Apply, UpFrom
<1>2. CASE op.node \notin UpFrom(t, op.parent)
  <2>1. Apply(t, op) = Placed(t, op)
    BY <1>2 DEF Apply, UpFrom
  <2> QED BY <1>2, <2>1, PlacedAcyclic
<1> QED BY <1>1, <1>2

\* The first tree has nothing.
LEMMA EmptyAcyclic == Acyclic(<<>>)
<1>1. DOMAIN <<>> = {}
  OBVIOUS
<1> QED BY <1>1, FS_EmptySet DEF Acyclic

\* The root and the trash are no nodes.
LEMMA NamedNodes == Root \notin Node /\ Trash \notin Node /\ Root # Trash
<1>1. ASSUME NEW n \in 1..MaxDepth, Root \in [1..n -> Name] PROVE FALSE
  BY <1>1, TreeAssumption DEF Root
<1>2. ASSUME NEW n \in 1..MaxDepth, Trash \in [1..n -> Name] PROVE FALSE
  <2>1. Trash[1] = NoName /\ 1 \in 1..n
    BY TreeAssumption DEF Trash
  <2> QED BY <1>2, <2>1, TreeAssumption
<1>3. Root # Trash
  BY DEF Root, Trash
<1> QED BY <1>1, <1>2, <1>3 DEF Node

-----------------------------------------------------------------------------
(***************************************************************************)
(* Where the nodes of a tree come from.                                    *)
(***************************************************************************)

\* Operations that are not passed over: removals, and those on nodes below which nobody has put
\* anything.
Sure(ops, op) == op.parent = Trash \/ \A other \in ops : other.parent # op.node

\* op put n where it is; what is certain not to be passed over was before.
Source(ops, k, t, n, op) ==
    /\ op \in ops /\ op.node = n /\ op.time <= k
    /\ t[n].parent = op.parent /\ t[n].meta = op.meta
    /\ \A other \in ops :
        other.node = n /\ other.time <= k /\ Sure(ops, other) => other.time <= op.time

Sourced(ops, k, t) ==
    /\ Acyclic(t)
    /\ \A n \in DOMAIN t : \E op \in ops : Source(ops, k, t, n, op)
    /\ \A op \in ops : op.time <= k /\ Sure(ops, op) => op.node \in DOMAIN t

\* They make no cycle in any tree that the operations give.
LEMMA SureIsPlaced ==
    ASSUME NEW ops, ops \subseteq Operation, NEW k, NEW t, Sourced(ops, k, t),
           NEW op \in ops, Sure(ops, op)
    PROVE  op.node \notin UpFrom(t, op.parent)
<1>1. op.node \in Node /\ op.node # Trash
  BY NamedNodes DEF Operation
<1>2. CASE op.parent = Trash
  <2>1. Trash \notin DOMAIN t
    BY NamedNodes DEF Sourced, Source, Operation
  <2>2. Ancestors(t, Trash) = {}
    BY <2>1, NoAncestors
  <2> QED BY <1>1, <1>2, <2>2 DEF UpFrom
<1>3. CASE \A other \in ops : other.parent # op.node
  <2> DEFINE S == {other.parent : other \in ops}
  <2>1. \A n \in DOMAIN t : t[n].parent \in S
    BY DEF Sourced, Source
  <2>2. op.node \notin S
    BY <1>3
  <2> HIDE DEF S
  <2>3. Upward(t, S)
    BY <2>1 DEF Upward
  <2>4. Ancestors(t, op.parent) \subseteq S
    BY <2>1, <2>3, AncestorsLeast
  <2> QED BY <1>3, <2>2, <2>4 DEF UpFrom
<1> QED BY <1>2, <1>3 DEF Sure

\* One more operation.
LEMMA SourcedApply ==
    ASSUME NEW ops, ops \subseteq Operation, Timed(ops), NEW k \in Nat, NEW t,
           Sourced(ops, k, t), NEW op \in ops, op.time = k + 1
    PROVE  Sourced(ops, k + 1, Apply(t, op))
<1>1. \A other \in ops : other.time \in Nat
  BY TreeAssumption DEF Timed
<1>2. \A other \in ops : other.time <= k + 1 => other.time <= k \/ other = op
  BY <1>1 DEF Timed
<1>3. \A other \in ops : other.time <= k => other.time <= k + 1
  BY <1>1
<1>4. CASE op.node \in UpFrom(t, op.parent)
  <2>1. Apply(t, op) = t
    BY <1>4 DEF Apply, UpFrom
  <2>2. ~Sure(ops, op)
    BY <1>4, SureIsPlaced
  <2>3. ASSUME NEW n \in DOMAIN t, NEW o \in ops, Source(ops, k, t, n, o)
        PROVE  Source(ops, k + 1, t, n, o)
    BY <1>2, <1>3, <2>2, <2>3 DEF Source
  <2>4. \A n \in DOMAIN t : \E o \in ops : Source(ops, k + 1, t, n, o)
    BY <2>3 DEF Sourced
  <2>5. \A o \in ops : o.time <= k + 1 /\ Sure(ops, o) => o.node \in DOMAIN t
    BY <1>2, <2>2 DEF Sourced
  <2> QED BY <2>1, <2>4, <2>5 DEF Sourced
<1>5. CASE op.node \notin UpFrom(t, op.parent)
  <2> DEFINE u == Placed(t, op)
  <2>1. Apply(t, op) = u
    BY <1>5 DEF Apply, UpFrom
  <2>2. Acyclic(u)
    BY <1>5, PlacedAcyclic DEF Sourced
  <2>3. /\ DOMAIN u = DOMAIN t \cup {op.node}
        /\ u[op.node].parent = op.parent /\ u[op.node].meta = op.meta
        /\ \A n \in DOMAIN t : n # op.node => u[n] = t[n]
    BY DEF Placed
  <2> HIDE DEF u
  <2>4. Source(ops, k + 1, u, op.node, op)
    BY <1>1, <2>3 DEF Source
  <2>5. ASSUME NEW n \in DOMAIN t, n # op.node, NEW o \in ops, Source(ops, k, t, n, o)
        PROVE  Source(ops, k + 1, u, n, o)
    <3>1. u[n] = t[n]
      BY <2>3, <2>5
    <3> QED BY <1>2, <1>3, <2>5, <3>1 DEF Source
  <2>6. \A n \in DOMAIN u : \E o \in ops : Source(ops, k + 1, u, n, o)
    BY <2>3, <2>4, <2>5 DEF Sourced
  <2>7. \A o \in ops : o.time <= k + 1 /\ Sure(ops, o) => o.node \in DOMAIN u
    BY <1>2, <2>3 DEF Sourced
  <2> QED BY <2>1, <2>2, <2>6, <2>7 DEF Sourced
<1> QED BY <1>4, <1>5

\* At any time.
LEMMA AfterEachSourced ==
    ASSUME NEW ops, ops \subseteq Operation, Timed(ops)
    PROVE  \A k \in 0..MaxOps : Sourced(ops, k, AfterEach(ops)[k])
<1> DEFINE F == AfterEach(ops)
<1>1. /\ F[0] = <<>>
      /\ \A k \in 1..MaxOps : F[k] = IF \E op \in ops : op.time = k
                                THEN Apply(F[k - 1], CHOOSE op \in ops : op.time = k)
                                ELSE F[k - 1]
  BY AfterEachFollows
<1> HIDE DEF F
<1>2. \A op \in ops : op.time \in Nat /\ op.time >= 1
  BY TreeAssumption DEF Timed
<1> DEFINE S == {k \in Nat : k <= MaxOps => Sourced(ops, k, F[k])}
<1>3. 0 \in S
  <2>1. DOMAIN <<>> = {}
    OBVIOUS
  <2>2. \A op \in ops : ~(op.time <= 0)
    BY <1>2
  <2>3. Sourced(ops, 0, <<>>)
    BY <2>1, <2>2, EmptyAcyclic DEF Sourced
  <2> QED BY <1>1, <2>3
<1>4. ASSUME NEW k \in Nat, k \in S PROVE k + 1 \in S
  <2> SUFFICES ASSUME k + 1 <= MaxOps PROVE Sourced(ops, k + 1, F[k + 1])
    OBVIOUS
  <2>1. k + 1 \in 1..MaxOps /\ (k + 1) - 1 = k /\ Sourced(ops, k, F[k])
    BY <1>4, TreeAssumption
  <2>2. CASE \E op \in ops : op.time = k + 1
    <3> DEFINE op == CHOOSE op \in ops : op.time = k + 1
    <3>1. op \in ops /\ op.time = k + 1
      BY <2>2, Zenon
    <3>2. F[k + 1] = Apply(F[k], op)
      BY <1>1, <2>1, <2>2
    <3> HIDE DEF op
    <3> QED BY <2>1, <3>1, <3>2, SourcedApply
  <2>3. CASE ~\E op \in ops : op.time = k + 1
    <3>1. F[k + 1] = F[k]
      BY <1>1, <2>1, <2>3
    <3>2. \A op \in ops : op.time <= k + 1 <=> op.time <= k
      BY <1>2, <2>3
    <3>3. ASSUME NEW n \in DOMAIN F[k], NEW o \in ops, Source(ops, k, F[k], n, o)
          PROVE  Source(ops, k + 1, F[k], n, o)
      BY <3>2, <3>3 DEF Source
    <3>4. Sourced(ops, k + 1, F[k])
      BY <2>1, <3>2, <3>3 DEF Sourced
    <3> QED BY <3>1, <3>4
  <2> QED BY <2>2, <2>3
<1> HIDE DEF S
<1>5. \A k \in Nat : k >= 0 => k \in S
  BY <1>3, <1>4, Induct
<1>6. \A k \in 0..MaxOps : Sourced(ops, k, F[k])
  BY <1>5, TreeAssumption DEF S
<1> QED BY <1>6 DEF F

\* In the end.
LEMMA TreeSourced ==
    ASSUME NEW ops, ops \subseteq Operation, Timed(ops)
    PROVE  /\ Acyclic(TreeOf(ops))
           /\ \A n \in DOMAIN TreeOf(ops) : \E op \in ops : Source(ops, MaxOps, TreeOf(ops), n, op)
           /\ \A op \in ops : Sure(ops, op) => op.node \in DOMAIN TreeOf(ops)
<1>1. Sourced(ops, MaxOps, TreeOf(ops))
  BY AfterEachSourced, TreeAssumption DEF TreeOf
<1>2. \A op \in ops : op.time <= MaxOps
  BY TreeAssumption DEF Timed
<1> QED BY <1>1, <1>2 DEF Sourced

-----------------------------------------------------------------------------
(***************************************************************************)
(* What is known of every operation: the call that made it was allowed in  *)
(* the tree of what its author had.                                        *)
(***************************************************************************)
Allowed(t, n, parent, meta, call) ==
    /\ n \in Node /\ parent \in Parent /\ meta \in Meta
    /\ call \in {"create", "delete", "rename", "write"}
    /\ meta.kind # "file" => meta.chunks = {}
    /\ call = "create" => meta.chunks = {} /\ ChildIds(t, parent, meta.name) = {}
    /\ call # "create" => n \in DOMAIN t /\ t[n].parent # Trash
    /\ call = "delete" => parent = Trash
    /\ call \in {"delete", "rename"} => meta.chunks = t[n].meta.chunks
    /\ call = "rename" => NameIsFree(t, parent, meta.name, n)
    /\ call = "write" => parent = t[n].parent /\ meta.name = t[n].meta.name

SeenBy(ops, op) == {old \in ops : old.time \in op.seen}

Recorded(ops, op) ==
    /\ op \in Operation
    /\ op.seen \subseteq {old.time : old \in ops}
    /\ \A s \in op.seen : s < op.time
    /\ Allowed(TreeOf(SeenBy(ops, op)), op.node, op.parent, op.meta, op.call)

History == \A op \in Log!Known : Recorded(Log!Known, op)

\* Operations that come later change nothing about those before.
LEMMA RecordedStays ==
    ASSUME NEW ops, NEW more, NEW op, Recorded(ops, op), ops \subseteq more,
           \A new \in more \ ops : \A old \in ops : old.time # new.time
    PROVE  Recorded(more, op)
<1>1. SeenBy(more, op) = SeenBy(ops, op)
  BY DEF SeenBy, Recorded
<1> QED BY <1>1 DEF Recorded

\* Those of Prelude made nodes of different names.
LEMMA InitHistory == Init => History
<1> SUFFICES ASSUME Init, NEW op \in Log!Known PROVE Recorded(Log!Known, op)
  BY DEF History
<1>1. Log!Known = Prelude /\ op \in Prelude
  BY DEF Init, Log!Known
<1>2. Prelude \subseteq Operation /\ Timed(Prelude)
  BY PreludeAssumption DEF Timed, Operation
<1>3. /\ op \in Operation
      /\ op.call = "create" /\ op.meta.chunks = {}
      /\ op.seen = {old.time : old \in {o \in Prelude : o.time < op.time}}
  BY <1>1, <1>2, PreludeAssumption
<1>4. op.node \in Node /\ op.parent \in Parent /\ op.meta \in Meta
  BY <1>3 DEF Operation
<1> DEFINE T == TreeOf(SeenBy(Prelude, op))
<1>5. ChildIds(T, op.parent, op.meta.name) = {}
  <2>1. SeenBy(Prelude, op) \subseteq Prelude
    BY DEF SeenBy
  <2>2. SeenBy(Prelude, op) \subseteq Operation /\ Timed(SeenBy(Prelude, op))
    BY <1>2, <2>1 DEF Timed
  <2>3. \A n \in DOMAIN T :
            \E o \in SeenBy(Prelude, op) : Source(SeenBy(Prelude, op), MaxOps, T, n, o)
    BY <2>2, TreeSourced
  <2>4. ASSUME NEW n \in DOMAIN T, T[n].parent = op.parent, T[n].meta.name = op.meta.name
        PROVE  FALSE
    <3>1. PICK o \in SeenBy(Prelude, op) : T[n].parent = o.parent /\ T[n].meta = o.meta
      BY <2>3 DEF Source
    <3>2. o = op
      BY <1>1, <2>1, <2>4, <3>1, PreludeAssumption
    <3>3. op.time < op.time /\ op.time \in Nat
      <4>1. op.time \in op.seen
        BY <3>1, <3>2 DEF SeenBy
      <4>2. PICK o2 \in Prelude : o2.time < op.time /\ o2.time = op.time
        BY <1>3, <4>1
      <4> QED BY <1>1, <1>2, <4>2, TreeAssumption DEF Timed
    <3> QED BY <3>3
  <2> HIDE DEF T
  <2> QED BY <2>4 DEF ChildIds, Children
<1> HIDE DEF T
<1>6. Allowed(T, op.node, op.parent, op.meta, op.call)
  BY <1>3, <1>4, <1>5 DEF Allowed
<1> QED BY <1>1, <1>3, <1>6 DEF Recorded, T

\* Logs and trees have the types they should.
LEMMA LogTyped ==
    ASSUME UpToDate, History
    PROVE  /\ Log!Known \subseteq Operation
           /\ \A p \in Peer :
                log[p] \subseteq Log!Known /\ log[p] \subseteq Operation /\ Timed(log[p])
<1>1. Log!Known \subseteq Operation
  BY DEF History, Recorded
<1>2. \A p \in Peer : log[p] \subseteq Log!Known
  BY DEF Log!Known
<1>3. \A p \in Peer : Timed(log[p])
  BY <1>2 DEF UpToDate, Timed
<1> QED BY <1>1, <1>2, <1>3

\* Whatever is in a tree some operation has put there.
LEMMA TreeTyped ==
    ASSUME UpToDate, History, NEW p \in Peer, NEW n \in DOMAIN tree[p]
    PROVE  /\ n \in Node
           /\ tree[p][n].parent \in Parent
           /\ tree[p][n].meta \in Meta
           /\ tree[p][n].meta.kind # "file" => tree[p][n].meta.chunks = {}
<1>1. tree[p] = TreeOf(log[p])
  BY DEF UpToDate
<1>2. PICK op \in log[p] : Source(log[p], MaxOps, TreeOf(log[p]), n, op)
  BY <1>1, LogTyped, TreeSourced
<1>3. op.node = n /\ tree[p][n].parent = op.parent /\ tree[p][n].meta = op.meta
  BY <1>1, <1>2 DEF Source
<1>4. Recorded(Log!Known, op)
  BY LogTyped DEF History
<1> QED BY <1>3, <1>4 DEF Recorded, Allowed

\* A call that its author's tree allows goes down in history.
LEMMA MutateHistory ==
    ASSUME UpToDate, History, NEW p \in Peer, NEW n, NEW parent, NEW meta, NEW call,
           Mutate(p, n, parent, meta, call), Allowed(tree[p], n, parent, meta, call)
    PROVE  History'
<1>1. PICK k \in 1..MaxOps :
          LET op == [time |-> k, actor |-> p, node |-> n, parent |-> parent, meta |-> meta,
                     call |-> call, seen |-> {old.time : old \in log[p]}]
          IN  Log!Make(p, op)
  BY DEF Mutate
<1> DEFINE op == [time |-> k, actor |-> p, node |-> n, parent |-> parent, meta |-> meta,
                  call |-> call, seen |-> {old.time : old \in log[p]}]
           seen == {old.time : old \in log[p]}
<1>2. Log!Make(p, op)
  BY <1>1
<1>3. /\ op.time = k /\ op.seen = seen
      /\ op.node = n /\ op.parent = parent /\ op.meta = meta /\ op.call = call
  OBVIOUS
<1>4. /\ Log!Known \subseteq Operation
      /\ log[p] \subseteq Log!Known
      /\ \A o \in Log!Known : o.time \in 1..MaxOps
  BY LogTyped DEF UpToDate, Timed
<1>5. op \in Operation
  <2>1. seen \subseteq 1..MaxOps
    BY <1>4
  <2> HIDE DEF seen
  <2>2. op.seen = seen
    BY <1>3
  <2> QED BY <2>1 DEF Operation, Allowed, seen
<1> HIDE DEF op
<1>6. /\ \A old \in Log!Known : old.time < k \/ k < old.time
      /\ \A old \in log[p] : old.time < k
      /\ log' = [log EXCEPT ![p] = @ \cup {op}]
  BY <1>2, <1>3 DEF Log!Make, Earlier
<1>7. Log!Known' = Log!Known \cup {op}
  BY <1>6 DEF Log!Known, UpToDate
<1>8. \A old \in Log!Known : old.time # k
  BY <1>4, <1>6, TreeAssumption
<1>9. ASSUME NEW old \in Log!Known PROVE Recorded(Log!Known', old)
  <2>1. Recorded(Log!Known, old)
    BY DEF History
  <2> QED BY <1>3, <1>7, <1>8, <2>1, RecordedStays
<1>10. Recorded(Log!Known', op)
  <2>1. SeenBy(Log!Known', op) = log[p]
    <3>1. \A o \in Log!Known : o.time \in seen <=> o \in log[p]
      BY <1>4 DEF UpToDate, Timed
    <3>2. k \notin seen
      BY <1>4, <1>8
    <3> HIDE DEF seen
    <3> QED BY <1>3, <1>4, <1>7, <3>1, <3>2 DEF SeenBy
  <2>2. tree[p] = TreeOf(log[p])
    BY DEF UpToDate
  <2>3. op.seen \subseteq {old.time : old \in Log!Known'}
    BY <1>3, <1>4, <1>7
  <2>4. \A s \in op.seen : s < op.time
    BY <1>3, <1>6
  <2> QED BY <1>3, <1>5, <2>1, <2>2, <2>3, <2>4 DEF Recorded
<1> QED BY <1>7, <1>9, <1>10 DEF History

\* Users know directories that are there or have been.
LEMMA HeldTyped ==
    ASSUME UpToDate, History, NEW p \in Peer, NEW d \in Held(p)
    PROVE  d \in Node \cup {Root} /\ d \in Parent
<1> QED BY TreeTyped DEF Held, Parent

\* The id of a new node.
LEMMA NewNode ==
    ASSUME NEW d \in Node \cup {Root}, NEW name \in Name, Len(d) < MaxDepth
    PROVE  Append(d, name) \in Node
<1>1. PICK i \in 0..MaxDepth : d \in [1..i -> Name]
  <2>1. CASE d = Root
    <3>1. Root \in [1..0 -> Name]
      BY DEF Root
    <3> QED BY <2>1, <3>1, TreeAssumption
  <2>2. CASE d \in Node
    <3>1. \A i \in 1..MaxDepth : i \in 0..MaxDepth
      BY TreeAssumption
    <3> QED BY <2>2, <3>1 DEF Node
  <2> QED BY <2>1, <2>2
<1>2. i \in Nat /\ d \in Seq(Name) /\ Len(d) = i
  BY <1>1, TreeAssumption
<1>3. i + 1 \in 1..MaxDepth
  BY <1>2, TreeAssumption
<1> DEFINE new == Append(d, name)
<1>4. new \in Seq(Name) /\ Len(new) = i + 1
  BY <1>2
<1> HIDE DEF new
<1>5. new \in [1..(i + 1) -> Name]
  BY <1>4
<1> QED BY <1>3, <1>5 DEF Node, new

\* Mkdir, Create and Symlink find no child of that name.
LEMMA CreateHistory ==
    ASSUME UpToDate, History, NEW p \in Peer, NEW d \in Held(p), NEW name \in Name,
           NEW kind \in {"dir", "file", "link"}, CreateNode(p, d, name, kind)
    PROVE  History'
<1> DEFINE meta == [kind |-> kind, name |-> name, chunks |-> {}]
<1>1. /\ ChildIds(tree[p], d, name) = {}
      /\ Len(d) < MaxDepth
      /\ Mutate(p, Append(d, name), d, meta, "create")
  BY DEF CreateNode
<1>2. d \in Parent /\ Append(d, name) \in Node
  BY <1>1, HeldTyped, NewNode
<1>3. meta \in Meta /\ meta.chunks = {} /\ meta.name = name
  BY DEF Meta
<1> HIDE DEF meta
<1>4. Allowed(tree[p], Append(d, name), d, meta, "create")
  BY <1>1, <1>2, <1>3 DEF Allowed
<1> QED BY <1>1, <1>4, MutateHistory

\* Unlink and Rmdir find a node that is not in the trash.
LEMMA DeleteHistory ==
    ASSUME UpToDate, History, NEW p \in Peer, NEW n \in DOMAIN tree[p],
           tree[p][n].parent # Trash, DeleteNode(p, n)
    PROVE  History'
<1>1. Mutate(p, n, Trash, tree[p][n].meta, "delete")
  BY DEF DeleteNode
<1>2. Allowed(tree[p], n, Trash, tree[p][n].meta, "delete")
  BY TreeTyped DEF Allowed, Parent
<1> QED BY <1>1, <1>2, MutateHistory

\* The root is in no tree.
LEMMA InTree ==
    ASSUME UpToDate, History, NEW p \in Peer, NEW n \in DOMAIN tree[p], HasMetadata(tree[p], n)
    PROVE  tree[p][n].parent # Trash /\ Kind(tree[p], n) = tree[p][n].meta.kind
<1>1. n # Root
  BY TreeTyped, NamedNodes
<1> QED BY <1>1 DEF HasMetadata, Kind

\* Rename finds nothing in the way and keeps the contents.
LEMMA RenameHistory ==
    ASSUME UpToDate, History, NEW p \in Peer, NEW d, NEW name,
           NEW d2 \in Held(p), NEW name2 \in Name, Rename(p, d, name, d2, name2)
    PROVE  History'
<1>1. PICK n \in ChildIds(tree[p], d, name) :
        /\ NameIsFree(tree[p], d2, name2, n)
        /\ HasMetadata(tree[p], n)
        /\ Mutate(p, n, d2, Renamed(tree[p][n].meta, name2), "rename")
  BY DEF Rename
<1> DEFINE old == tree[p][n].meta
           meta == Renamed(old, name2)
<1>2. n \in DOMAIN tree[p]
  BY DEF ChildIds, Children
<1>3. n \in Node /\ old \in Meta /\ (old.kind # "file" => old.chunks = {})
  BY <1>2, TreeTyped
<1>4. meta \in Meta /\ meta.name = name2 /\ meta.kind = old.kind /\ meta.chunks = old.chunks
  <2> HIDE DEF old
  <2> QED BY <1>3 DEF Meta, Renamed
<1>5. tree[p][n].parent # Trash /\ d2 \in Parent
  BY <1>1, <1>2, InTree, HeldTyped
<1> HIDE DEF meta
<1>6. Allowed(tree[p], n, d2, meta, "rename")
  BY <1>1, <1>2, <1>3, <1>4, <1>5 DEF Allowed
<1> QED BY <1>1, <1>6, MutateHistory DEF meta

\* TruncateFile and WriteFile leave the file where it is.
LEMMA WriteHistory ==
    ASSUME UpToDate, History, NEW p \in Peer, NEW n \in DOMAIN tree[p], IsFile(p, n),
           NEW chunks \in SUBSET Chunk,
           Mutate(p, n, tree[p][n].parent, [tree[p][n].meta EXCEPT !.chunks = chunks], "write")
    PROVE  History'
<1> DEFINE old == tree[p][n].meta
           meta == [old EXCEPT !.chunks = chunks]
<1>1. n \in Node /\ old \in Meta /\ tree[p][n].parent \in Parent
  BY TreeTyped
<1>2. tree[p][n].parent # Trash /\ old.kind = "file"
  BY InTree DEF IsFile
<1>3. meta \in Meta /\ meta.name = old.name /\ meta.kind = old.kind
  <2> HIDE DEF old
  <2> QED BY <1>1 DEF Meta
<1> HIDE DEF meta
<1>4. Allowed(tree[p], n, tree[p][n].parent, meta, "write")
  BY <1>1, <1>2, <1>3 DEF Allowed
<1> QED BY <1>4, MutateHistory DEF meta

\* Whatever happens, only what is allowed becomes known.
LEMMA NextHistory == UpToDate /\ History /\ [Next]_vars => History'
<1> SUFFICES ASSUME UpToDate, History, [Next]_vars PROVE History'
  OBVIOUS
<1>1. ASSUME NEW p \in Peer, NEW d \in Held(p), NEW name \in Name,
             Mkdir(p, d, name) \/ Create(p, d, name) \/ Symlink(p, d, name)
      PROVE  History'
  BY <1>1, CreateHistory DEF Mkdir, Create, Symlink
<1>2. ASSUME NEW p \in Peer, NEW d, NEW name, Unlink(p, d, name) \/ Rmdir(p, d, name)
      PROVE  History'
  <2>1. PICK n \in ChildIds(tree[p], d, name) : HasMetadata(tree[p], n) /\ DeleteNode(p, n)
    BY <1>2 DEF Unlink, Rmdir
  <2>2. n \in DOMAIN tree[p]
    BY DEF ChildIds, Children
  <2> QED BY <2>1, <2>2, InTree, DeleteHistory
<1>3. ASSUME NEW p \in Peer, NEW d, NEW name, NEW d2 \in Held(p), NEW name2 \in Name,
             Rename(p, d, name, d2, name2)
      PROVE  History'
  BY <1>3, RenameHistory
<1>4. ASSUME NEW p \in Peer, NEW n \in DOMAIN tree[p], TruncateFile(p, n) \/ WriteFile(p, n)
      PROVE  History'
  <2>1. IsFile(p, n) /\ \E chunks \in (SUBSET Chunk) \cup SUBSET tree[p][n].meta.chunks :
            Mutate(p, n, tree[p][n].parent, [tree[p][n].meta EXCEPT !.chunks = chunks], "write")
    BY <1>4 DEF TruncateFile, WriteFile
  <2>2. tree[p][n].meta.chunks \subseteq Chunk
    BY TreeTyped DEF Meta
  <2>3. PICK chunks \in SUBSET Chunk :
            Mutate(p, n, tree[p][n].parent, [tree[p][n].meta EXCEPT !.chunks = chunks], "write")
    BY <2>1, <2>2
  <2> QED BY <2>1, <2>3, WriteHistory
<1>5. ASSUME NEW p \in Peer, NEW ops, ApplyOperations(p, ops)
      PROVE  History'
  <2>1. ops \subseteq Log!Known /\ log' = [log EXCEPT ![p] = @ \cup ops]
    BY <1>5 DEF ApplyOperations, Log!Learn
  <2>2. Log!Known' = Log!Known
    BY <2>1 DEF Log!Known, UpToDate
  <2> QED BY <2>2 DEF History
<1>6. CASE UNCHANGED vars
  BY <1>6 DEF vars, History, Log!Known
<1> QED BY <1>1, <1>2, <1>3, <1>4, <1>5, <1>6 DEF Next

\* What the other theorems rest on: trees are up to date, and every operation was allowed.
THEOREM TreesFollowHistory == Spec => [](UpToDate /\ History)
<1>1. Init => UpToDate /\ History
  BY InitUpToDate, InitHistory
<1>2. UpToDate /\ History /\ [Next]_vars => (UpToDate /\ History)'
  BY NextUpToDate, NextHistory
<1> QED BY <1>1, <1>2, PTL DEF Spec

\* Logs hold operations, trees hold nodes of the types they should have, and no node is above itself,
\* whatever moves have met.
THEOREM TreesAreTyped == Spec => []TypeOK
<1>1. ASSUME UpToDate, History PROVE TypeOK
  <2>1. log \in [Peer -> SUBSET Operation]
    <3>1. \A p \in Peer : log[p] \in SUBSET Operation
      BY <1>1, LogTyped
    <3>2. log = [p \in Peer |-> log[p]]
      BY <1>1 DEF UpToDate
    <3> QED BY <3>1, <3>2
  <2>2. ASSUME NEW p \in Peer, NEW n \in DOMAIN tree[p]
        PROVE  /\ n \in Node
               /\ tree[p][n].parent \in Parent
               /\ tree[p][n].meta \in Meta
               /\ n \notin Ancestors(tree[p], n)
    <3>1. Acyclic(TreeOf(log[p])) /\ tree[p] = TreeOf(log[p])
      BY <1>1, LogTyped, TreeSourced DEF UpToDate
    <3>2. n \notin Ancestors(tree[p], n)
      BY <3>1 DEF Acyclic
    <3> QED BY <1>1, <3>2, TreeTyped
  <2> QED BY <2>1, <2>2 DEF TypeOK
<1> QED BY <1>1, TreesFollowHistory, PTL

-----------------------------------------------------------------------------
(***************************************************************************)
(* Removals and writes.                                                    *)
(***************************************************************************)

\* The operations that the author of op had, and the tree that the author saw.
Had(op) == SeenBy(Log!Known, op)
Saw(op) == TreeOf(Had(op))

\* A peer that has all that the authors had can follow what they saw.
LEMMA AuthorsView ==
    ASSUME UpToDate, History, NEW p \in Peer, IsClosed(p), NEW op \in log[p]
    PROVE  /\ Had(op) \subseteq log[p]
           /\ \A old \in log[p] : old.time \in op.seen => old \in Had(op)
           /\ \A old \in Had(op) : old.time < op.time
           /\ Allowed(Saw(op), op.node, op.parent, op.meta, op.call)
           /\ Acyclic(Saw(op))
           /\ \A n \in DOMAIN Saw(op) :
                \E old \in Had(op) : Source(Had(op), MaxOps, Saw(op), n, old)
           /\ \A old \in Had(op) : Sure(Had(op), old) => old.node \in DOMAIN Saw(op)
<1>1. /\ Log!Known \subseteq Operation /\ log[p] \subseteq Log!Known
      /\ Timed(Log!Known)
  BY LogTyped DEF UpToDate
<1>2. Recorded(Log!Known, op)
  BY <1>1 DEF History
<1>3. Had(op) \subseteq log[p]
  BY <1>1 DEF Had, SeenBy, IsClosed, Timed
<1>4. \A old \in log[p] : old.time \in op.seen => old \in Had(op)
  BY <1>1 DEF Had, SeenBy
<1>5. \A old \in Had(op) : old.time < op.time
  BY <1>2 DEF Had, SeenBy, Recorded
<1>6. Had(op) \subseteq Operation /\ Timed(Had(op))
  BY <1>1 DEF Had, SeenBy, Timed
<1>7. Allowed(Saw(op), op.node, op.parent, op.meta, op.call)
  BY <1>2 DEF Recorded, Saw, Had
<1> QED BY <1>3, <1>4, <1>5, <1>6, <1>7, TreeSourced DEF Saw

\* What a peer's tree comes from.
LEMMA OwnView ==
    ASSUME UpToDate, History, NEW p \in Peer
    PROVE  /\ Acyclic(tree[p])
           /\ \A n \in DOMAIN tree[p] : \E op \in log[p] : Source(log[p], MaxOps, tree[p], n, op)
           /\ \A op \in log[p] : Sure(log[p], op) => op.node \in DOMAIN tree[p]
<1>1. tree[p] = TreeOf(log[p]) /\ log[p] \subseteq Operation /\ Timed(log[p])
  BY LogTyped DEF UpToDate
<1> QED BY <1>1, TreeSourced

\* Times are numbers, and no two operations have one.
LEMMA TimesDiffer ==
    ASSUME UpToDate, NEW p \in Peer
    PROVE  /\ \A op \in log[p] : op.time \in Nat /\ op.time <= MaxOps
           /\ \A op1, op2 \in log[p] : op1.time = op2.time => op1 = op2
<1>1. log[p] \subseteq Log!Known
  BY DEF Log!Known
<1> QED BY <1>1, TreeAssumption DEF UpToDate, Timed

\* Some operation is the first of its kind.
LEMMA Earliest ==
    ASSUME UpToDate, NEW p \in Peer, NEW S, S \subseteq log[p], S # {}
    PROVE  \E op \in S : \A other \in S : ~(other.time < op.time)
<1> DEFINE T == {op.time : op \in S}
<1>1. T \in SUBSET Nat /\ T # {}
  BY TimesDiffer
<1>2. PICK m \in T : \A k \in T : m <= k
  <2> HIDE DEF T
  <2> QED BY <1>1, LeastElement
<1>3. PICK op \in S : op.time = m
  BY <1>2
<1>4. ASSUME NEW other \in S, other.time < op.time PROVE FALSE
  <2>1. other.time \in T /\ other.time \in Nat /\ op.time \in Nat
    BY <1>1
  <2> QED BY <1>2, <1>3, <1>4, <2>1
<1> QED BY <1>4

\* The first operation after a removal that brings the node back would have been made by somebody
\* who saw it in the trash.
LEMMA RemovalLasts == UpToDate /\ History => RemovedStaysRemoved
<1> SUFFICES ASSUME UpToDate, History, NEW p \in Peer, IsClosed(p), NEW gone \in log[p],
                    gone.call = "delete", tree[p][gone.node].parent # Trash,
                    \A op \in After(p, gone) : op.call # "create" /\ gone.time \in op.seen
             PROVE  FALSE
  BY DEF RemovedStaysRemoved
<1> DEFINE n == gone.node
           Back == {op \in After(p, gone) : op.parent # Trash}
<1>1. gone.parent = Trash
  BY AuthorsView DEF Allowed
<1>2. \A ops : gone \in ops => Sure(ops, gone)
  BY <1>1 DEF Sure
<1>3. Back # {}
  <2>1. PICK op \in log[p] : Source(log[p], MaxOps, tree[p], n, op)
    BY <1>2, OwnView
  <2>2. op.node = n /\ op.parent # Trash /\ gone.time <= op.time
    BY <1>2, <2>1, TimesDiffer DEF Source
  <2>3. gone.time < op.time
    <3>1. op # gone
      BY <1>1, <2>2
    <3> QED BY <2>2, <3>1, TimesDiffer
  <2> QED BY <2>2, <2>3 DEF After, On
<1>4. Back \subseteq log[p]
  BY DEF After, On
<1>5. PICK back \in Back : \A other \in Back : ~(other.time < back.time)
  <2> HIDE DEF Back
  <2> QED BY <1>3, <1>4, Earliest
<1>6. /\ back \in log[p] /\ back.node = n /\ back.parent # Trash /\ gone.time < back.time
      /\ back.call # "create" /\ gone \in Had(back)
  BY AuthorsView DEF After, On
<1>7. n \in DOMAIN Saw(back) /\ Saw(back)[n].parent # Trash
  BY <1>6, AuthorsView DEF Allowed
<1>8. PICK op \in Had(back) : Source(Had(back), MaxOps, Saw(back), n, op)
  BY <1>6, <1>7, AuthorsView
<1>9. op \in log[p] /\ op.node = n /\ op.parent # Trash /\ op.time < back.time
  BY <1>6, <1>7, <1>8, AuthorsView DEF Source
<1>10. gone.time <= op.time
  BY <1>2, <1>6, <1>8, TimesDiffer DEF Source
<1>11. gone.time < op.time
  <2>1. op # gone
    BY <1>1, <1>9
  <2> QED BY <1>9, <1>10, <2>1, TimesDiffer
<1>12. op \in Back
  BY <1>9, <1>11 DEF After, On
<1> QED BY <1>5, <1>9, <1>12

\* FileSystem::remove_file and write_file: a removed file comes back only by an operation whose author
\* did not know of the removal, or by creating it anew.
THEOREM RemovalsLast == Spec => []RemovedStaysRemoved
<1> QED BY RemovalLasts, TreesFollowHistory, PTL

\* The tree after a time is the tree of the operations until then.
LEMMA TreeUntil ==
    ASSUME NEW ops, Timed(ops), NEW t \in 0..MaxOps
    PROVE  TreeOf({op \in ops : op.time <= t}) = AfterEach(ops)[t]
<1> DEFINE F == AfterEach(ops)
           first == {op \in ops : op.time <= t}
           G == AfterEach(first)
<1>1. t \in Nat /\ t <= MaxOps /\ MaxOps \in Nat
  BY TreeAssumption
<1>2. \A k \in 1..MaxOps : F[k] = IF \E o \in ops : o.time = k
                                THEN Apply(F[k - 1], CHOOSE o \in ops : o.time = k)
                                ELSE F[k - 1]
  BY AfterEachFollows
<1>3. \A k \in 1..MaxOps : G[k] = IF \E o \in first : o.time = k
                                THEN Apply(G[k - 1], CHOOSE o \in first : o.time = k)
                                ELSE G[k - 1]
  BY AfterEachFollows
<1>4. F[0] = <<>> /\ G[0] = <<>>
  BY AfterEachFollows
<1>5. \A o : o \in first <=> o \in ops /\ o.time <= t
  OBVIOUS
<1> HIDE DEF F, G, first
<1>6. ASSUME NEW k \in 1..MaxOps, k <= t, F[k - 1] = G[k - 1]
      PROVE  F[k] = G[k]
  <2>1. CASE \E o \in ops : o.time = k
    <3>1. PICK old \in ops : old.time = k
      BY <2>1
    <3>2. \A o : (o \in ops /\ o.time = k) <=> o = old
      BY <3>1 DEF Timed
    <3>3. \A o : (o \in first /\ o.time = k) <=> o = old
      BY <1>5, <1>6, <3>1, <3>2
    <3>4. (CHOOSE o \in ops : o.time = k) = old
      BY <3>1, <3>2
    <3>5. (CHOOSE o \in first : o.time = k) = old
      BY <3>1, <3>3
    <3>6. F[k] = Apply(F[k - 1], old)
      BY <1>2, <2>1, <3>4, Zenon
    <3>7. \E o \in first : o.time = k
      BY <3>1, <3>3
    <3>8. G[k] = Apply(G[k - 1], old)
      BY <1>3, <3>5, <3>7, Zenon
    <3> QED BY <1>6, <3>6, <3>8
  <2>2. CASE ~\E o \in ops : o.time = k
    <3>1. ~\E o \in first : o.time = k
      BY <1>5, <2>2
    <3>2. F[k] = F[k - 1]
      BY <1>2, <2>2, Zenon
    <3>3. G[k] = G[k - 1]
      BY <1>3, <3>1, Zenon
    <3> QED BY <1>6, <3>2, <3>3
  <2> QED BY <2>1, <2>2
<1>7. F[t] = G[t]
  <2> DEFINE S == {k \in Nat : k <= t => F[k] = G[k]}
  <2>1. 0 \in S
    BY <1>4
  <2>2. ASSUME NEW n \in Nat, n \in S PROVE n + 1 \in S
    <3> SUFFICES ASSUME n + 1 <= t PROVE F[n + 1] = G[n + 1]
      OBVIOUS
    <3>1. n + 1 \in 1..MaxOps /\ (n + 1) - 1 = n /\ F[n] = G[n]
      BY <1>1, <2>2
    <3> QED BY <1>6, <3>1
  <2> HIDE DEF S
  <2>3. \A n \in Nat : n >= 0 => n \in S
    BY <2>1, <2>2, Induct
  <2> QED BY <1>1, <2>3 DEF S
<1>8. ASSUME NEW k \in 1..MaxOps, t < k
      PROVE  G[k] = G[k - 1]
  <2>1. \A o \in first : ~(o.time = k)
    BY <1>1, <1>5, <1>8
  <2> QED BY <1>3, <2>1, Zenon
<1>9. G[MaxOps] = G[t]
  <2> DEFINE S == {k \in Nat : k <= MaxOps => G[k] = G[t]}
  <2>1. t \in S
    BY <1>1
  <2>2. ASSUME NEW n \in Nat, n >= t, n \in S PROVE n + 1 \in S
    <3> SUFFICES ASSUME n + 1 <= MaxOps PROVE G[n + 1] = G[t]
      OBVIOUS
    <3>1. n + 1 \in 1..MaxOps /\ t < n + 1 /\ (n + 1) - 1 = n /\ G[n] = G[t]
      BY <1>1, <2>2
    <3> QED BY <1>8, <3>1
  <2> HIDE DEF S
  <2>3. \A n \in Nat : n >= t => n \in S
    BY <1>1, <2>1, <2>2, Induct
  <2> QED BY <1>1, <2>3 DEF S
<1> QED BY <1>7, <1>9 DEF TreeOf, F, G, first

\* When nothing is concurrent, every author saw the tree of all that was before.
LEMMA AuthorsSawAll ==
    ASSUME UpToDate, History, NEW p \in Peer, IsClosed(p), ~HaveConcurrent(log[p]),
           NEW op \in log[p]
    PROVE  Saw(op) = AfterEach(log[p])[op.time - 1]
<1>1. op.time \in 1..MaxOps /\ Timed(log[p])
  BY LogTyped DEF Timed
<1>2. op.time - 1 \in 0..MaxOps
  BY <1>1, TreeAssumption
<1>3. \A old \in log[p] : old.time \in Nat
  BY TimesDiffer
<1>4. ASSUME NEW old \in log[p], old.time < op.time
      PROVE  old \in Had(op)
  <2>1. old # op
    BY <1>3, <1>4
  <2>2. old.time \in op.seen \/ op.time \in old.seen
    BY <2>1 DEF HaveConcurrent, Concurrent
  <2>3. CASE op.time \in old.seen
    <3>1. op \in Had(old)
      BY <2>3, AuthorsView
    <3>2. op.time < old.time
      BY <3>1, AuthorsView
    <3> QED BY <1>3, <1>4, <3>2
  <2> QED BY <2>2, <2>3, AuthorsView
<1>5. Had(op) = {old \in log[p] : old.time < op.time}
  BY <1>4, AuthorsView
<1>6. \A old \in log[p] : old.time < op.time <=> old.time <= op.time - 1
  BY <1>1, <1>3
<1>7. Had(op) = {old \in log[p] : old.time <= op.time - 1}
  BY <1>5, <1>6
<1> QED BY <1>1, <1>2, <1>7, TreeUntil DEF Saw

\* Then each operation was made in the tree to which it is applied.
LEMMA AppliedToSeen ==
    ASSUME UpToDate, History, NEW p \in Peer, IsClosed(p), ~HaveConcurrent(log[p]),
           NEW k \in 1..MaxOps
    PROVE  \/ AfterEach(log[p])[k] = AfterEach(log[p])[k - 1] /\ ~\E op \in log[p] : op.time = k
           \/ \E op \in log[p] : /\ op.time = k
                                 /\ Saw(op) = AfterEach(log[p])[k - 1]
                                 /\ AfterEach(log[p])[k] = Apply(Saw(op), op)
<1> DEFINE F == AfterEach(log[p])
<1>1. F[k] = IF \E op \in log[p] : op.time = k
             THEN Apply(F[k - 1], CHOOSE op \in log[p] : op.time = k)
             ELSE F[k - 1]
  BY AfterEachFollows
<1>2. \A op \in log[p] : Saw(op) = F[op.time - 1]
  BY AuthorsSawAll
<1> HIDE DEF F
<1>3. CASE \E op \in log[p] : op.time = k
  <2> DEFINE op == CHOOSE op \in log[p] : op.time = k
  <2>1. op \in log[p] /\ op.time = k
    BY <1>3, Zenon
  <2>2. F[k] = Apply(F[k - 1], op)
    BY <1>1, <1>3, Zenon
  <2> HIDE DEF op
  <2>3. Saw(op) = F[k - 1] /\ F[k] = Apply(Saw(op), op)
    BY <1>2, <2>1, <2>2
  <2> QED BY <2>1, <2>3 DEF F
<1>4. CASE ~\E op \in log[p] : op.time = k
  BY <1>1, <1>4, Zenon DEF F
<1> QED BY <1>3, <1>4

\* The first operation after a write that changes the contents would have been made by somebody
\* who saw others.
LEMMA WriteOnLeafLasts ==
    ASSUME UpToDate, History, NEW p \in Peer, IsClosed(p), NEW write \in log[p],
           IsLeaf(p, write.node), tree[p][write.node].meta.chunks # write.meta.chunks,
           \A op \in After(p, write) :
                op.call \notin {"create", "write"} /\ write.time \in op.seen
    PROVE  FALSE
<1> DEFINE n == write.node
           Changed == {op \in After(p, write) : op.meta.chunks # write.meta.chunks}
<1>1. \A ops : ops \subseteq log[p] => Sure(ops, write)
  BY DEF Sure, IsLeaf
<1>2. Changed # {}
  <2>1. PICK op \in log[p] : Source(log[p], MaxOps, tree[p], n, op)
    BY <1>1, OwnView
  <2>2. op.node = n /\ op.meta.chunks # write.meta.chunks /\ write.time <= op.time
    BY <1>1, <2>1, TimesDiffer DEF Source
  <2>3. write.time < op.time
    BY <2>2, TimesDiffer
  <2> QED BY <2>2, <2>3 DEF After, On
<1>3. Changed \subseteq log[p]
  BY DEF After, On
<1>4. PICK change \in Changed : \A other \in Changed : ~(other.time < change.time)
  <2> HIDE DEF Changed
  <2> QED BY <1>2, <1>3, Earliest
<1>5. /\ change \in log[p] /\ change.node = n /\ write.time < change.time
      /\ change.meta.chunks # write.meta.chunks
      /\ change.call \notin {"create", "write"} /\ write \in Had(change)
  BY AuthorsView DEF After, On
<1>6. n \in DOMAIN Saw(change) /\ Saw(change)[n].meta.chunks = change.meta.chunks
  BY <1>5, AuthorsView DEF Allowed
<1>7. PICK op \in Had(change) : Source(Had(change), MaxOps, Saw(change), n, op)
  BY <1>5, <1>6, AuthorsView
<1>8. /\ op \in log[p] /\ op.node = n /\ op.time < change.time
      /\ op.meta.chunks # write.meta.chunks
  BY <1>5, <1>6, <1>7, AuthorsView DEF Source
<1>9. write.time <= op.time
  <2>1. Sure(Had(change), write)
    BY <1>1, <1>5, AuthorsView
  <2> QED BY <1>5, <1>7, <2>1, TimesDiffer DEF Source
<1>10. write.time < op.time
  BY <1>8, <1>9, TimesDiffer
<1>11. op \in Changed
  BY <1>8, <1>10 DEF After, On
<1> QED BY <1>4, <1>8, <1>11

\* When nothing is concurrent, the contents are what they were for every author.
LEMMA WriteInTurnLasts ==
    ASSUME UpToDate, History, NEW p \in Peer, IsClosed(p), NEW write \in log[p],
           ~HaveConcurrent(log[p]), write.call = "write",
           \A op \in After(p, write) : op.call \notin {"create", "write"}
    PROVE  tree[p][write.node].meta.chunks = write.meta.chunks
<1> DEFINE n == write.node
           F == AfterEach(log[p])
           Kept(t) == n \in DOMAIN t /\ t[n].meta.chunks = write.meta.chunks
           S == {k \in Nat : k <= MaxOps => Kept(F[k])}
<1>1. write.time \in 1..MaxOps /\ MaxOps \in Nat
  BY LogTyped, TreeAssumption DEF Timed
<1>2. write.time \in S
  <2> DEFINE T == Saw(write)
  <2>1. /\ n \in DOMAIN T /\ T[n].parent = write.parent
        /\ IsFiniteSet(DOMAIN T) /\ n \notin Ancestors(T, n)
    BY AuthorsView DEF Allowed, Acyclic
  <2> HIDE DEF T
  <2>2. n \notin UpFrom(T, write.parent)
    BY <2>1, AncestorsOfParent
  <2>3. Apply(T, write) = Placed(T, write)
    BY <2>2 DEF Apply, UpFrom
  <2>4. Kept(Apply(T, write))
    BY <2>3 DEF Placed
  <2>5. F[write.time] = Apply(T, write)
    <3>1. PICK op \in log[p] : op.time = write.time /\ F[write.time] = Apply(Saw(op), op)
      BY <1>1, AppliedToSeen
    <3>2. op = write
      BY <3>1, TimesDiffer
    <3> QED BY <3>1, <3>2 DEF T
  <2> HIDE DEF Kept, F
  <2> QED BY <1>1, <2>4, <2>5
<1>3. ASSUME NEW k \in Nat, k >= write.time, k \in S PROVE k + 1 \in S
  <2> SUFFICES ASSUME k + 1 <= MaxOps PROVE Kept(F[k + 1])
    OBVIOUS
  <2>1. k + 1 \in 1..MaxOps /\ (k + 1) - 1 = k /\ Kept(F[k])
    BY <1>1, <1>3
  <2>2. CASE F[k + 1] = F[k]
    BY <2>1, <2>2
  <2>3. ASSUME NEW op \in log[p], op.time = k + 1, Saw(op) = F[k], F[k + 1] = Apply(Saw(op), op)
        PROVE  Kept(F[k + 1])
    <3> HIDE DEF F
    <3>1. CASE Apply(F[k], op) = F[k]
      BY <2>1, <2>3, <3>1
    <3>2. CASE Apply(F[k], op) = Placed(F[k], op)
      <4>1. CASE op.node # n
        BY <2>1, <2>3, <3>2, <4>1 DEF Placed
      <4>2. CASE op.node = n
        <5>1. op \in After(p, write)
          BY <1>1, <1>3, <2>3, <4>2 DEF After, On
        <5>2. op.meta.chunks = Saw(op)[n].meta.chunks
          BY <4>2, <5>1, AuthorsView DEF Allowed
        <5> QED BY <2>1, <2>3, <3>2, <4>2, <5>2 DEF Placed
      <4> QED BY <4>1, <4>2
    <3> QED BY <3>1, <3>2 DEF Apply
  <2> QED BY <2>1, <2>2, <2>3, AppliedToSeen
<1> HIDE DEF S
<1>4. \A k \in Nat : k >= write.time => k \in S
  BY <1>1, <1>2, <1>3, Induct
<1>5. MaxOps \in S
  BY <1>1, <1>4
<1> QED BY <1>1, <1>5 DEF S, UpToDate, TreeOf

\* In either case the contents stay.
LEMMA WritesLastHolds == UpToDate /\ History => WritesLast
<1> SUFFICES ASSUME UpToDate, History, NEW p \in Peer, IsClosed(p), NEW write \in log[p],
                    write.call = "write",
                    tree[p][write.node].meta.chunks # write.meta.chunks,
                    ~\E op \in After(p, write) :
                        op.call \in {"create", "write"} \/ write.time \notin op.seen,
                    IsLeaf(p, write.node) \/ ~HaveConcurrent(log[p])
             PROVE  FALSE
  BY DEF WritesLast
<1> QED BY WriteOnLeafLasts, WriteInTurnLasts

\* FileSystem::write_file, rename and remove_file: what was written stays until somebody writes or
\* creates the file again, or changes it without having seen the write.
THEOREM WritesAreLasting == Spec => []WritesLast
<1> QED BY WritesLastHolds, TreesFollowHistory, PTL

\* What is earlier and not concurrent has been seen.
LEMMA EarlierIsSeen ==
    ASSUME UpToDate, History, NEW p \in Peer, IsClosed(p), NEW old \in log[p], NEW op \in log[p],
           old.time < op.time, ~Concurrent(old, op)
    PROVE  old \in Had(op)
<1>1. old.time \in op.seen \/ op.time \in old.seen
  BY DEF Concurrent
<1>2. CASE op.time \in old.seen
  <2>1. op.time < old.time
    BY <1>2, AuthorsView
  <2> QED BY <2>1, TimesDiffer
<1> QED BY <1>1, <1>2, AuthorsView

\* Two nodes have one name in one directory.
Twins(t, n, m) ==
    /\ n \in DOMAIN t /\ m \in DOMAIN t /\ n # m
    /\ t[n].parent = t[m].parent /\ t[n].parent # Trash
    /\ t[n].meta.name = t[m].meta.name

\* An author who is allowed to give a node a name that another has saw both with that name.
LEMMA TwinsWereSeen ==
    ASSUME NEW t, NEW op, Allowed(t, op.node, op.parent, op.meta, op.call), op.parent # Trash,
           NEW n \in DOMAIN t, n # op.node, t[n].parent = op.parent,
           t[n].meta.name = op.meta.name
    PROVE  /\ Twins(t, op.node, n)
           /\ t[op.node].parent = op.parent /\ t[op.node].meta.name = op.meta.name
<1>1. n \in ChildIds(t, op.parent, op.meta.name)
  BY DEF ChildIds, Children
<1>2. op.call \in {"rename", "write"} /\ op.node \in DOMAIN t
  BY <1>1 DEF Allowed
<1>3. CASE op.call = "rename"
  <2>1. op.node \in ChildIds(t, op.parent, op.meta.name)
    BY <1>1, <1>3 DEF Allowed, NameIsFree
  <2> QED BY <2>1 DEF ChildIds, Children, Twins
<1>4. CASE op.call = "write"
  BY <1>2, <1>4 DEF Allowed, Twins
<1> QED BY <1>2, <1>3, <1>4

\* When nothing is concurrent, the operation that made the first twins was made in a tree that had
\* some.
LEMMA NoTwinsInTurn ==
    ASSUME UpToDate, History, NEW p \in Peer, IsClosed(p), ~HaveConcurrent(log[p]), NEW n, NEW m
    PROVE  ~Twins(tree[p], n, m)
<1> DEFINE F == AfterEach(log[p])
           S == {k \in Nat : k <= MaxOps => \A x, y : ~Twins(F[k], x, y)}
<1>1. 0 \in S
  <2>1. F[0] = <<>>
    BY AfterEachFollows
  <2> HIDE DEF F
  <2> QED BY <2>1 DEF Twins
<1>2. ASSUME NEW k \in Nat, k \in S PROVE k + 1 \in S
  <2> SUFFICES ASSUME k + 1 <= MaxOps, NEW x, NEW y, Twins(F[k + 1], x, y) PROVE FALSE
    OBVIOUS
  <2>1. k + 1 \in 1..MaxOps /\ (k + 1) - 1 = k /\ \A v, w : ~Twins(F[k], v, w)
    BY <1>2, TreeAssumption
  <2>2. F[k + 1] # F[k]
    BY <2>1
  <2>3. PICK op \in log[p] : Saw(op) = F[k] /\ F[k + 1] = Apply(F[k], op)
    BY <2>1, <2>2, AppliedToSeen
  <2> HIDE DEF F
  <2>4. F[k + 1] = Placed(F[k], op)
    BY <2>2, <2>3 DEF Apply
  <2>5. Allowed(F[k], op.node, op.parent, op.meta, op.call)
    BY <2>3, AuthorsView
  <2>6. ASSUME NEW z, Twins(F[k + 1], op.node, z) PROVE FALSE
    <3>1. /\ op.parent # Trash /\ z \in DOMAIN F[k] /\ z # op.node
          /\ F[k][z].parent = op.parent /\ F[k][z].meta.name = op.meta.name
      BY <2>4, <2>6 DEF Twins, Placed
    <3> QED BY <2>1, <2>5, <3>1, TwinsWereSeen
  <2>7. CASE x = op.node
    BY <2>6, <2>7
  <2>8. CASE y = op.node
    <3>1. Twins(F[k + 1], op.node, x)
      BY <2>8 DEF Twins
    <3> QED BY <2>6, <3>1
  <2>9. CASE x # op.node /\ y # op.node
    <3>1. Twins(F[k], x, y)
      BY <2>4, <2>9 DEF Twins, Placed
    <3> QED BY <2>1, <3>1
  <2> QED BY <2>7, <2>8, <2>9
<1> HIDE DEF S
<1>3. \A k \in Nat : k >= 0 => k \in S
  BY <1>1, <1>2, Induct
<1>4. MaxOps \in S
  BY <1>3, TreeAssumption
<1> QED BY <1>4, TreeAssumption DEF S, UpToDate, TreeOf

\* Among the operations on two nodes that nobody puts anything into, the first that makes them
\* twins was made by somebody who saw them as twins.
LEMMA NoTwinLeaves ==
    ASSUME UpToDate, History, NEW p \in Peer, IsClosed(p), NEW n, NEW m,
           IsLeaf(p, n), IsLeaf(p, m), ~HaveConcurrent(On(p, n) \cup On(p, m))
    PROVE  ~Twins(tree[p], n, m)
<1> SUFFICES ASSUME Twins(tree[p], n, m) PROVE FALSE
  OBVIOUS
<1> DEFINE R == On(p, n) \cup On(p, m)
           Clash(o, last) ==
                /\ last.node # o.node /\ last.time < o.time
                /\ last.parent = o.parent /\ o.parent # Trash
                /\ last.meta.name = o.meta.name
                /\ \A r \in R : r.node = last.node /\ r.time < o.time => r.time <= last.time
           D == {o \in R : \E last \in R : Clash(o, last)}
<1>1. \A r \in R : r \in log[p] /\ (r.node = n \/ r.node = m)
  BY DEF On
<1>2. \A r \in log[p] : r.node = n \/ r.node = m => r \in R
  BY DEF On
<1>3. \A ops : ops \subseteq log[p] => \A r \in R : Sure(ops, r)
  BY <1>1 DEF Sure, IsLeaf
<1>4. \A a, b \in R : a.time < b.time => a \in Had(b)
  <2> SUFFICES ASSUME NEW a \in R, NEW b \in R, a.time < b.time PROVE a \in Had(b)
    OBVIOUS
  <2>1. a # b
    BY <1>1, TimesDiffer
  <2>2. ~Concurrent(a, b)
    BY <2>1 DEF HaveConcurrent
  <2> HIDE DEF R
  <2> QED BY <1>1, <2>2, EarlierIsSeen
<1>5. \A r \in R : r.time \in Nat /\ r.time <= MaxOps
  BY <1>1, TimesDiffer
<1>6. \A a, b \in R : a.node # b.node => a.time # b.time
  BY <1>1, TimesDiffer
<1> HIDE DEF R
<1>7. D # {}
  <2>1. PICK a \in log[p] : Source(log[p], MaxOps, tree[p], n, a)
    BY OwnView DEF Twins
  <2>2. PICK b \in log[p] : Source(log[p], MaxOps, tree[p], m, b)
    BY OwnView DEF Twins
  <2>3. /\ a \in R /\ a.node = n /\ b \in R /\ b.node = m /\ n # m
        /\ a.parent = b.parent /\ a.parent # Trash /\ a.meta.name = b.meta.name
    BY <1>2, <2>1, <2>2 DEF Twins, Source
  <2>4. \A r \in R : /\ r.node = n => r.time <= a.time
                     /\ r.node = m => r.time <= b.time
    BY <1>1, <1>3, <1>5, <2>1, <2>2 DEF Source
  <2>5. CASE a.time < b.time
    <3>1. Clash(b, a)
      BY <2>3, <2>4, <2>5
    <3> QED BY <2>3, <3>1
  <2>6. CASE b.time < a.time
    <3>1. Clash(a, b)
      BY <2>3, <2>4, <2>6
    <3> QED BY <2>3, <3>1
  <2> QED BY <1>5, <1>6, <2>3, <2>5, <2>6
<1>8. D \subseteq log[p]
  BY <1>1
<1>9. PICK o \in D : \A other \in D : ~(other.time < o.time)
  <2> HIDE DEF D
  <2> QED BY <1>7, <1>8, Earliest
<1>10. PICK last \in R : Clash(o, last)
  OBVIOUS
<1>11. o \in R /\ o \in log[p]
  BY <1>1
<1> DEFINE T == Saw(o)
\* The author of o saw for each of the two nodes the last operation before.
<1>12. ASSUME NEW x \in DOMAIN T, x = n \/ x = m
       PROVE  \E s \in R : /\ s.node = x /\ s.time < o.time
                           /\ s.parent = T[x].parent /\ s.meta = T[x].meta
                           /\ \A r \in R : r.node = x /\ r.time < o.time => r.time <= s.time
  <2>1. PICK s \in Had(o) : Source(Had(o), MaxOps, T, x, s)
    BY <1>11, AuthorsView
  <2>2. s \in log[p] /\ s.node = x /\ s.time < o.time /\ s.parent = T[x].parent /\ s.meta = T[x].meta
    BY <1>11, <2>1, AuthorsView DEF Source
  <2>3. s \in R
    BY <1>2, <1>12, <2>2
  <2>4. ASSUME NEW r \in R, r.node = x, r.time < o.time
        PROVE  r.time <= s.time
    <3>1. r \in Had(o)
      BY <1>4, <1>11, <2>4
    <3>2. Sure(Had(o), r)
      BY <1>3, <1>11, AuthorsView
    <3> QED BY <1>5, <2>1, <2>4, <3>1, <3>2 DEF Source
  <2> QED BY <2>2, <2>3, <2>4
<1>13. last.node \in DOMAIN T
  <2>1. last \in Had(o)
    BY <1>4, <1>10, <1>11
  <2>2. Sure(Had(o), last)
    BY <1>3, <1>11, AuthorsView
  <2> QED BY <1>11, <2>1, <2>2, AuthorsView
<1>14. T[last.node].parent = o.parent /\ T[last.node].meta.name = o.meta.name
  <2>1. PICK s \in R : /\ s.node = last.node /\ s.time < o.time
                       /\ s.parent = T[last.node].parent /\ s.meta = T[last.node].meta
                       /\ \A r \in R : r.node = last.node /\ r.time < o.time => r.time <= s.time
    BY <1>1, <1>12, <1>13
  <2>2. s.time = last.time
    BY <1>5, <1>10, <2>1
  <2>3. s = last
    BY <1>1, <2>2, TimesDiffer
  <2> QED BY <1>10, <2>1, <2>3
<1>15. /\ o.node \in DOMAIN T
       /\ T[o.node].parent = o.parent /\ T[o.node].meta.name = o.meta.name
  <2>1. Allowed(T, o.node, o.parent, o.meta, o.call)
    BY <1>11, AuthorsView
  <2> HIDE DEF T
  <2> QED BY <1>10, <1>13, <1>14, <2>1, TwinsWereSeen, SMTT(30) DEF Twins
<1>16. PICK s \in R : /\ s.node = o.node /\ s.time < o.time
                      /\ s.parent = o.parent /\ s.meta.name = o.meta.name
                      /\ \A r \in R : r.node = o.node /\ r.time < o.time => r.time <= s.time
  BY <1>1, <1>11, <1>12, <1>15
<1>17. CASE last.time < s.time
  <2>1. \A r \in R : r.node = last.node /\ r.time < s.time => r.time <= last.time
    BY <1>5, <1>10, <1>11, <1>16
  <2>2. Clash(s, last)
    BY <1>10, <1>16, <1>17, <2>1
  <2>3. s \in D
    BY <2>2
  <2> QED BY <1>9, <1>16, <2>3
<1>18. CASE s.time < last.time
  <2>1. \A r \in R : r.node = s.node /\ r.time < last.time => r.time <= s.time
    BY <1>5, <1>10, <1>11, <1>16
  <2>2. Clash(last, s)
    BY <1>10, <1>16, <1>18, <2>1
  <2>3. last \in D
    BY <2>2
  <2> QED BY <1>9, <1>10, <2>3
<1> QED BY <1>5, <1>6, <1>10, <1>16, <1>17, <1>18

\* In either case twins come from what was concurrent.
LEMMA DuplicatesHold == UpToDate /\ History => DuplicatesConcurrent
<1> SUFFICES ASSUME UpToDate, History, NEW p \in Peer, IsClosed(p),
                    NEW n \in DOMAIN tree[p], NEW m \in DOMAIN tree[p], Twins(tree[p], n, m)
             PROVE  HaveConcurrent(IF IsLeaf(p, n) /\ IsLeaf(p, m) THEN On(p, n) \cup On(p, m)
                                                                  ELSE log[p])
  BY DEF DuplicatesConcurrent, Twins
<1>1. CASE IsLeaf(p, n) /\ IsLeaf(p, m)
  BY <1>1, NoTwinLeaves
<1>2. CASE ~(IsLeaf(p, n) /\ IsLeaf(p, m))
  BY <1>2, NoTwinsInTurn
<1> QED BY <1>1, <1>2

\* FileSystem::create_file and rename: two nodes of one directory share a name only if there are
\* concurrent operations, on these very nodes if nothing was ever put below them.
THEOREM DuplicatesNeedConcurrency == Spec => []DuplicatesConcurrent
<1> QED BY DuplicatesHold, TreesFollowHistory, PTL

-----------------------------------------------------------------------------
(***************************************************************************)
(* What can be reached.                                                    *)
(***************************************************************************)

\* The queue goes down from the root, one directory into the other.
FindsDirectories(t, found) ==
    /\ ReachedDirectories(t) = found[Cardinality(DOMAIN t)]
    /\ found[0] = {Root}
    /\ \A k \in Nat :
        found[k + 1] = found[k] \cup
            {n \in DOMAIN t : t[n].parent \in found[k] /\ t[n].meta.kind = "dir"}

\* There is a function that does.
LEMMA DirectorySteps ==
    ASSUME NEW t
    PROVE  \E found : FindsDirectories(t, found)
<1> DEFINE D == SUBSET ({Root} \cup DOMAIN t)
           Below(s) == {n \in DOMAIN t : t[n].parent \in s /\ t[n].meta.kind = "dir"}
           G == [s \in D |-> s \cup Below(s)]
           found == CHOOSE f : f = [k \in Nat |-> IF k = 0 THEN {Root}
                                       ELSE f[k - 1] \cup Below(f[k - 1])]
<1>1. PICK f : /\ f = [k \in Nat |-> f[k]]
               /\ f[0] = {Root}
               /\ \A k \in Nat : f[k + 1] = G[f[k]]
  <2> HIDE DEF G
  <2>1. PICK f : Repeated(f, G, {Root})
    BY IterateForever
  <2> QED BY <2>1 DEF Repeated
<1>2. \A s \in D : G[s] \in D /\ G[s] = s \cup Below(s)
  OBVIOUS
<1>3. \A k \in Nat : f[k] \in D
  <2> DEFINE S == {k \in Nat : f[k] \in D}
  <2>1. 0 \in S
    BY <1>1
  <2>2. ASSUME NEW k \in Nat, k \in S PROVE k + 1 \in S
    <3>1. f[k] \in D
      BY <2>2
    <3>2. f[k + 1] = G[f[k]]
      BY <1>1
    <3> HIDE DEF G, D
    <3>3. f[k + 1] \in D
      BY <1>2, <3>1, <3>2
    <3> QED BY <3>3
  <2> HIDE DEF S
  <2>3. \A k \in Nat : k >= 0 => k \in S
    BY <2>1, <2>2, Induct
  <2> QED BY <2>3 DEF S
<1> HIDE DEF G, D
<1>4. ASSUME NEW k \in Nat
      PROVE  f[k] = IF k = 0 THEN {Root} ELSE f[k - 1] \cup Below(f[k - 1])
  <2>1. CASE k = 0
    BY <1>1, <2>1
  <2>2. CASE k # 0
    <3>1. k - 1 \in Nat /\ (k - 1) + 1 = k
      BY <2>2
    <3>2. f[k] = G[f[k - 1]]
      BY <1>1, <3>1
    <3> HIDE DEF Below
    <3> QED BY <1>2, <1>3, <2>2, <3>1, <3>2
  <2> QED BY <2>1, <2>2
<1>5. f = [k \in Nat |-> IF k = 0 THEN {Root} ELSE f[k - 1] \cup Below(f[k - 1])]
  BY <1>1, <1>4, Zenon
<1>6. found = [k \in Nat |-> IF k = 0 THEN {Root} ELSE found[k - 1] \cup Below(found[k - 1])]
  BY <1>5, Zenon
<1>7. ReachedDirectories(t) = found[Cardinality(DOMAIN t)]
  BY DEF ReachedDirectories
<1> HIDE DEF found
<1>8. found[0] = {Root}
  BY <1>6
<1>9. ASSUME NEW k \in Nat PROVE found[k + 1] = found[k] \cup Below(found[k])
  <2>1. k + 1 \in Nat /\ k + 1 # 0 /\ (k + 1) - 1 = k
    OBVIOUS
  <2> HIDE DEF Below
  <2> QED BY <1>6, <2>1
<1>10. FindsDirectories(t, found)
  BY <1>7, <1>8, <1>9 DEF FindsDirectories
<1> QED BY <1>10

\* How far up a node is from its last ancestor.
Height(t, n) == Cardinality(Ancestors(t, n))

\* One more than its parent, and no more than there are nodes.
LEMMA HeightOfParent ==
    ASSUME NEW t, Acyclic(t), NEW n \in DOMAIN t
    PROVE  /\ Height(t, t[n].parent) \in Nat
           /\ Height(t, n) = Height(t, t[n].parent) + 1
           /\ Height(t, n) <= Cardinality(DOMAIN t)
<1> DEFINE q == t[n].parent
<1>1. IsFiniteSet(DOMAIN t)
  BY DEF Acyclic
<1>2. Ancestors(t, n) = Ancestors(t, q) \cup {q}
  BY <1>1, AncestorsOfParent DEF UpFrom
<1> HIDE DEF q
<1>3. q \notin Ancestors(t, q)
  <2>1. CASE q \in DOMAIN t
    BY <2>1 DEF Acyclic
  <2>2. CASE q \notin DOMAIN t
    BY <2>2, NoAncestors
  <2> QED BY <2>1, <2>2
<1>4. \A x : Ancestors(t, x) \subseteq Parents(t)
  <2>1. Upward(t, Parents(t)) /\ \A x \in DOMAIN t : t[x].parent \in Parents(t)
    BY DEF Upward, Parents
  <2> QED BY <2>1, AncestorsLeast
<1>5. /\ IsFiniteSet(Parents(t)) /\ Cardinality(Parents(t)) <= Cardinality(DOMAIN t)
      /\ Cardinality(Parents(t)) \in Nat /\ Cardinality(DOMAIN t) \in Nat
  BY <1>1, ParentsFinite, FS_CardinalityType
<1>6. /\ IsFiniteSet(Ancestors(t, q)) /\ Height(t, q) \in Nat
      /\ Height(t, n) <= Cardinality(Parents(t)) /\ Height(t, n) \in Nat
  BY <1>4, <1>5, FS_Subset, FS_CardinalityType DEF Height
<1>7. Height(t, n) = Height(t, q) + 1
  BY <1>2, <1>3, <1>6, FS_AddElement DEF Height
<1>8. Height(t, n) <= Cardinality(DOMAIN t)
  BY <1>5, <1>6
<1> QED BY <1>6, <1>7, <1>8 DEF q

\* What can be listed is in the root or in a directory that can be listed.
LEMMA ListedStep ==
    ASSUME NEW t, Acyclic(t), Root \notin DOMAIN t, Trash \notin DOMAIN t, NEW n \in DOMAIN t
    PROVE  CanBeListed(t, n) <=>
             \/ t[n].parent = Root
             \/ /\ t[n].parent \in DOMAIN t
                /\ t[t[n].parent].meta.kind = "dir"
                /\ CanBeListed(t, t[n].parent)
<1> DEFINE q == t[n].parent
<1>1. Ancestors(t, n) = {q} \cup Ancestors(t, q)
  BY AncestorsOfParent DEF Acyclic, UpFrom
<1>2. \A d : n \in Listed(t, d) <=> /\ HasMetadata(t, d) /\ Kind(t, d) = "dir"
                                   /\ q = d /\ q # Trash
  BY DEF Listed, Children, HasMetadata
<1>3. \A m : Kind(t, m) = IF m = Root THEN "dir" ELSE t[m].meta.kind
  BY DEF Kind
<1>4. \A m : HasMetadata(t, m) <=> m = Root \/ (m \in DOMAIN t /\ t[m].parent # Trash)
  BY DEF HasMetadata
<1>5. ASSUME CanBeListed(t, n)
      PROVE  q = Root \/ (q \in DOMAIN t /\ t[q].meta.kind = "dir" /\ CanBeListed(t, q))
  <2>1. n \in Listed(t, q)
    BY <1>5 DEF CanBeListed
  <2>2. q = Root \/ (q \in DOMAIN t /\ t[q].meta.kind = "dir")
    <3> HIDE DEF q
    <3> QED BY <1>2, <1>3, <1>4, <2>1
  <2>3. CanBeListed(t, q)
    BY <1>1, <1>5 DEF CanBeListed
  <2> QED BY <2>2, <2>3
<1>6. ASSUME q = Root
      PROVE  CanBeListed(t, n)
  <2>1. Ancestors(t, n) = {Root}
    <3>1. Ancestors(t, Root) = {}
      BY NoAncestors
    <3> QED BY <1>1, <1>6, <3>1
  <2>2. n \in Listed(t, q)
    BY <1>2, <1>3, <1>4, <1>6, NamedNodes
  <2> QED BY <2>1, <2>2 DEF CanBeListed
<1>7. ASSUME q \in DOMAIN t, t[q].meta.kind = "dir", CanBeListed(t, q)
      PROVE  CanBeListed(t, n)
  <2>1. q # Root /\ q # Trash
    BY <1>7
  <2>2. q \in Listed(t, t[q].parent)
    BY <1>7, <2>1 DEF CanBeListed
  <2>3. HasMetadata(t, q)
    BY <2>2 DEF Listed
  <2>4. n \in Listed(t, q)
    BY <1>2, <1>3, <1>7, <2>1, <2>3
  <2> QED BY <1>1, <1>7, <2>4 DEF CanBeListed
<1> QED BY <1>5, <1>6, <1>7

\* The queue meets what can be listed.
LEMMA ReachedIsListed ==
    ASSUME NEW t, Acyclic(t), Root \notin DOMAIN t, Trash \notin DOMAIN t, NEW n \in DOMAIN t
    PROVE  t[n].parent \in ReachedDirectories(t) <=> CanBeListed(t, n)
<1> DEFINE N == Cardinality(DOMAIN t)
           Dir(d) == d \in DOMAIN t /\ t[d].meta.kind = "dir" /\ CanBeListed(t, d)
<1>0. N \in Nat
  BY FS_CardinalityType DEF Acyclic
<1>1. PICK found : FindsDirectories(t, found)
  BY DirectorySteps
<1>2. /\ ReachedDirectories(t) = found[N]
      /\ found[0] = {Root}
      /\ \A k \in Nat :
            found[k + 1] = found[k] \cup
                {m \in DOMAIN t : t[m].parent \in found[k] /\ t[m].meta.kind = "dir"}
  BY <1>1 DEF FindsDirectories
<1>3. \A m \in DOMAIN t : CanBeListed(t, m) <=> t[m].parent = Root \/ Dir(t[m].parent)
  BY ListedStep
<1>4. \A m \in DOMAIN t : /\ Height(t, t[m].parent) \in Nat
                          /\ Height(t, m) = Height(t, t[m].parent) + 1
                          /\ Height(t, m) <= N
  BY HeightOfParent
<1>5. Height(t, Root) = 0
  BY NoAncestors, FS_EmptySet DEF Height
<1> HIDE DEF N
\* It meets nothing else.
<1>6. \A d \in ReachedDirectories(t) : d = Root \/ Dir(d)
  <2> DEFINE S == {k \in Nat : \A d \in found[k] : d = Root \/ Dir(d)}
  <2>1. 0 \in S
    BY <1>2
  <2>2. ASSUME NEW k \in Nat, k \in S PROVE k + 1 \in S
    <3>1. ASSUME NEW d \in DOMAIN t, t[d].parent \in found[k], t[d].meta.kind = "dir"
          PROVE  Dir(d)
      <4>1. t[d].parent = Root \/ Dir(t[d].parent)
        BY <2>2, <3>1
      <4> QED BY <1>3, <3>1, <4>1
    <3> HIDE DEF Dir
    <3>2. \A d \in found[k + 1] : d = Root \/ Dir(d)
      BY <1>2, <2>2, <3>1
    <3> QED BY <3>2
  <2> HIDE DEF S
  <2>3. \A k \in Nat : k >= 0 => k \in S
    BY <2>1, <2>2, Induct
  <2> QED BY <1>0, <1>2, <2>3 DEF S
\* It meets every directory after as many steps as that has ancestors.
<1>7. \A d \in DOMAIN t : Dir(d) => d \in found[Height(t, d)]
  <2> DEFINE Missed == {d \in DOMAIN t : Dir(d) /\ d \notin found[Height(t, d)]}
             H == {Height(t, d) : d \in Missed}
  <2> SUFFICES ASSUME Missed # {} PROVE FALSE
    OBVIOUS
  <2>1. H \in SUBSET Nat /\ H # {}
    BY <1>4
  <2>2. PICK h \in H : \A k \in H : h <= k
    <3> HIDE DEF H
    <3> QED BY <2>1, LeastElement
  <2>3. PICK d \in Missed : Height(t, d) = h
    BY <2>2
  <2> DEFINE q == t[d].parent
  <2>4. q = Root \/ Dir(q)
    BY <1>3
  <2>5. q \in found[Height(t, q)]
    <3>1. CASE q = Root
      BY <1>2, <1>5, <3>1
    <3>2. CASE Dir(q)
      <4> SUFFICES ASSUME q \in Missed PROVE FALSE
        BY <3>2
      <4>1. Height(t, q) \in H
        OBVIOUS
      <4>2. Height(t, d) = Height(t, q) + 1 /\ Height(t, q) \in Nat
        BY <1>4
      <4>3. h <= Height(t, q)
        BY <2>2, <4>1
      <4> HIDE DEF q, H, Missed
      <4> QED BY <2>3, <4>2, <4>3
    <3> QED BY <2>4, <3>1, <3>2
  <2>6. d \in found[Height(t, q) + 1]
    BY <1>2, <1>4, <2>5
  <2> QED BY <1>4, <2>6
<1>8. \A k \in Nat : k <= N => found[k] \subseteq found[N]
  <2> SUFFICES ASSUME NEW k \in Nat, k <= N PROVE found[k] \subseteq found[N]
    OBVIOUS
  <2> DEFINE S == {i \in Nat : found[k] \subseteq found[i]}
  <2>1. k \in S
    OBVIOUS
  <2>2. ASSUME NEW i \in Nat, i \in S PROVE i + 1 \in S
    BY <1>2, <2>2
  <2> HIDE DEF S
  <2>3. \A i \in Nat : i >= k => i \in S
    BY <2>1, <2>2, Induct
  <2> QED BY <1>0, <2>3 DEF S
<1>9. ASSUME CanBeListed(t, n) PROVE t[n].parent \in ReachedDirectories(t)
  <2>1. CASE t[n].parent = Root
    <3>1. Root \in found[0] /\ found[0] \subseteq found[N]
      BY <1>0, <1>2, <1>8
    <3> QED BY <1>2, <2>1, <3>1
  <2>2. CASE Dir(t[n].parent)
    <3>1. Height(t, t[n].parent) \in Nat /\ Height(t, t[n].parent) <= N
      BY <1>4, <2>2
    <3> QED BY <1>2, <1>7, <1>8, <2>2, <3>1
  <2> QED BY <1>3, <1>9, <2>1, <2>2
<1>10. ASSUME t[n].parent \in ReachedDirectories(t) PROVE CanBeListed(t, n)
  BY <1>3, <1>6, <1>10
<1> QED BY <1>9, <1>10

\* So the chunks are the same.
LEMMA ReachableHolds == UpToDate /\ History => ReachableIsListed
<1> SUFFICES ASSUME UpToDate, History, NEW p \in Peer
             PROVE  ReachableChunks(tree[p]) =
                      UNION {tree[p][n].meta.chunks :
                                n \in {m \in DOMAIN tree[p] : CanBeListed(tree[p], m)}}
  BY DEF ReachableIsListed
<1> DEFINE t == tree[p]
<1>1. Acyclic(t) /\ Root \notin DOMAIN t /\ Trash \notin DOMAIN t
  BY OwnView, TreeTyped, NamedNodes
<1>2. \A n \in DOMAIN t : t[n].meta.kind # "file" => t[n].meta.chunks = {}
  BY TreeTyped
<1> HIDE DEF t
<1>3. \A n \in DOMAIN t : t[n].parent \in ReachedDirectories(t) <=> CanBeListed(t, n)
  BY <1>1, ReachedIsListed
<1>4. \A c : c \in ReachableChunks(t) <=>
        \E n \in DOMAIN t : t[n].parent \in ReachedDirectories(t) /\ t[n].meta.kind = "file"
                            /\ c \in t[n].meta.chunks
  BY DEF ReachableChunks
<1>5. \A c : c \in ReachableChunks(t) <=>
        c \in UNION {t[n].meta.chunks : n \in {m \in DOMAIN t : CanBeListed(t, m)}}
  BY <1>2, <1>3, <1>4
<1> QED BY <1>5 DEF t

\* NodeTree::reachable_chunk_hashes: the chunks that are replicated are those of the files that users
\* find by listing one directory after the other.
THEOREM ReachedAreListed == Spec => []ReachableIsListed
<1> QED BY ReachableHolds, TreesFollowHistory, PTL

=============================================================================
