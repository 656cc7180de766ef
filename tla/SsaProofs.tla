----------------------------- MODULE SsaProofs -----------------------------
(***************************************************************************)
(* Proofs about Dominators and Ssa, for any number of blocks, every graph  *)
(* and every program on it: the dominator tree and the dominance frontiers *)
(* are those of the definition, and the renamed program reads the values   *)
(* the original did.                                                       *)
(*                                                                         *)
(* The first part knows only numbers: a depth-first tree over the numbers  *)
(* 1 .. N with the edges of a graph, the semi-dominators in it and what    *)
(* they say about the immediate dominators, after Lengauer and Tarjan.     *)
(* The second part is about blocks and the functions of Dominators: what   *)
(* cfg_dfs finds is such a tree, ancestorwithlowestsemi finds a least      *)
(* semi-dominator, Semi keeps the invariant, SameDom ends it, computeDF    *)
(* collects the frontiers.                                                 *)
(* The third part is about one variable: where the phi functions are       *)
(* placed, what the calls of renamevar record, the stack each of them      *)
(* finds, and the versions that hold the value while the program runs.     *)
(***************************************************************************)
EXTENDS Ssa, SequenceTheorems, FiniteSetTheorems, WellFoundedInduction, TLAPS

-----------------------------------------------------------------------------
(* A set of natural numbers has a least element.                           *)
LEMMA LeastNat ==
  ASSUME NEW S, S \subseteq Nat, S # {}
  PROVE  \E n \in S : \A m \in S : n <= m
<1>1. PICK n \in S : \A m \in S : <<m, n>> \notin OpToRel(<, Nat)
  BY WFMin, NatLessThanWellFounded
<1>2. \A m \in S : ~(m < n)
  BY <1>1 DEF OpToRel
<1>3. QED
  BY <1>2

(* Induction: what holds of 0 and, with a number, of the next, holds.  The *)
(* library's theorems have a predicate as parameter, which no prover here  *)
(* can instantiate; a set says the same.                                   *)
LEMMA SetInduction ==
  ASSUME NEW S, 0 \in S, \A n \in Nat : n \in S => n + 1 \in S
  PROVE  Nat \subseteq S
<1>1. SUFFICES ASSUME Nat \ S # {} PROVE FALSE
  OBVIOUS
<1>2. PICK n \in Nat \ S : \A m \in Nat \ S : n <= m
  BY <1>1, LeastNat
<1>3. n # 0 /\ n - 1 \in Nat /\ n - 1 \in S
  BY <1>2
<1>4. QED
  BY <1>2, <1>3

(* A function on 0 .. N given by its first value and the step from each to *)
(* the next, and that there is one.                                        *)
Stepped(g, T, base, G, N) ==
  /\ g \in [0 .. N -> T]
  /\ g[0] = base
  /\ \A n \in 1 .. N : g[n] = G[<<n, g[n - 1]>>]

LEMMA RecursionExists ==
  ASSUME NEW T, NEW base \in T, NEW N \in Nat, NEW G \in [(1 .. N) \X T -> T]
  PROVE  \E g : Stepped(g, T, base, G, N)
<1> DEFINE S == {n \in Nat : n <= N => \E g : Stepped(g, T, base, G, n)}
<1>1. 0 \in S
  <2>1. Stepped([n \in 0 .. 0 |-> base], T, base, G, 0)
    BY DEF Stepped
  <2>2. QED
    BY <2>1
<1>2. ASSUME NEW n \in Nat, n \in S PROVE n + 1 \in S
  <2>1. SUFFICES ASSUME n + 1 <= N PROVE \E g : Stepped(g, T, base, G, n + 1)
    OBVIOUS
  <2>2. PICK k : k = n + 1
    OBVIOUS
  <2>3. /\ k \in 1 .. N /\ n \in 0 .. n /\ k \in 0 .. k /\ k \notin 0 .. n /\ k - 1 = n
        /\ \A m \in 0 .. k : m # k => m \in 0 .. n
        /\ \A m \in 1 .. k : m \in 0 .. k /\ m - 1 \in 0 .. n /\ (m # k => m \in 1 .. n)
        /\ 0 \in 0 .. n /\ \A m \in 0 .. n : m \in 0 .. k /\ m # k
    BY <2>1, <2>2
  <2>4. PICK f : Stepped(f, T, base, G, n)
    BY <1>2, <2>2, <2>3
  <2>5. PICK t \in T : t = G[<<k, f[n]>>]
    BY <2>3, <2>4 DEF Stepped
  <2>6. PICK g : g = [m \in 0 .. k |-> IF m = k THEN t ELSE f[m]]
    OBVIOUS
  <2>7. g \in [0 .. k -> T] /\ g[0] = base
    BY <2>3, <2>4, <2>6 DEF Stepped
  <2>8. \A m \in 1 .. k : g[m] = G[<<m, g[m - 1]>>]
    BY <2>3, <2>4, <2>5, <2>6 DEF Stepped
  <2>9. Stepped(g, T, base, G, k)
    BY <2>7, <2>8 DEF Stepped
  <2>10. QED
    BY <2>2, <2>9
<1> HIDE DEF S
<1>3. N \in S
  BY <1>1, <1>2, SetInduction
<1>4. QED
  BY <1>3 DEF S

(* The elements of a sequence with one more, and of two.                   *)
LEMMA ToSetAppend ==
  ASSUME NEW A, NEW s \in Seq(A), NEW g \in A
  PROVE  ToSet(Append(s, g)) = ToSet(s) \cup {g}
<1> DEFINE t == Append(s, g)
<1>1. /\ DOMAIN t = 1 .. Len(s) + 1 /\ t[Len(s) + 1] = g
      /\ DOMAIN s = 1 .. Len(s) /\ Len(s) \in Nat
      /\ \A i \in 1 .. Len(s) : t[i] = s[i]
  OBVIOUS
<1> HIDE DEF t
<1>2. ASSUME NEW x \in ToSet(t) PROVE x \in ToSet(s) \cup {g}
  BY <1>1 DEF ToSet
<1>3. ASSUME NEW x \in ToSet(s) PROVE x \in ToSet(t)
  <2>1. PICK i \in 1 .. Len(s) : x = s[i]
    BY <1>1 DEF ToSet
  <2>2. x = t[i] /\ i \in DOMAIN t
    BY <1>1, <2>1
  <2>3. QED
    BY <2>2 DEF ToSet
<1>4. g \in ToSet(t)
  <2>1. Len(s) + 1 \in DOMAIN t
    BY <1>1
  <2>2. QED
    BY <1>1, <2>1 DEF ToSet
<1>5. ToSet(t) = ToSet(s) \cup {g}
  BY <1>2, <1>3, <1>4
<1>6. QED
  BY <1>5 DEF t

LEMMA ToSetConcat ==
  ASSUME NEW A, NEW s \in Seq(A), NEW t \in Seq(A)
  PROVE  ToSet(s \o t) = ToSet(s) \cup ToSet(t)
<1> DEFINE u == s \o t
<1>1. /\ DOMAIN u = 1 .. Len(s) + Len(t)
      /\ DOMAIN s = 1 .. Len(s) /\ Len(s) \in Nat
      /\ DOMAIN t = 1 .. Len(t) /\ Len(t) \in Nat
      /\ \A i \in 1 .. Len(s) : u[i] = s[i]
      /\ \A i \in 1 .. Len(t) : u[i + Len(s)] = t[i]
  OBVIOUS
<1> HIDE DEF u
<1>2. ASSUME NEW x \in ToSet(u) PROVE x \in ToSet(s) \cup ToSet(t)
  <2>1. PICK i \in 1 .. Len(s) + Len(t) : x = u[i]
    BY <1>1 DEF ToSet
  <2>2. CASE i <= Len(s)
    BY <1>1, <2>1, <2>2 DEF ToSet
  <2>3. CASE ~ (i <= Len(s))
    <3>1. i - Len(s) \in 1 .. Len(t) /\ (i - Len(s)) + Len(s) = i
      BY <1>1, <2>3
    <3>2. x = t[i - Len(s)]
      BY <1>1, <2>1, <3>1
    <3>3. QED
      BY <1>1, <3>1, <3>2 DEF ToSet
  <2>4. QED
    BY <2>2, <2>3
<1>3. ASSUME NEW x \in ToSet(s) PROVE x \in ToSet(u)
  <2>1. PICK i \in 1 .. Len(s) : x = s[i]
    BY <1>1 DEF ToSet
  <2>2. x = u[i] /\ i \in DOMAIN u
    BY <1>1, <2>1
  <2>3. QED
    BY <2>2 DEF ToSet
<1>4. ASSUME NEW x \in ToSet(t) PROVE x \in ToSet(u)
  <2>1. PICK i \in 1 .. Len(t) : x = t[i]
    BY <1>1 DEF ToSet
  <2>2. x = u[i + Len(s)] /\ i + Len(s) \in DOMAIN u
    BY <1>1, <2>1
  <2>3. QED
    BY <2>2 DEF ToSet
<1>5. ToSet(u) = ToSet(s) \cup ToSet(t)
  BY <1>2, <1>3, <1>4
<1>6. QED
  BY <1>5 DEF u

-----------------------------------------------------------------------------
-----------------------------------------------------------------------------
(* A depth-first tree of the graph G on the numbers 1 .. n: P[i] is the    *)
(* parent of number i, A[i] the numbers on the way from 1 to i in the      *)
(* tree.  The parent of i lies on the way to i - 1, and an edge to a       *)
(* higher number comes from an ancestor of it.                             *)
DfsTree(n, G, P, A) ==
  /\ n \in Nat
  /\ \A i \in 1 .. n : A[i] \subseteq 1 .. n
  /\ n > 0 => A[1] = {1}
  /\ \A i \in 2 .. n : /\ P[i] \in 1 .. i - 1 /\ <<P[i], i>> \in G
                       /\ A[i] = A[P[i]] \cup {i} /\ P[i] \in A[i - 1]
  /\ \A i, j \in 1 .. n : <<i, j>> \in G /\ i < j => i \in A[j]

(* What the way to a number has on it: numbers up to it, 1 and itself.     *)
LEMMA WayBounds ==
  ASSUME NEW n, NEW G, NEW P, NEW A, DfsTree(n, G, P, A)
  PROVE  \A j \in 1 .. n : /\ 1 \in A[j] /\ j \in A[j]
                           /\ \A i \in A[j] : i \in 1 .. j
<1>0. n \in Nat
  BY DEF DfsTree
<1> DEFINE S == {m \in Nat : \A j \in 1 .. n : j <= m =>
                    1 \in A[j] /\ j \in A[j] /\ \A i \in A[j] : i \in 1 .. j}
<1>1. 0 \in S
  BY <1>0
<1>2. ASSUME NEW m \in Nat, m \in S PROVE m + 1 \in S
  <2>1. SUFFICES ASSUME m + 1 \in 1 .. n
                 PROVE  /\ 1 \in A[m + 1] /\ m + 1 \in A[m + 1]
                        /\ \A i \in A[m + 1] : i \in 1 .. m + 1
    <3>1. \A j \in 1 .. n : j <= m + 1 => j <= m \/ (j = m + 1 /\ m + 1 \in 1 .. n)
      BY <1>0
    <3>2. QED
      BY <1>2, <2>1, <3>1
  <2>2. CASE m = 0
    BY <2>1, <2>2 DEF DfsTree
  <2>3. CASE m # 0
    <3>1. m + 1 \in 2 .. n /\ (m + 1) - 1 = m
      BY <2>1, <2>3, <1>0
    <3>2. P[m + 1] \in 1 .. m /\ A[m + 1] = A[P[m + 1]] \cup {m + 1}
      BY <3>1 DEF DfsTree
    <3>3. P[m + 1] \in 1 .. n /\ P[m + 1] <= m
      BY <3>1, <3>2, <1>0
    <3>4. 1 \in A[P[m + 1]] /\ \A i \in A[P[m + 1]] : i \in 1 .. P[m + 1]
      BY <1>2, <3>3
    <3>5. \A i \in 1 .. P[m + 1] : i \in 1 .. m + 1
      BY <3>2
    <3>6. QED
      BY <3>2, <3>4, <3>5
  <2>4. QED
    BY <2>2, <2>3
<1> HIDE DEF S
<1>3. n \in S
  BY <1>0, <1>1, <1>2, SetInduction
<1>4. \A j \in 1 .. n : j <= n
  BY <1>0
<1>5. QED
  BY <1>3, <1>4 DEF S

(* The ways are closed under going up. *)
LEMMA WayTransitive ==
  ASSUME NEW n, NEW G, NEW P, NEW A, DfsTree(n, G, P, A)
  PROVE  \A k \in 1 .. n : \A j \in A[k] : A[j] \subseteq A[k]
<1>0. n \in Nat
  BY DEF DfsTree
<1> DEFINE S == {m \in Nat : \A k \in 1 .. n : k <= m => \A j \in A[k] : A[j] \subseteq A[k]}
<1>1. 0 \in S
  BY <1>0
<1>2. ASSUME NEW m \in Nat, m \in S PROVE m + 1 \in S
  <2>1. SUFFICES ASSUME m + 1 \in 1 .. n PROVE \A j \in A[m + 1] : A[j] \subseteq A[m + 1]
    <3>1. \A j \in 1 .. n : j <= m + 1 => j <= m \/ (j = m + 1 /\ m + 1 \in 1 .. n)
      BY <1>0
    <3>2. QED
      BY <1>2, <2>1, <3>1
  <2>2. CASE m = 0
    BY <2>1, <2>2 DEF DfsTree
  <2>3. CASE m # 0
    <3>1. m + 1 \in 2 .. n /\ (m + 1) - 1 = m
      BY <2>1, <2>3, <1>0
    <3>2. P[m + 1] \in 1 .. m /\ A[m + 1] = A[P[m + 1]] \cup {m + 1}
      BY <3>1 DEF DfsTree
    <3>3. P[m + 1] \in 1 .. n /\ P[m + 1] <= m
      BY <3>1, <3>2, <1>0
    <3>4. \A j \in A[P[m + 1]] : A[j] \subseteq A[P[m + 1]]
      BY <1>2, <3>3
    <3>5. QED
      BY <3>2, <3>4
  <2>4. QED
    BY <2>2, <2>3
<1> HIDE DEF S
<1>3. n \in S
  BY <1>0, <1>1, <1>2, SetInduction
<1>4. \A j \in 1 .. n : j <= n
  BY <1>0
<1>5. QED
  BY <1>3, <1>4 DEF S

(* The numbers between i and a descendant of i are descendants of i.       *)
LEMMA WayBetween ==
  ASSUME NEW n, NEW G, NEW P, NEW A, DfsTree(n, G, P, A)
  PROVE  \A k \in 1 .. n : \A i \in A[k] : \A j \in i .. k : i \in A[j]
<1>0. n \in Nat
  BY DEF DfsTree
<1> DEFINE S == {m \in Nat : \A k \in 1 .. n : k <= m =>
                                \A i \in A[k] : \A j \in i .. k : i \in A[j]}
<1>1. 0 \in S
  BY <1>0
<1>2. ASSUME NEW m \in Nat, m \in S PROVE m + 1 \in S
  <2>1. SUFFICES ASSUME m + 1 \in 1 .. n, NEW i \in A[m + 1], NEW j \in i .. m + 1, j # m + 1
                 PROVE  i \in A[j]
    <3>1. \A k \in 1 .. n : k <= m + 1 => k <= m \/ (k = m + 1 /\ m + 1 \in 1 .. n)
      BY <1>0
    <3>2. QED
      BY <1>2, <2>1, <3>1
  <2>2. i \in 1 .. m + 1
    BY <2>1, WayBounds
  <2>3. j \in i .. m /\ m \in 1 .. n /\ m <= m /\ i # m + 1 /\ m + 1 \in 2 .. n /\ (m + 1) - 1 = m
    BY <1>0, <2>1, <2>2
  <2>4. P[m + 1] \in A[m] /\ i \in A[P[m + 1]]
    <3>1. P[m + 1] \in A[(m + 1) - 1] /\ A[m + 1] = A[P[m + 1]] \cup {m + 1}
      BY <2>3 DEF DfsTree
    <3>2. QED
      BY <2>1, <2>3, <3>1
  <2>5. i \in A[m]
    BY <2>3, <2>4, WayTransitive
  <2>6. QED
    BY <1>2, <2>3, <2>5
<1> HIDE DEF S
<1>3. n \in S
  BY <1>0, <1>1, <1>2, SetInduction
<1>4. \A j \in 1 .. n : j <= n
  BY <1>0
<1>5. QED
  BY <1>3, <1>4 DEF S

(* Below its own number the way to i is the way to its parent.             *)
LEMMA WayAbove ==
  ASSUME NEW n, NEW G, NEW P, NEW A, DfsTree(n, G, P, A)
  PROVE  /\ \A i \in 2 .. n : P[i] \in A[i] /\ \A a \in A[i] : a # i => a \in A[P[i]] /\ a <= P[i]
         /\ \A k \in 1 .. n : \A i, j \in A[k] : i <= j => i \in A[j]
<1>0. n \in Nat
  BY DEF DfsTree
<1>1. ASSUME NEW i \in 2 .. n
      PROVE  P[i] \in A[i] /\ \A a \in A[i] : a # i => a \in A[P[i]] /\ a <= P[i]
  <2>1. P[i] \in 1 .. i - 1 /\ A[i] = A[P[i]] \cup {i}
    BY DEF DfsTree
  <2>2. P[i] \in 1 .. n
    BY <1>0, <2>1
  <2>3. P[i] \in A[P[i]] /\ \A a \in A[P[i]] : a \in 1 .. P[i]
    BY <2>2, WayBounds
  <2>4. \A a \in 1 .. P[i] : a <= P[i]
    BY <2>2
  <2>5. QED
    BY <2>1, <2>3, <2>4
<1>2. ASSUME NEW k \in 1 .. n, NEW i \in A[k], NEW j \in A[k], i <= j
      PROVE  i \in A[j]
  <2>1. i \in 1 .. k /\ j \in 1 .. k
    BY WayBounds
  <2>2. j \in i .. k
    BY <1>0, <1>2, <2>1
  <2>3. QED
    BY <2>2, WayBetween
<1>3. QED
  BY <1>1, <1>2

-----------------------------------------------------------------------------
(* R[a] is the set of the numbers that can be reached from 1 around a.     *)
Avoids(n, G, R) ==
  \A a \in 1 .. n :
    /\ a \notin R[a] /\ R[a] \subseteq 1 .. n
    /\ a # 1 => 1 \in R[a]
    /\ \A i \in R[a], j \in 1 .. n : <<i, j>> \in G /\ j # a => j \in R[a]
    /\ \A S \in SUBSET (1 .. n) :
         /\ a # 1 => 1 \in S
         /\ \A i \in S, j \in 1 .. n : <<i, j>> \in G /\ j # a => j \in S
         => R[a] \subseteq S

(* Down the tree from a number that is reached around a, all are, unless a *)
(* lies between.                                                           *)
LEMMA ReachedBelow ==
  ASSUME NEW n, NEW G, NEW P, NEW A, DfsTree(n, G, P, A), NEW R, Avoids(n, G, R),
         NEW a \in 1 .. n, NEW i \in R[a]
  PROVE  \A j \in 1 .. n : i \in A[j] /\ (a \notin A[j] \/ a < i) => j \in R[a]
<1>0. n \in Nat /\ i \in 1 .. n
  BY DEF DfsTree, Avoids
<1> DEFINE S == {m \in Nat : \A j \in 1 .. n : j <= m =>
                   (i \in A[j] /\ (a \notin A[j] \/ a < i) => j \in R[a])}
<1>1. 0 \in S
  BY <1>0
<1>2. ASSUME NEW m \in Nat, m \in S PROVE m + 1 \in S
  <2>1. SUFFICES ASSUME m + 1 \in 1 .. n, i \in A[m + 1], a \notin A[m + 1] \/ a < i, m + 1 # i
                 PROVE  m + 1 \in R[a]
    <3>1. \A j \in 1 .. n : j <= m + 1 => j <= m \/ (j = m + 1 /\ m + 1 \in 1 .. n)
      BY <1>0
    <3>2. QED
      BY <1>2, <2>1, <3>1
  <2>2. i \in 1 .. m + 1 /\ m + 1 \in A[m + 1]
    BY <2>1, WayBounds
  <2>3. m + 1 \in 2 .. n /\ i < m + 1 /\ m + 1 # a
    BY <1>0, <2>1, <2>2
  <2>4. /\ P[m + 1] \in 1 .. (m + 1) - 1 /\ A[m + 1] = A[P[m + 1]] \cup {m + 1}
        /\ <<P[m + 1], m + 1>> \in G
    BY <2>3 DEF DfsTree
  <2>5. P[m + 1] \in 1 .. n /\ P[m + 1] <= m
    BY <1>0, <2>3, <2>4
  <2>6. i \in A[P[m + 1]] /\ (a \notin A[P[m + 1]] \/ a < i)
    BY <2>1, <2>4
  <2>7. P[m + 1] \in R[a]
    BY <1>2, <2>5, <2>6
  <2>8. QED
    BY <2>1, <2>3, <2>4, <2>7 DEF Avoids
<1> HIDE DEF S
<1>3. n \in S
  BY <1>0, <1>1, <1>2, SetInduction
<1>4. \A j \in 1 .. n : j <= n
  BY <1>0
<1>5. QED
  BY <1>3, <1>4 DEF S

(* Numbers below a are reached around a.                                   *)
LEMMA ReachedEarlier ==
  ASSUME NEW n, NEW G, NEW P, NEW A, DfsTree(n, G, P, A), NEW R, Avoids(n, G, R),
         NEW a \in 1 .. n
  PROVE  /\ \A j \in 1 .. n : a \notin A[j] => j \in R[a]
         /\ \A j \in 1 .. n : j < a => j \in R[a]
<1>0. n \in Nat
  BY DEF DfsTree
<1>1. ASSUME NEW j \in 1 .. n, a \notin A[j] PROVE j \in R[a]
  <2>1. 1 \in A[j]
    BY WayBounds
  <2>2. a # 1 /\ 1 \in R[a]
    BY <1>1, <2>1 DEF Avoids
  <2>3. QED
    BY <1>1, <2>1, <2>2, ReachedBelow
<1>2. ASSUME NEW j \in 1 .. n, j < a PROVE a \notin A[j]
  <2>1. a \in A[j] => a \in 1 .. j
    BY WayBounds
  <2>2. QED
    BY <1>0, <1>2, <2>1
<1>3. QED
  BY <1>1, <1>2

-----------------------------------------------------------------------------
(* The semi-dominators of the numbers from l on, as SemiOf finds them: of  *)
(* k, the least among its parent, the numbers below k with an edge to k,   *)
(* and the semi-dominators of those above k on the way to a number with an *)
(* edge to k.                                                              *)
SemiBound(n, G, P, A, s, k, t) ==
  /\ t <= P[k]
  /\ \A v \in 1 .. n : <<v, k>> \in G =>
       /\ v <= k => t <= v
       /\ v > k => \A u \in A[v] : u > k => t <= s[u]

SemiFrom(n, G, P, A, s, k, t) ==
  \/ t = P[k]
  \/ t \in 1 .. n /\ t <= k /\ <<t, k>> \in G
  \/ \E v \in 1 .. n : \E u \in A[v] : <<v, k>> \in G /\ u > k /\ t = s[u]

Semis(n, G, P, A, s, l) ==
  \A k \in l .. n : /\ SemiBound(n, G, P, A, s, k, s[k])
                    /\ SemiFrom(n, G, P, A, s, k, s[k])
                    /\ s[k] \in A[k] /\ s[k] \in 1 .. k - 1

(* It is a proper ancestor.                                                *)
LEMMA SemiIsAncestor ==
  ASSUME NEW n, NEW G, NEW P, NEW A, DfsTree(n, G, P, A),
         NEW s, NEW k \in 2 .. n, Semis(n, G, P, A, s, k + 1), NEW t,
         SemiBound(n, G, P, A, s, k, t), SemiFrom(n, G, P, A, s, k, t)
  PROVE  t \in A[k] /\ t \in 1 .. k - 1
<1>0. n \in Nat /\ P[k] \in 1 .. k - 1
  BY DEF DfsTree
<1>1. n \in Nat /\ P[k] \in 1 .. k - 1 /\ k \in 1 .. n
  BY <1>0
<1>2. P[k] \in A[k] /\ t <= P[k]
  BY WayAbove DEF SemiBound
<1>3. CASE t = P[k]
  BY <1>1, <1>2, <1>3
<1>4. CASE t \in 1 .. n /\ t <= k /\ <<t, k>> \in G
  <2>1. t < k /\ t \in 1 .. k - 1
    BY <1>1, <1>2, <1>4
  <2>2. QED
    BY <1>1, <1>4, <2>1 DEF DfsTree
<1>5. CASE \E v \in 1 .. n : \E u \in A[v] : <<v, k>> \in G /\ u > k /\ t = s[u]
  <2>1. PICK v \in 1 .. n : \E x \in A[v] : x > k /\ t = s[x]
    BY <1>5
  <2>2. PICK u \in A[v] : u > k /\ t = s[u]
    BY <2>1
  <2>7. u \in 1 .. v
    BY <2>2, WayBounds
  <2>3. u \in k + 1 .. n /\ u \in 1 .. n
    BY <1>1, <2>2, <2>7
  <2>4. t \in A[u] /\ t \in 1 .. u - 1
    BY <2>2, <2>3 DEF Semis
  <2>5. t \in 1 .. k - 1 /\ k \in t .. u
    BY <1>1, <1>2, <2>2, <2>3, <2>4
  <2>6. QED
    BY <2>3, <2>4, <2>5, WayBetween
<1>6. QED
  BY <1>3, <1>4, <1>5 DEF SemiFrom

(* No number between the semi-dominator of w and w dominates w.            *)
LEMMA SemiReaches ==
  ASSUME NEW n, NEW G, NEW P, NEW A, DfsTree(n, G, P, A), NEW R, Avoids(n, G, R),
         NEW s, Semis(n, G, P, A, s, 2), NEW a \in 1 .. n
  PROVE  \A w \in 2 .. n : s[w] < a /\ a < w => w \in R[a]
<1>0. n \in Nat
  BY DEF DfsTree
<1> DEFINE S == {m \in Nat : \A w \in 2 .. n : w > n - m /\ s[w] < a /\ a < w => w \in R[a]}
<1>1. 0 \in S
  BY <1>0
<1>2. ASSUME NEW m \in Nat, m \in S PROVE m + 1 \in S
  <2>1. SUFFICES ASSUME NEW w \in 2 .. n, w = n - m, s[w] < a, a < w PROVE w \in R[a]
    <3>1. \A w \in 2 .. n : w > n - (m + 1) => w > n - m \/ w = n - m
      BY <1>0
    <3>2. QED
      BY <1>2, <2>1, <3>1
  <2>2. /\ SemiFrom(n, G, P, A, s, w, s[w])
        /\ s[w] \in A[w] /\ s[w] \in 1 .. w - 1
    BY DEF Semis
  <2>3. s[w] \in 1 .. n /\ w \in 1 .. n
    BY <1>0, <2>2
  <2>4. s[w] \in R[a] /\ w # a
    BY <2>1, <2>3, <1>0, ReachedEarlier
  <2>5. CASE <<s[w], w>> \in G
    BY <2>3, <2>4, <2>5 DEF Avoids
  <2>6. CASE s[w] = P[w]
    BY <2>3, <2>4, <2>5, <2>6 DEF DfsTree
  <2>7. CASE \E v \in 1 .. n : \E u \in A[v] : <<v, w>> \in G /\ u > w /\ s[w] = s[u]
    <3>7. PICK v \in 1 .. n : \E x \in A[v] : <<v, w>> \in G /\ x > w /\ s[w] = s[x]
      BY <2>7
    <3>1. PICK u \in A[v] : <<v, w>> \in G /\ u > w /\ s[w] = s[u]
      BY <3>7
    <3>2. u \in 1 .. v
      BY <3>1, WayBounds
    <3>3. u \in 2 .. n /\ u > n - m /\ s[u] < a /\ a < u
      BY <1>0, <2>1, <3>1, <3>2
    <3>4. u \in R[a]
      BY <1>2, <3>3
    <3>5. v \in R[a]
      BY <3>1, <3>3, <3>4, ReachedBelow
    <3>6. QED
      BY <2>3, <2>4, <3>1, <3>5 DEF Avoids
  <2>8. QED
    BY <2>2, <2>5, <2>6, <2>7 DEF SemiFrom
<1> HIDE DEF S
<1>3. n \in S
  BY <1>0, <1>1, <1>2, SetInduction
<1>4. \A w \in 2 .. n : w > n - n
  BY <1>0
<1>5. QED
  BY <1>3, <1>4 DEF S

(* Domination in terms of semi-dominators: a dominates w if the numbers    *)
(* above a on the way to w have no semi-dominator below a.                 *)
Over(A, s, a, w) == \E u \in A[w] : u > a /\ s[u] < a

LEMMA AroundMeans ==
  ASSUME NEW n, NEW G, NEW P, NEW A, DfsTree(n, G, P, A), NEW R, Avoids(n, G, R),
         NEW s, Semis(n, G, P, A, s, 2), NEW a \in 1 .. n, NEW w \in 1 .. n
  PROVE  w \in R[a] <=> w < a \/ Over(A, s, a, w)
<1>0. n \in Nat
  BY DEF DfsTree
<1>1. w < a => w \in R[a]
  BY ReachedEarlier
<1>2. ASSUME Over(A, s, a, w) PROVE w \in R[a]
  <2>1. PICK u \in A[w] : u > a /\ s[u] < a
    BY <1>2 DEF Over
  <2>2. u \in 1 .. w
    BY <2>1, WayBounds
  <2>3. u \in 2 .. n
    BY <1>0, <2>1, <2>2
  <2>4. u \in R[a]
    BY <2>1, <2>3, SemiReaches
  <2>5. QED
    BY <2>1, <2>4, ReachedBelow
<1> DEFINE S == {z \in 1 .. n : z < a \/ Over(A, s, a, z)}
<1>3. R[a] \subseteq S
  <2>1. S \in SUBSET (1 .. n) /\ (a # 1 => 1 \in S)
    BY <1>0
  <2>2. ASSUME NEW z \in S, NEW y \in 1 .. n, <<z, y>> \in G, y # a PROVE y \in S
    <3>1. SUFFICES ASSUME y > a PROVE Over(A, s, a, y)
      BY <1>0, <2>2
    <3>2. z \in 1 .. n /\ y \in 2 .. n /\ y \in A[y]
      BY <1>0, <3>1, WayBounds
    <3>3. SemiBound(n, G, P, A, s, y, s[y]) /\ s[y] \in 1 .. y - 1
      BY <3>2 DEF Semis
    <3>4. CASE z < a
      <4>1. z <= y
        BY <1>0, <3>1, <3>2, <3>4
      <4>2. s[y] <= z
        BY <2>2, <3>2, <3>3, <4>1 DEF SemiBound
      <4>3. s[y] < a
        BY <1>0, <3>2, <3>3, <3>4, <4>2
      <4>4. QED
        BY <3>1, <3>2, <4>3 DEF Over
    <3>5. CASE ~(z < a)
      <4>1. PICK u \in A[z] : u > a /\ s[u] < a
        BY <3>5 DEF Over
      <4>2. u \in 1 .. z
        BY <3>2, <4>1, WayBounds
      <4>3. CASE u \in A[y]
        BY <4>1, <4>3 DEF Over
      <4>4. CASE u \notin A[y]
        <5>1. ~(z < y)
          <6>1. SUFFICES ASSUME z < y PROVE FALSE
            OBVIOUS
          <6>2. z \in A[y]
            BY <2>2, <3>2, <6>1 DEF DfsTree
          <6>3. A[z] \subseteq A[y]
            BY <3>2, <6>2, WayTransitive
          <6>4. QED
            BY <4>1, <4>4, <6>3
        <5>2. ~(u <= y)
          <6>1. SUFFICES ASSUME u <= y PROVE FALSE
            OBVIOUS
          <6>2. y \in u .. z
            BY <1>0, <3>2, <4>2, <5>1, <6>1
          <6>3. u \in A[y]
            BY <3>2, <4>1, <6>2, WayBetween
          <6>4. QED
            BY <4>4, <6>3
        <5>3. u > y /\ z > y
          BY <1>0, <3>2, <4>2, <5>1, <5>2
        <5>4. s[y] <= s[u]
          BY <2>2, <3>2, <3>3, <4>1, <5>3 DEF SemiBound
        <5>5. u \in 2 .. n
          BY <1>0, <3>2, <4>2, <5>3
        <5>6. s[u] \in 1 .. u - 1
          BY <5>5 DEF Semis
        <5>7. s[y] < a
          BY <1>0, <3>3, <4>1, <5>4, <5>6
        <5>8. QED
          BY <3>1, <3>2, <5>7 DEF Over
      <4>5. QED
        BY <4>3, <4>4
    <3>6. QED
      BY <3>4, <3>5
  <2> HIDE DEF S
  <2>3. QED
    BY <2>1, <2>2 DEF Avoids
<1>4. QED
  BY <1>1, <1>2, <1>3

(* The strict dominators of w are not above its semi-dominator.            *)
LEMMA DominatorsBelow ==
  ASSUME NEW n, NEW G, NEW P, NEW A, DfsTree(n, G, P, A), NEW R, Avoids(n, G, R),
         NEW s, Semis(n, G, P, A, s, 2), NEW a \in 1 .. n, NEW w \in 2 .. n,
         a # w, w \notin R[a]
  PROVE  a <= s[w]
<1>1. n \in Nat
  BY DEF DfsTree
<1>2. w \in 1 .. n
  BY <1>1
<1>3. s[w] \in 1 .. w - 1 /\ w \in A[w]
  BY <1>2, WayBounds DEF Semis
<1>4. ~(w < a) /\ ~Over(A, s, a, w)
  BY <1>2, AroundMeans
<1>5. ~(s[w] < a)
  BY <1>1, <1>2, <1>3, <1>4 DEF Over
<1>6. QED
  BY <1>1, <1>3, <1>5

(* d is the immediate dominator of w.                                      *)
IsIdom(n, R, d, w) ==
  /\ d \in 1 .. w - 1 /\ w \notin R[d]
  /\ \A a \in 1 .. n : a # w /\ w \notin R[a] => d \notin R[a]

(* u has the least semi-dominator on the way from that of w to w.          *)
Lowest(A, s, w, u) ==
  /\ u \in A[w] /\ u > s[w]
  /\ \A x \in A[w] : x > s[w] => s[u] <= s[x]

(* If it is that of w, it is the immediate dominator.                      *)
LEMMA IdomIsSemi ==
  ASSUME NEW n, NEW G, NEW P, NEW A, DfsTree(n, G, P, A), NEW R, Avoids(n, G, R),
         NEW s, Semis(n, G, P, A, s, 2), NEW w \in 2 .. n, NEW u, Lowest(A, s, w, u),
         s[u] = s[w]
  PROVE  IsIdom(n, R, s[w], w)
<1>1. n \in Nat
  BY DEF DfsTree
<1>2. w \in 1 .. n /\ s[w] \in 1 .. w - 1 /\ s[w] \in A[w]
  BY <1>1 DEF Semis
<1>3. s[w] \in 1 .. n
  BY <1>1, <1>2
<1>4. \A x \in A[w] : x > s[w] => ~(s[x] < s[w])
  <2> TAKE x \in A[w]
  <2>1. SUFFICES ASSUME x > s[w] PROVE ~(s[x] < s[w])
    OBVIOUS
  <2>2. x \in 1 .. w
    BY <1>2, WayBounds
  <2>3. x \in 2 .. n
    BY <1>1, <1>2, <2>1, <2>2
  <2>4. s[x] \in 1 .. x - 1 /\ s[w] <= s[x]
    BY <2>1, <2>3 DEF Semis, Lowest
  <2>5. QED
    BY <1>2, <2>3, <2>4
<1>5. w \notin R[s[w]]
  <2>1. ~(w < s[w]) /\ ~Over(A, s, s[w], w)
    BY <1>1, <1>2, <1>4 DEF Over
  <2>2. QED
    BY <1>2, <1>3, <2>1, AroundMeans
<1>6. ASSUME NEW a \in 1 .. n, a # w, w \notin R[a] PROVE s[w] \notin R[a]
  <2>1. a <= s[w]
    BY <1>6, DominatorsBelow
  <2>2. ~Over(A, s, a, w)
    BY <1>2, <1>6, AroundMeans
  <2>3. A[s[w]] \subseteq A[w]
    BY <1>2, WayTransitive
  <2>4. ~Over(A, s, a, s[w]) /\ ~(s[w] < a)
    BY <1>1, <1>2, <2>1, <2>2, <2>3 DEF Over
  <2>5. QED
    BY <1>3, <2>4, AroundMeans
<1>7. QED
  BY <1>2, <1>5, <1>6 DEF IsIdom

(* Else w and u have the same immediate dominator.                         *)
LEMMA IdomIsShared ==
  ASSUME NEW n, NEW G, NEW P, NEW A, DfsTree(n, G, P, A), NEW R, Avoids(n, G, R),
         NEW s, Semis(n, G, P, A, s, 2), NEW w \in 2 .. n, NEW u, Lowest(A, s, w, u),
         s[u] # s[w], NEW d, IsIdom(n, R, d, u)
  PROVE  IsIdom(n, R, d, w) /\ u \in 2 .. w - 1
<1>1. n \in Nat
  BY DEF DfsTree
<1>2. w \in 1 .. n /\ s[w] \in 1 .. w - 1 /\ s[w] \in A[w] /\ w \in A[w]
  <2>1. w \in 1 .. n
    BY <1>1
  <2>2. QED
    BY <2>1, WayBounds DEF Semis
<1>3. u \in A[w] /\ u > s[w] /\ u \in 1 .. w
  BY <1>2, WayBounds DEF Lowest
<1>4. u # w /\ u \in 2 .. w - 1 /\ u \in 2 .. n
  BY <1>1, <1>2, <1>3
<1>5. s[u] \in 1 .. u - 1 /\ s[u] <= s[w]
  BY <1>2, <1>4 DEF Semis, Lowest
<1>6. s[u] < s[w] /\ u \in 1 .. n
  BY <1>1, <1>2, <1>4, <1>5
<1>7. A[u] \subseteq A[w] /\ \A x \in A[w] : x <= u => x \in A[u]
  <2>1. A[u] \subseteq A[w]
    BY <1>2, <1>3, WayTransitive
  <2>2. QED
    BY <1>2, <1>3, <2>1, WayAbove
(* a strict dominator of w is one of u *)
<1>8. ASSUME NEW a \in 1 .. n, a # w, w \notin R[a] PROVE a # u /\ u \notin R[a]
  <2>1. a <= s[w]
    BY <1>8, DominatorsBelow
  <2>2. ~Over(A, s, a, w)
    BY <1>2, <1>8, AroundMeans
  <2>3. ~Over(A, s, a, u) /\ ~(u < a) /\ a # u
    BY <1>1, <1>2, <1>3, <1>7, <2>1, <2>2 DEF Over
  <2>4. QED
    BY <1>6, <2>3, AroundMeans
(* and the other way round *)
<1>9. ASSUME NEW a \in 1 .. n, a # u, u \notin R[a] PROVE w \notin R[a]
  <2>1. a <= s[u]
    BY <1>4, <1>9, DominatorsBelow
  <2>2. ~Over(A, s, a, u)
    BY <1>6, <1>9, AroundMeans
  <2>3. ASSUME NEW x \in A[w], x > a PROVE ~(s[x] < a)
    <3>1. x \in 1 .. w
      BY <1>2, WayBounds
    <3>2. CASE x <= u
      BY <1>7, <2>2, <2>3, <3>2 DEF Over
    <3>3. CASE ~(x <= u)
      <4>1. x > s[w] /\ x \in 2 .. n
        BY <1>1, <1>2, <1>3, <3>1, <3>3
      <4>2. s[u] <= s[x] /\ s[x] \in 1 .. x - 1
        BY <4>1 DEF Lowest, Semis
      <4>3. QED
        BY <1>5, <2>1, <4>1, <4>2
    <3>4. QED
      BY <3>2, <3>3
  <2>4. ~(w < a)
    BY <1>1, <1>2, <1>5, <1>6, <2>1
  <2>5. ~Over(A, s, a, w)
    BY <2>3 DEF Over
  <2>6. QED
    BY <1>2, <2>4, <2>5, AroundMeans
<1>10. d \in 1 .. u - 1 /\ u \notin R[d] /\ d \in 1 .. n /\ d # u /\ d \in 1 .. w - 1
  <2>1. d \in 1 .. u - 1 /\ u \notin R[d]
    BY DEF IsIdom
  <2>2. QED
    BY <1>1, <1>4, <2>1
<1>11. w \notin R[d]
  BY <1>9, <1>10
<1>12. ASSUME NEW a \in 1 .. n, a # w, w \notin R[a] PROVE d \notin R[a]
  BY <1>8, <1>12 DEF IsIdom
<1>13. QED
  BY <1>4, <1>10, <1>11, <1>12 DEF IsIdom

-----------------------------------------------------------------------------
(* A recursive function on 0 .. N exists.                                  *)
Solves(g, T, base, G, N) ==
  /\ g \in [0 .. N -> T] /\ g = [k \in 0 .. N |-> g[k]] /\ g[0] = base
  /\ \A k \in 0 .. N : g[k] \in T
  /\ \A k \in 1 .. N : g[k - 1] \in T /\ g[k] = G[<<k, g[k - 1]>>]

LEMMA FunctionExists ==
  ASSUME NEW T, NEW base \in T, NEW N \in Nat, NEW G \in [(1 .. N) \X T -> T]
  PROVE  \E g : Solves(g, T, base, G, N)
<1>1. PICK g : Stepped(g, T, base, G, N)
  BY RecursionExists
<1>2. \A k \in 1 .. N : k - 1 \in 0 .. N
  OBVIOUS
<1>3. Solves(g, T, base, G, N)
  BY <1>1, <1>2 DEF Stepped, Solves
<1>4. QED
  BY <1>3

(* A function that follows the same step is one of them.                   *)
LEMMA FunctionSolves ==
  ASSUME NEW T, NEW base \in T, NEW N \in Nat, NEW G \in [(1 .. N) \X T -> T], NEW f,
         f = [k \in 0 .. N |-> f[k]], f[0] = base,
         \A k \in 1 .. N : f[k - 1] \in T => f[k] = G[<<k, f[k - 1]>>]
  PROVE  Solves(f, T, base, G, N)
<1> DEFINE S == {k \in Nat : k <= N => f[k] \in T}
<1>1. 0 \in S
  OBVIOUS
<1>2. ASSUME NEW k \in Nat, k \in S PROVE k + 1 \in S
  <2>1. SUFFICES ASSUME k + 1 <= N PROVE f[k + 1] \in T
    OBVIOUS
  <2>2. k + 1 \in 1 .. N /\ (k + 1) - 1 = k /\ k <= N
    BY <2>1
  <2>3. f[k] \in T
    BY <1>2, <2>2
  <2>4. f[k + 1] = G[<<k + 1, f[k]>>] /\ <<k + 1, f[k]>> \in (1 .. N) \X T
    BY <2>2, <2>3
  <2>5. QED
    BY <2>4
<1> HIDE DEF S
<1>3. Nat \subseteq S
  BY <1>1, <1>2, SetInduction
<1>4. \A k \in 0 .. N : f[k] \in T
  BY <1>3 DEF S
<1>5. f \in [0 .. N -> T]
  BY <1>4
<1>6. \A k \in 1 .. N : k - 1 \in 0 .. N /\ k \in 0 .. N /\ k # 0
  OBVIOUS
<1>7. \A k \in 1 .. N : f[k] = G[<<k, f[k - 1]>>]
  BY <1>4, <1>6
<1>8. QED
  BY <1>4, <1>5, <1>6, <1>7 DEF Solves

(* Sets that grow by a monotone step have stopped growing after as many    *)
(* rounds as there are elements.                                           *)
Settles(X, X0, D, B) ==
  /\ D[X] = X /\ X0 \subseteq X
  /\ \A C \in SUBSET B : X0 \subseteq C /\ D[C] \subseteq C => X \subseteq C

LEMMA GrowthSettles ==
  ASSUME NEW B, IsFiniteSet(B), NEW N \in Nat, Cardinality(B) <= N,
         NEW D \in [SUBSET B -> SUBSET B],
         \A X, Y \in SUBSET B : X \subseteq Y => D[X] \subseteq D[Y],
         NEW g \in [0 .. N -> SUBSET B], g[0] \subseteq D[g[0]],
         \A k \in 1 .. N : g[k] = D[g[k - 1]]
  PROVE  Settles(g[N], g[0], D, B)
<1> DEFINE S == {k \in Nat : k <= N =>
                   /\ g[k] \subseteq D[g[k]] /\ g[0] \subseteq g[k]
                   /\ D[g[k]] = g[k] \/ Cardinality(g[k]) >= k
                   /\ \A C \in SUBSET B : g[0] \subseteq C /\ D[C] \subseteq C => g[k] \subseteq C}
<1>1. \A k \in 0 .. N : g[k] \in SUBSET B /\ IsFiniteSet(g[k]) /\ Cardinality(g[k]) \in Nat
  <2> TAKE k \in 0 .. N
  <2>1. g[k] \in SUBSET B
    OBVIOUS
  <2>2. IsFiniteSet(g[k])
    BY <2>1, FS_Subset
  <2>3. QED
    BY <2>1, <2>2, FS_CardinalityType
<1>2. 0 \in S
  <2>1. 0 \in 0 .. N
    OBVIOUS
  <2>2. Cardinality(g[0]) >= 0
    BY <1>1, <2>1
  <2>3. QED
    BY <2>2
<1>3. ASSUME NEW k \in Nat, k \in S PROVE k + 1 \in S
  <2>1. SUFFICES ASSUME k + 1 <= N
        PROVE /\ g[k + 1] \subseteq D[g[k + 1]] /\ g[0] \subseteq g[k + 1]
              /\ D[g[k + 1]] = g[k + 1] \/ Cardinality(g[k + 1]) >= k + 1
              /\ \A C \in SUBSET B : g[0] \subseteq C /\ D[C] \subseteq C => g[k + 1] \subseteq C
    OBVIOUS
  <2>2. k \in 0 .. N /\ k + 1 \in 1 .. N /\ (k + 1) - 1 = k /\ k + 1 \in 0 .. N /\ k <= N
    BY <2>1
  <2>3. g[k + 1] = D[g[k]]
    BY <2>2
  <2>4. /\ g[k] \subseteq D[g[k]] /\ g[0] \subseteq g[k]
        /\ D[g[k]] = g[k] \/ Cardinality(g[k]) >= k
        /\ \A C \in SUBSET B : g[0] \subseteq C /\ D[C] \subseteq C => g[k] \subseteq C
    BY <1>3, <2>2
  <2>5. g[k + 1] \subseteq D[g[k + 1]] /\ g[0] \subseteq g[k + 1]
    BY <1>1, <2>2, <2>3, <2>4
  <2>6. D[g[k + 1]] = g[k + 1] \/ Cardinality(g[k + 1]) >= k + 1
    <3>1. CASE D[g[k]] = g[k]
      BY <2>3, <3>1
    <3>2. CASE D[g[k]] # g[k]
      <4>1. g[k] \subseteq g[k + 1] /\ g[k] # g[k + 1] /\ Cardinality(g[k]) >= k
        BY <2>3, <2>4, <3>2
      <4>2. Cardinality(g[k]) < Cardinality(g[k + 1])
        BY <1>1, <2>2, <4>1, FS_Subset
      <4>3. QED
        BY <1>1, <2>2, <4>1, <4>2
    <3>3. QED
      BY <3>1, <3>2
  <2>7. ASSUME NEW C \in SUBSET B, g[0] \subseteq C, D[C] \subseteq C PROVE g[k + 1] \subseteq C
    <3>1. g[k] \subseteq C
      BY <2>4, <2>7
    <3>2. D[g[k]] \subseteq D[C]
      BY <1>1, <2>2, <3>1
    <3>3. QED
      BY <2>3, <2>7, <3>2
  <2>8. QED
    BY <2>5, <2>6, <2>7
<1>4. N \in S
  <2> HIDE DEF S
  <2>1. QED
    BY <1>2, <1>3, SetInduction
<1>5. N \in 0 .. N
  OBVIOUS
<1>6. D[g[N]] = g[N]
  <2>1. SUFFICES ASSUME Cardinality(g[N]) >= N PROVE D[g[N]] = g[N]
    BY <1>4
  <2>2. g[N] \subseteq B /\ Cardinality(g[N]) >= Cardinality(B)
    <3>1. Cardinality(B) \in Nat
      BY FS_CardinalityType
    <3>2. QED
      BY <1>1, <1>5, <2>1, <3>1
  <2>3. g[N] = B
    <3>1. g[N] \in SUBSET B /\ Cardinality(g[N]) <= Cardinality(B)
      BY <2>2, FS_Subset
    <3>2. Cardinality(g[N]) = Cardinality(B)
      <4>1. Cardinality(B) \in Nat /\ Cardinality(g[N]) \in Nat
        BY <1>1, <1>5, FS_CardinalityType
      <4>2. QED
        BY <2>2, <3>1, <4>1
    <3>3. QED
      BY <3>1, <3>2, FS_Subset
  <2>4. D[g[N]] \in SUBSET B
    BY <1>1, <1>5
  <2>5. g[N] \subseteq D[g[N]]
    BY <1>4
  <2>6. QED
    BY <2>3, <2>4, <2>5
<1>7. QED
  BY <1>4, <1>6 DEF Settles

-----------------------------------------------------------------------------
(* The graph.                                                              *)
LEMMA BlockIs ==
  /\ NBlocks \in Nat /\ NBlocks > 1 /\ 1 \in Block /\ NBlocks \in Block
  /\ IsFiniteSet(Block) /\ Cardinality(Block) = NBlocks
<1>1. NBlocks \in Nat /\ NBlocks > 1 /\ 1 \in Block /\ NBlocks \in Block
  BY DominatorsAssumption DEF Block
<1>2. IsFiniteSet(Block) /\ Cardinality(Block) = NBlocks
  BY <1>1, FS_Interval DEF Block
<1>3. QED
  BY <1>1, <1>2

JumpsRight == jump \in [Block -> Jump] /\ ip_labels \in Seq(2 .. NBlocks)

(* The most children a block can have. *)
Width == Len(ip_labels) + 2

LEMMA ChildIs ==
  ASSUME JumpsRight, NEW b \in Block
  PROVE  /\ child(b) \in Seq(2 .. NBlocks) /\ Len(child(b)) \in 0 .. Width
         /\ Width \in Nat /\ Width >= 2
         /\ DOMAIN child(b) = 1 .. Len(child(b))
         /\ b = NBlocks => child(b) = <<>>
         /\ b # NBlocks /\ kind(b) = "goto" => child(b) = <<jump[b][2]>>
         /\ b # NBlocks /\ kind(b) = "cbranch" => child(b) = <<jump[b][2], b + 1>>
         /\ b # NBlocks /\ kind(b) = "fall" => child(b) = <<b + 1>>
         /\ b # NBlocks /\ kind(b) = "computed" => child(b) = ip_labels
<1>1. NBlocks \in Nat /\ NBlocks > 1
  BY BlockIs
<1>a. Width \in Nat /\ Width >= 2 /\ Len(ip_labels) \in 0 .. Width
  BY DEF JumpsRight, Width
<1>2. CASE b = NBlocks
  BY <1>1, <1>2, <1>a DEF child
<1>3. CASE b # NBlocks
  <2>1. b + 1 \in 2 .. NBlocks
    BY <1>1, <1>3 DEF Block
  <2>2. jump[b] \in Jump
    BY DEF JumpsRight
  <2>3. CASE jump[b] = <<"fall", 0>>
    BY <1>3, <1>a, <2>1, <2>3 DEF child, kind
  <2>a. CASE jump[b] = <<"computed", 0>>
    <3>1. kind(b) = "computed"
      BY <2>a DEF kind
    <3>2. child(b) = ip_labels
      BY <1>3, <3>1 DEF child
    <3>3. ip_labels \in Seq(2 .. NBlocks) /\ DOMAIN ip_labels = 1 .. Len(ip_labels)
      BY DEF JumpsRight
    <3>4. QED
      BY <1>3, <1>a, <3>1, <3>2, <3>3
  <2>4. CASE jump[b] \in {"goto", "cbranch"} \X (2 .. NBlocks)
    <3>1. jump[b][2] \in 2 .. NBlocks /\ kind(b) \in {"goto", "cbranch"}
      BY <2>4 DEF kind
    <3>2. CASE kind(b) = "goto"
      BY <1>3, <1>a, <3>1, <3>2 DEF child
    <3>3. CASE kind(b) = "cbranch"
      BY <1>3, <1>a, <2>1, <3>1, <3>3 DEF child
    <3>4. QED
      BY <3>1, <3>2, <3>3
  <2>5. QED
    BY <2>2, <2>3, <2>4, <2>a DEF Jump
<1>4. QED
  BY <1>2, <1>3

LEMMA EdgeInto ==
  ASSUME JumpsRight, NEW a \in Block, NEW b, Edge(a, b)
  PROVE  b \in 2 .. NBlocks /\ b \in Block /\ b # 1
<1>1. PICK k \in DOMAIN child(a) : child(a)[k] = b
  BY DEF Edge
<1>2. b \in 2 .. NBlocks
  <2>1. child(a) \in Seq(2 .. NBlocks) /\ k \in 1 .. Len(child(a))
    BY <1>1, ChildIs
  <2>3. child(a)[k] \in 2 .. NBlocks
    BY <2>1, ElementOfSeq
  <2>4. QED
    BY <1>1, <2>3
<1>3. QED
  BY <1>2, BlockIs DEF Block

-----------------------------------------------------------------------------
(* The concatenation of the parts of a sequence: the elements of the       *)
(* result are those of the parts.                                          *)
Parts(f, u, A, n) ==
  /\ f \in [1 .. n -> Seq(A)]
  /\ n > 0 => f[1] = u[1]
  /\ \A i \in 2 .. n : f[i] = f[i - 1] \o u[i]

LEMMA FlattenExists ==
  ASSUME NEW A, NEW n \in Nat, n > 0, NEW u \in [1 .. n -> Seq(A)]
  PROVE  \E f : Parts(f, u, A, n) /\ FlattenSeq(u) = f[n]
<1> DEFINE G == [q \in (1 .. n - 1) \X Seq(A) |-> q[2] \o u[q[1] + 1]]
<1>1. \A k \in 1 .. n - 1 : k + 1 \in 1 .. n /\ u[k + 1] \in Seq(A)
  OBVIOUS
<1>2. G \in [(1 .. n - 1) \X Seq(A) -> Seq(A)]
  BY <1>1
<1>3. \A k \in 1 .. n - 1, x \in Seq(A) : G[<<k, x>>] = x \o u[k + 1]
  OBVIOUS
<1>4. u[1] \in Seq(A) /\ n - 1 \in Nat
  OBVIOUS
<1> HIDE DEF G
<1>5. PICK g : /\ g \in [0 .. n - 1 -> Seq(A)] /\ g[0] = u[1]
               /\ \A k \in 1 .. n - 1 : g[k] = G[<<k, g[k - 1]>>]
  <2> DEFINE T == Seq(A)
             m == n - 1
  <2>1. G \in [(1 .. m) \X T -> T] /\ u[1] \in T /\ m \in Nat
    BY <1>2, <1>4
  <2> HIDE DEF T, m
  <2>2. \E g : /\ g \in [0 .. m -> T] /\ g[0] = u[1]
               /\ \A k \in 1 .. m : g[k] = G[<<k, g[k - 1]>>]
    <3>1. PICK g : Solves(g, T, u[1], G, m)
      BY <2>1, FunctionExists
    <3>2. QED
      BY <3>1 DEF Solves
  <2>3. QED
    BY <2>2 DEF T, m
<1> DEFINE e == [i \in 1 .. n |-> g[i - 1]]
           F(h1) == [i \in 1 .. n |-> IF i = 1 THEN u[i] ELSE h1[i - 1] \o u[i]]
           f == CHOOSE h1 : h1 = F(h1)
<1>6. \A i \in 1 .. n : i - 1 \in 0 .. n - 1 /\ e[i] \in Seq(A)
  BY <1>5
<1>7. \A i \in 2 .. n : e[i] = e[i - 1] \o u[i]
  <2> TAKE i \in 2 .. n
  <2>1. i - 1 \in 1 .. n - 1 /\ (i - 1) - 1 \in 0 .. n - 1 /\ (i - 1) + 1 = i /\ i \in 1 .. n /\ i - 1 \in 1 .. n
    OBVIOUS
  <2>2. g[i - 1] = G[<<i - 1, g[(i - 1) - 1]>>]
    BY <1>5, <2>1
  <2>3. g[i - 1] = g[(i - 1) - 1] \o u[i]
    BY <1>3, <1>5, <2>1, <2>2
  <2>4. QED
    BY <2>1, <2>3
<1>8. e[1] = u[1]
  BY <1>5
<1>9. \A i \in 1 .. n : e[i] = F(e)[i]
  <2> HIDE DEF e
  <2>1. \A i \in 1 .. n : i = 1 \/ i \in 2 .. n
    OBVIOUS
  <2>2. QED
    BY <1>7, <1>8, <2>1
<1>10. e = F(e)
  <2>1. DOMAIN e = 1 .. n /\ e = [i \in 1 .. n |-> e[i]]
    OBVIOUS
  <2> HIDE DEF e
  <2>2. QED
    BY <1>9, <2>1
<1>11. f = F(f)
  <2> HIDE DEF e, F
  <2>1. QED
    BY <1>10
<1>12. FlattenSeq(u) = f[n]
  <2>1. Len(u) = n
    OBVIOUS
  <2>2. QED
    BY <2>1 DEF FlattenSeq
<1> DEFINE S == {k \in Nat : k <= n /\ k > 0 => f[k] = e[k]}
<1>13. \A k \in 1 .. n : f[k] = IF k = 1 THEN u[k] ELSE f[k - 1] \o u[k]
  <2> HIDE DEF f
  <2>1. QED
    BY <1>11
<1> HIDE DEF f, e
<1>14. 0 \in S
  OBVIOUS
<1>15. ASSUME NEW k \in Nat, k \in S PROVE k + 1 \in S
  <2>1. SUFFICES ASSUME k + 1 <= n PROVE f[k + 1] = e[k + 1]
    OBVIOUS
  <2>2. CASE k = 0
    <3>1. 1 \in 1 .. n /\ k + 1 = 1
      BY <2>2
    <3>2. QED
      BY <1>8, <1>13, <3>1
  <2>3. CASE k # 0
    <3>1. k + 1 \in 2 .. n /\ k + 1 \in 1 .. n /\ k + 1 # 1 /\ (k + 1) - 1 = k /\ k <= n /\ k > 0
      BY <2>1, <2>3
    <3>2. f[k] = e[k]
      BY <1>15, <3>1
    <3>3. f[k + 1] = f[(k + 1) - 1] \o u[k + 1]
      BY <1>13, <3>1
    <3>4. e[k + 1] = e[(k + 1) - 1] \o u[k + 1]
      BY <1>7, <3>1
    <3>5. QED
      BY <3>1, <3>2, <3>3, <3>4
  <2>4. QED
    BY <2>2, <2>3
<1> HIDE DEF S
<1>16. n \in S
  BY <1>14, <1>15, SetInduction
<1>17. f[n] = e[n]
  BY <1>16 DEF S
<1>18. Parts(e, u, A, n)
  <2>1. e \in [1 .. n -> Seq(A)]
    BY <1>6 DEF e
  <2>2. QED
    BY <1>7, <1>8, <2>1 DEF Parts
<1>19. QED
  BY <1>12, <1>17, <1>18

LEMMA FlattenIs ==
  ASSUME NEW A, NEW n \in Nat, n > 0, NEW u \in [1 .. n -> Seq(A)]
  PROVE  /\ FlattenSeq(u) \in Seq(A)
         /\ \A x : x \in ToSet(FlattenSeq(u)) <=> \E i \in 1 .. n : x \in ToSet(u[i])
<1>1. PICK f : Parts(f, u, A, n) /\ FlattenSeq(u) = f[n]
  BY FlattenExists
<1> DEFINE S == {k \in Nat : k <= n /\ k > 0 =>
                   \A x : x \in ToSet(f[k]) <=> \E i \in 1 .. k : x \in ToSet(u[i])}
<1>2. 0 \in S
  OBVIOUS
<1>3. ASSUME NEW k \in Nat, k \in S PROVE k + 1 \in S
  <2>1. SUFFICES ASSUME k + 1 <= n, NEW x
                 PROVE  x \in ToSet(f[k + 1]) <=> \E i \in 1 .. k + 1 : x \in ToSet(u[i])
    OBVIOUS
  <2>2. CASE k = 0
    <3>1. k + 1 = 1 /\ f[1] = u[1]
      BY <1>1, <2>2 DEF Parts
    <3>2. \A i \in 1 .. 1 : i = 1
      OBVIOUS
    <3>3. 1 \in 1 .. 1
      OBVIOUS
    <3>4. QED
      BY <3>1, <3>2, <3>3
  <2>3. CASE k # 0
    <3>1. /\ k + 1 \in 2 .. n /\ k + 1 \in 1 .. n /\ (k + 1) - 1 = k /\ k \in 1 .. n
          /\ k <= n /\ k > 0
      BY <2>1, <2>3
    <3>2. f[k + 1] = f[k] \o u[k + 1] /\ f[k] \in Seq(A) /\ u[k + 1] \in Seq(A)
      BY <1>1, <3>1 DEF Parts
    <3>3. ToSet(f[k + 1]) = ToSet(f[k]) \cup ToSet(u[k + 1])
      BY <3>2, ToSetConcat
    <3>4. x \in ToSet(f[k]) <=> \E i \in 1 .. k : x \in ToSet(u[i])
      BY <1>3, <3>1
    <3>5. \A i : i \in 1 .. k + 1 <=> i \in 1 .. k \/ i = k + 1
      BY <3>1
    <3>6. QED
      BY <3>3, <3>4, <3>5
  <2>4. QED
    BY <2>2, <2>3
<1>4. n \in S
  <2> HIDE DEF S
  <2>1. QED
    BY <1>2, <1>3, SetInduction
<1>5. f[n] \in Seq(A)
  BY <1>1 DEF Parts
<1>6. QED
  BY <1>1, <1>4, <1>5

(* The parents of a block are the blocks with an edge to it.               *)
LEMMA ParentsAre ==
  ASSUME JumpsRight, NEW b \in Block
  PROVE  /\ parents(b) \in Seq(Block) /\ DOMAIN parents(b) = 1 .. Len(parents(b))
         /\ \A c : c \in ToSet(parents(b)) <=> c \in Block /\ Edge(c, b)
<1> DEFINE times(c) == Cardinality({k \in DOMAIN child(c) : child(c)[k] = b})
           u == [c \in Block |-> [k \in 1 .. times(c) |-> c]]
<1>1. NBlocks \in Nat /\ NBlocks > 0 /\ Block = 1 .. NBlocks
  BY BlockIs DEF Block
<1>2. \A c \in Block : times(c) \in Nat /\ (times(c) > 0 <=> Edge(c, b))
  <2> TAKE c \in Block
  <2> DEFINE K == {k \in DOMAIN child(c) : child(c)[k] = b}
  <2>1. DOMAIN child(c) = 1 .. Len(child(c)) /\ Len(child(c)) \in Nat
    BY ChildIs
  <2>2. IsFiniteSet(1 .. Len(child(c)))
    BY <2>1, FS_Interval
  <2>3. IsFiniteSet(K)
    BY <2>1, <2>2, FS_Subset
  <2>4. Cardinality(K) \in Nat /\ (Cardinality(K) = 0 <=> K = {})
    BY <2>3, FS_CardinalityType, FS_EmptySet
  <2>5. K # {} <=> Edge(c, b)
    BY DEF Edge
  <2> HIDE DEF K
  <2>6. Cardinality(K) \in Nat /\ (Cardinality(K) > 0 <=> Edge(c, b))
    BY <2>4, <2>5
  <2>7. QED
    BY <2>6 DEF K
<1>3. parents(b) = FlattenSeq(u)
  BY DEF parents
<1> HIDE DEF times
<1>4. u \in [1 .. NBlocks -> Seq(Block)] /\ DOMAIN u = Block
  <2>1. \A c \in Block : [k \in 1 .. times(c) |-> c] \in Seq(Block)
    BY <1>2
  <2>2. QED
    BY <1>1, <2>1
<1>5. \A c \in Block : \A x : x \in ToSet(u[c]) <=> x = c /\ Edge(c, b)
  <2> TAKE c \in Block
  <2>1. u[c] = [k \in 1 .. times(c) |-> c] /\ times(c) \in Nat
    BY <1>2
  <2>2. times(c) > 0 <=> 1 \in 1 .. times(c)
    BY <2>1
  <2>3. 1 .. times(c) = {} \/ times(c) > 0
    BY <2>1
  <2>4. \A x : x \in ToSet(u[c]) <=> x = c /\ 1 .. times(c) # {}
    BY <2>1 DEF ToSet
  <2>5. QED
    BY <1>2, <2>2, <2>3, <2>4
<1> HIDE DEF u
<1>6. /\ FlattenSeq(u) \in Seq(Block)
      /\ \A x : x \in ToSet(FlattenSeq(u)) <=> \E i \in 1 .. NBlocks : x \in ToSet(u[i])
  <2> DEFINE B == Block
  <2>1. u \in [1 .. NBlocks -> Seq(B)]
    BY <1>4
  <2> HIDE DEF B
  <2>2. /\ FlattenSeq(u) \in Seq(B)
        /\ \A x : x \in ToSet(FlattenSeq(u)) <=> \E i \in 1 .. NBlocks : x \in ToSet(u[i])
    BY <1>1, <2>1, FlattenIs
  <2>3. QED
    BY <2>2 DEF B
<1>7. \A x : x \in ToSet(FlattenSeq(u)) <=> x \in Block /\ Edge(x, b)
  <2> TAKE x
  <2>1. x \in ToSet(FlattenSeq(u)) <=> \E i \in Block : x \in ToSet(u[i])
    BY <1>1, <1>6
  <2>2. (\E i \in Block : x \in ToSet(u[i])) <=> \E i \in Block : x = i /\ Edge(i, b)
    BY <1>5
  <2>3. QED
    BY <2>1, <2>2
<1>8. \A q \in Seq(Block) : DOMAIN q = 1 .. Len(q)
  OBVIOUS
<1>9. QED
  BY <1>3, <1>6, <1>7, <1>8

-----------------------------------------------------------------------------
(* Around(a) is the least set with the first block that follows the edges  *)
(* but those to a.                                                         *)
IsAround(a, R) ==
  /\ R \subseteq Block /\ a \notin R /\ (a # 1 => 1 \in R)
  /\ \A c \in R, b \in Block : Edge(c, b) /\ b # a => b \in R
  /\ \A S \in SUBSET Block :
       /\ a # 1 => 1 \in S
       /\ \A c \in S, b \in Block : Edge(c, b) /\ b # a => b \in S
       => R \subseteq S

LEMMA AroundIs ==
  ASSUME NEW a \in Nat
  PROVE  IsAround(a, Around(a))
<1> DEFINE T == SUBSET Block
           To(X) == X \cup {b \in Block \ {a} : \E c \in X : Edge(c, b)}
           D == [X \in T |-> To(X)]
           G == [q \in (1 .. NBlocks) \X T |-> To(q[2])]
           F(g) == [k \in Order |-> IF k = 0 THEN {1} \ {a} ELSE To(g[k - 1])]
           f == CHOOSE g : g = F(g)
<1>1. NBlocks \in Nat /\ 1 \in Block /\ IsFiniteSet(Block) /\ Cardinality(Block) <= NBlocks
  BY BlockIs
<1>2. \A X \in T : To(X) \in T
  OBVIOUS
<1>3. {1} \ {a} \in T
  BY <1>1
<1>4. G \in [(1 .. NBlocks) \X T -> T] /\ D \in [T -> T]
  <2> HIDE DEF To, T
  <2>1. QED
    BY <1>2
<1>5. \A k \in 1 .. NBlocks, X \in T : G[<<k, X>>] = To(X) /\ D[X] = To(X)
  <2> HIDE DEF To, T
  <2>1. QED
    OBVIOUS
<1>6. Around(a) = f[NBlocks]
  BY DEF Around
<1> HIDE DEF G, D, To, T
<1>7. PICK g : Solves(g, T, {1} \ {a}, G, NBlocks)
  BY <1>1, <1>3, <1>4, FunctionExists
<1>8. \A k \in 0 .. NBlocks : k = 0 \/ k \in 1 .. NBlocks
  BY <1>1
<1>9. \A k \in Order : g[k] = F(g)[k]
  <2>1. /\ g[0] = {1} \ {a}
        /\ \A k \in 1 .. NBlocks : g[k - 1] \in T /\ g[k] = G[<<k, g[k - 1]>>]
    BY <1>7 DEF Solves
  <2>2. \A k \in 1 .. NBlocks : g[k] = To(g[k - 1])
    BY <1>5, <2>1
  <2>3. QED
    BY <1>8, <2>1, <2>2 DEF Order
<1>10. g = F(g)
  <2>1. g = [k \in Order |-> g[k]]
    BY <1>7 DEF Order, Solves
  <2>2. QED
    BY <1>9, <2>1
<1>11. f = F(f)
  <2> HIDE DEF F
  <2>1. QED
    BY <1>10
<1> HIDE DEF f
<1>12. Solves(f, T, {1} \ {a}, G, NBlocks)
  <2>1. \A k \in Order : f[k] = IF k = 0 THEN {1} \ {a} ELSE To(f[k - 1])
    BY <1>11
  <2>2. f = [k \in 0 .. NBlocks |-> f[k]]
    BY <1>11 DEF Order
  <2> HIDE DEF F
  <2>3. 0 \in Order /\ \A k \in 1 .. NBlocks : k \in Order /\ k # 0
    BY <1>1 DEF Order
  <2>4. f[0] = {1} \ {a} /\ \A k \in 1 .. NBlocks : f[k] = To(f[k - 1])
    BY <2>1, <2>3
  <2>5. \A k \in 1 .. NBlocks : f[k - 1] \in T => f[k] = G[<<k, f[k - 1]>>]
    BY <1>5, <2>4
  <2>6. QED
    BY <1>1, <1>3, <1>4, <2>2, <2>4, <2>5, FunctionSolves
<1>13. \A X, Y \in T : X \subseteq Y => D[X] \subseteq D[Y]
  <2>1. \A X, Y \in T : X \subseteq Y => To(X) \subseteq To(Y)
    BY DEF To
  <2>2. \A X \in T : D[X] = To(X)
    BY DEF D
  <2>3. QED
    BY <2>1, <2>2
<1>14. f[0] = {1} \ {a} /\ f[0] \subseteq D[f[0]] /\ \A k \in 1 .. NBlocks : f[k] = D[f[k - 1]]
  <2>1. \A X \in T : D[X] = To(X) /\ X \subseteq To(X)
    BY DEF D, To
  <2>2. /\ f[0] = {1} \ {a}
        /\ \A k \in 1 .. NBlocks : f[k - 1] \in T /\ f[k] = G[<<k, f[k - 1]>>]
    BY <1>12 DEF Solves
  <2>3. \A k \in 1 .. NBlocks : f[k] = To(f[k - 1])
    BY <1>5, <2>2
  <2>4. \A k \in 1 .. NBlocks : f[k] = D[f[k - 1]]
    BY <2>1, <2>2, <2>3
  <2>5. f[0] \in T
    BY <1>3, <2>2
  <2>6. QED
    BY <2>1, <2>2, <2>4, <2>5
<1>15. Settles(f[NBlocks], f[0], D, Block)
  <2>1. D \in [SUBSET Block -> SUBSET Block] /\ f \in [0 .. NBlocks -> SUBSET Block]
    BY <1>4, <1>12 DEF T, Solves
  <2>2. \A X, Y \in SUBSET Block : X \subseteq Y => D[X] \subseteq D[Y]
    BY <1>13 DEF T
  <2>3. QED
    BY <1>1, <1>14, <2>1, <2>2, GrowthSettles
<1>16. PICK R : R = f[NBlocks]
  OBVIOUS
<1>17. R \in T /\ To(R) = R
  <2>1. R \in T
    <3>1. NBlocks \in 0 .. NBlocks
      BY <1>1
    <3>2. QED
      BY <1>12, <1>16, <3>1 DEF Solves
  <2>2. QED
    BY <1>15, <1>16, <2>1 DEF D, Settles
<1>18. \A C \in SUBSET Block : {1} \ {a} \subseteq C /\ To(C) \subseteq C => R \subseteq C
  BY <1>14, <1>15, <1>16 DEF D, T, Settles
<1>19. R \subseteq Block /\ (a # 1 => 1 \in R)
  BY <1>14, <1>15, <1>16, <1>17 DEF T, Settles
<1>20. a \notin R
  <2>1. {1} \ {a} \subseteq R \ {a}
    BY <1>14, <1>15, <1>16 DEF Settles
  <2>2. To(R \ {a}) \subseteq R \ {a}
    BY <1>17 DEF To
  <2>3. R \subseteq R \ {a}
    BY <1>18, <1>19, <2>1, <2>2
  <2>4. QED
    BY <2>3
<1>21. \A c \in R, b \in Block : Edge(c, b) /\ b # a => b \in R
  BY <1>17 DEF To
<1>22. ASSUME NEW S \in SUBSET Block, a # 1 => 1 \in S,
              \A c \in S, b \in Block : Edge(c, b) /\ b # a => b \in S
       PROVE  R \subseteq S
  <2>1. {1} \ {a} \subseteq S /\ To(S) \subseteq S
    BY <1>22 DEF To
  <2>2. QED
    BY <1>18, <2>1
<1>23. IsAround(a, R)
  BY <1>19, <1>20, <1>21, <1>22 DEF IsAround
<1>24. QED
  BY <1>6, <1>16, <1>23

-----------------------------------------------------------------------------
(* Dominance is an order in which the dominators of a block are comparable.*)
Doms(a, b) == a \in Reachable /\ b \in Reachable /\ b \notin Around(a)

LEMMA DomIs == \A a, b : <<a, b>> \in Dom <=> Doms(a, b)
<1> TAKE a, b
<1> DEFINE r == Reachable
<1>1. Dom = UNION {{<<x, y>> : y \in r \ Around(x)} : x \in r}
  BY DEF Dom
<1> HIDE DEF r
<1>2. <<a, b>> \in Dom <=> a \in r /\ b \in r \ Around(a)
  <2>1. ASSUME <<a, b>> \in Dom PROVE a \in r /\ b \in r \ Around(a)
    <3>1. PICK x \in r : <<a, b>> \in {<<x, y>> : y \in r \ Around(x)}
      BY <1>1, <2>1
    <3>2. PICK y \in r \ Around(x) : <<a, b>> = <<x, y>>
      BY <3>1
    <3>3. a = x /\ b = y
      BY <3>2
    <3>4. QED
      BY <3>1, <3>2, <3>3
  <2>2. ASSUME a \in r, b \in r \ Around(a) PROVE <<a, b>> \in Dom
    <3>1. <<a, b>> \in {<<a, y>> : y \in r \ Around(a)}
      BY <2>2
    <3>2. QED
      BY <1>1, <2>2, <3>1
  <2>3. QED
    BY <2>1, <2>2
<1>3. QED
  BY <1>2 DEF Doms, r

LEMMA ReachableIs ==
  /\ Reachable \subseteq Block /\ 1 \in Reachable /\ Reachable \subseteq Nat
  /\ \A c \in Reachable, b \in Block : Edge(c, b) => b \in Reachable
  /\ \A S \in SUBSET Block :
       1 \in S /\ (\A c \in S, b \in Block : Edge(c, b) => b \in S) => Reachable \subseteq S
<1>1. IsAround(0, Reachable)
  BY AroundIs DEF Reachable
<1>2. \A b \in Block : b # 0 /\ b \in Nat
  BY BlockIs DEF Block
<1>3. Reachable \subseteq Block /\ 1 \in Reachable
  BY <1>1 DEF IsAround
<1>4. \A c \in Reachable, b \in Block : Edge(c, b) => b \in Reachable
  BY <1>1, <1>2 DEF IsAround
<1>5. ASSUME NEW S \in SUBSET Block, 1 \in S,
             \A c \in S, b \in Block : Edge(c, b) => b \in S
      PROVE  Reachable \subseteq S
  BY <1>1, <1>5 DEF IsAround
<1>6. QED
  BY <1>2, <1>3, <1>4, <1>5

LEMMA DomReflexive ==
  /\ \A a \in Reachable : Doms(a, a)
  /\ \A b \in Reachable : Doms(1, b)
<1>1. \A a \in Reachable : IsAround(a, Around(a))
  BY ReachableIs, AroundIs
<1>2. \A a \in Reachable : Doms(a, a)
  BY <1>1 DEF IsAround, Doms
<1>3. Around(1) = {}
  <2>1. IsAround(1, Around(1))
    BY <1>1, ReachableIs
  <2>2. {} \in SUBSET Block
    OBVIOUS
  <2>3. Around(1) \subseteq {}
    BY <2>1, <2>2 DEF IsAround
  <2>4. QED
    BY <2>3
<1>4. QED
  BY <1>2, <1>3, ReachableIs DEF Doms

(* What is reached around a is reached around what a dominates.            *)
LEMMA AroundGrows ==
  ASSUME NEW a, NEW b, Doms(a, b)
  PROVE  Around(a) \subseteq Around(b)
<1>1. IsAround(a, Around(a)) /\ IsAround(b, Around(b))
  BY ReachableIs, AroundIs DEF Doms
<1>2. CASE b = 1
  <2>1. a = 1
    BY <1>1, <1>2 DEF IsAround, Doms
  <2>2. QED
    BY <1>2, <2>1
<1>3. CASE b # 1
  <2> DEFINE S == Around(a) \cap Around(b)
  <2>1. S \in SUBSET Block /\ (a # 1 => 1 \in S)
    BY <1>1, <1>3 DEF IsAround
  <2>2. ASSUME NEW c \in S, NEW d \in Block, Edge(c, d), d # a PROVE d \in S
    <3>1. d \in Around(a) /\ d # b
      BY <1>1, <2>2 DEF IsAround, Doms
    <3>2. QED
      BY <1>1, <2>2, <3>1 DEF IsAround
  <2>3. Around(a) \subseteq S
    <3> HIDE DEF S
    <3>1. QED
      BY <1>1, <2>1, <2>2 DEF IsAround
  <2>4. QED
    BY <2>3
<1>4. QED
  BY <1>2, <1>3

LEMMA DomTransitive ==
  ASSUME NEW a, NEW b, NEW c, Doms(a, b), Doms(b, c)
  PROVE  Doms(a, c)
BY AroundGrows DEF Doms

LEMMA DomAntisymmetric ==
  ASSUME NEW a, NEW b, Doms(a, b), Doms(b, a)
  PROVE  a = b
<1>1. SUFFICES ASSUME a # b PROVE FALSE
  OBVIOUS
<1>2. IsAround(a, Around(a)) /\ IsAround(b, Around(b)) /\ Around(a) = Around(b)
  BY AroundGrows, ReachableIs, AroundIs DEF Doms
<1>3. \A c \in Around(a), d \in Block : Edge(c, d) => d \in Around(a)
  BY <1>1, <1>2 DEF IsAround
<1>4. 1 \in Around(a) /\ Around(a) \in SUBSET Block
  BY <1>1, <1>2 DEF IsAround
<1>5. Reachable \subseteq Around(a)
  BY <1>3, <1>4, ReachableIs
<1>6. QED
  BY <1>5 DEF Doms

LEMMA DomComparable ==
  ASSUME NEW a, NEW b, NEW c, Doms(a, c), Doms(b, c)
  PROVE  Doms(a, b) \/ Doms(b, a)
<1>1. SUFFICES ASSUME a \in Around(b), b \in Around(a), a # b PROVE FALSE
  BY DomReflexive DEF Doms
<1>2. IsAround(a, Around(a)) /\ IsAround(b, Around(b))
  BY ReachableIs, AroundIs DEF Doms
<1> DEFINE S == Around(a) \cup Around(b)
<1>3. \A x \in S, d \in Block : Edge(x, d) => d \in S
  BY <1>1, <1>2 DEF IsAround
<1>4. 1 \in S /\ S \in SUBSET Block
  BY <1>1, <1>2 DEF IsAround
<1>5. Reachable \subseteq S
  <2> HIDE DEF S
  <2>1. QED
    BY <1>3, <1>4, ReachableIs
<1>6. QED
  BY <1>5 DEF Doms

(* A strict dominator of a block dominates its parents.                    *)
LEMMA DomOverEdge ==
  ASSUME NEW a, NEW b, Doms(a, b), a # b, NEW c \in Reachable, Edge(c, b)
  PROVE  Doms(a, c)
<1>1. IsAround(a, Around(a)) /\ b \in Block
  BY ReachableIs, AroundIs DEF Doms
<1>2. QED
  BY <1>1 DEF IsAround, Doms

-----------------------------------------------------------------------------
(* The depth-first search.                                                 *)

(* A tree with one more number, whose parent p is on the way to the last   *)
(* one; edges to it come from the way to p.                                *)
LEMMA TreeGrows ==
  ASSUME NEW n, NEW G, NEW P, NEW A, DfsTree(n, G, P, A), n > 0, NEW p \in A[n],
         NEW H, NEW Q, Q[n + 1] = p, \A i \in 1 .. n : Q[i] = P[i],
         \A i, j \in 1 .. n : <<i, j>> \in H <=> <<i, j>> \in G,
         <<p, n + 1>> \in H, \A i \in 1 .. n : <<i, n + 1>> \in H => i \in A[p]
  PROVE  DfsTree(n + 1, H, Q, [i \in 1 .. n + 1 |-> IF i = n + 1 THEN A[p] \cup {n + 1} ELSE A[i]])
<1> DEFINE B == [i \in 1 .. n + 1 |-> IF i = n + 1 THEN A[p] \cup {n + 1} ELSE A[i]]
<1>1. n \in Nat /\ n \in 1 .. n /\ p \in 1 .. n
  <2>1. n \in Nat
    BY DEF DfsTree
  <2>2. n \in 1 .. n
    BY <2>1
  <2>3. QED
    BY <2>1, <2>2, WayBounds
<1>2. /\ B[n + 1] = A[p] \cup {n + 1} /\ n + 1 \in 1 .. n + 1
      /\ \A i \in 1 .. n : B[i] = A[i] /\ i \in 1 .. n + 1 /\ i # n + 1
  BY <1>1
<1>3. \A i \in 1 .. n + 1 : i \in 1 .. n \/ i = n + 1
  BY <1>1
<1> HIDE DEF B
<1>4. \A i \in 1 .. n + 1 : B[i] \subseteq 1 .. n + 1
  <2> TAKE i \in 1 .. n + 1
  <2>1. \A j \in 1 .. n : A[j] \subseteq 1 .. n
    BY DEF DfsTree
  <2>2. 1 .. n \subseteq 1 .. n + 1
    BY <1>1
  <2>3. QED
    BY <1>1, <1>2, <1>3, <2>1, <2>2
<1>5. B[1] = {1}
  <2>1. 1 \in 1 .. n
    BY <1>1
  <2>2. QED
    BY <1>2, <2>1 DEF DfsTree
<1>6. ASSUME NEW i \in 2 .. n + 1
      PROVE  /\ Q[i] \in 1 .. i - 1 /\ <<Q[i], i>> \in H
             /\ B[i] = B[Q[i]] \cup {i} /\ Q[i] \in B[i - 1]
  <2>1. CASE i = n + 1
    <3>1. i - 1 = n
      BY <1>1, <2>1
    <3>2. Q[i] \in 1 .. i - 1 /\ <<Q[i], i>> \in H
      BY <1>1, <2>1, <3>1
    <3>3. B[i] = B[Q[i]] \cup {i} /\ Q[i] \in B[i - 1]
      BY <1>1, <1>2, <2>1, <3>1
    <3>4. QED
      BY <3>2, <3>3
  <2>2. CASE i # n + 1
    <3>1. i \in 2 .. n /\ i \in 1 .. n /\ i - 1 \in 1 .. n
      BY <1>1, <2>2
    <3>2. P[i] \in 1 .. i - 1 /\ <<P[i], i>> \in G /\ A[i] = A[P[i]] \cup {i} /\ P[i] \in A[i - 1]
      BY <3>1 DEF DfsTree
    <3>3. P[i] \in 1 .. n /\ Q[i] = P[i]
      BY <1>1, <3>1, <3>2
    <3>4. QED
      BY <1>2, <3>1, <3>2, <3>3
  <2>3. QED
    BY <2>1, <2>2
<1>7. ASSUME NEW i \in 1 .. n + 1, NEW j \in 1 .. n + 1, <<i, j>> \in H, i < j
      PROVE  i \in B[j]
  <2>1. i \in 1 .. n
    BY <1>1, <1>7
  <2>2. CASE j = n + 1
    BY <1>2, <1>7, <2>1, <2>2
  <2>3. CASE j # n + 1
    <3>1. j \in 1 .. n
      BY <1>1, <2>3
    <3>2. QED
      BY <1>2, <1>7, <2>1, <3>1 DEF DfsTree
  <2>4. QED
    BY <2>2, <2>3
<1>8. DfsTree(n + 1, H, Q, B)
  BY <1>1, <1>4, <1>5, <1>6, <1>7 DEF DfsTree
<1>9. QED
  BY <1>8 DEF B

-----------------------------------------------------------------------------
(* The graph of the numbered blocks.                                       *)
NumEdges(a) == {e \in (1 .. Len(a)) \X (1 .. Len(a)) : Edge(a[e[1]], a[e[2]])}
NumParent(a, p) == [i \in 1 .. Len(a) |-> p[a[i]]]

LEMMA NumEdgesAre ==
  ASSUME NEW a, Len(a) \in Nat
  PROVE  \A i, j : <<i, j>> \in NumEdges(a) <=>
                     i \in 1 .. Len(a) /\ j \in 1 .. Len(a) /\ Edge(a[i], a[j])
BY DEF NumEdges

(* The calls to come after the blocks of s.arr have been visited: the      *)
(* parents of the first ones are the latest, all of them are on the way to *)
(* the last block visited, and no edge to a block not visited is forgotten.*)
Pending(a, calls1, A) ==
  /\ \A k \in 1 .. Len(calls1) :
       /\ calls1[k][2] \in A[Len(a)] /\ Edge(a[calls1[k][2]], calls1[k][1])
       /\ \A m \in 1 .. Len(calls1) : k < m => calls1[m][2] <= calls1[k][2]
  /\ \A i \in 1 .. Len(a), c \in Block :
       Edge(a[i], c) => c \in ToSet(a) \/ \E k \in 1 .. Len(calls1) : calls1[k] = <<c, i>>

Numbered(a) ==
  /\ a \in Seq(Block) /\ Len(a) \in Nat /\ DOMAIN a = 1 .. Len(a)
  /\ \A i, j \in 1 .. Len(a) : a[i] = a[j] => i = j
  /\ ToSet(a) \subseteq Reachable
  /\ Len(a) > 0 => a[1] = 1

CallSeq == Seq(Block \X Nat)

DfsState == [parent : [Block -> Nat], arr : Seq(Block), calls : CallSeq]

Found(s, A) ==
  /\ s \in DfsState /\ Numbered(s.arr)
  /\ \A b \in Block : b \notin ToSet(s.arr) \/ b = 1 => s.parent[b] = 0
  /\ DfsTree(Len(s.arr), NumEdges(s.arr), NumParent(s.arr, s.parent), A)
  /\ IF Len(s.arr) = 0 THEN s.calls = <<<<1, 0>>>> ELSE Pending(s.arr, s.calls, A)

(* The sequence with one more block. *)
LEMMA NumberedAppend ==
  ASSUME NEW a, Numbered(a), NEW b \in Reachable, b \notin ToSet(a), Len(a) = 0 => b = 1
  PROVE  /\ Numbered(Append(a, b)) /\ Len(Append(a, b)) = Len(a) + 1
         /\ ToSet(Append(a, b)) = ToSet(a) \cup {b}
         /\ Append(a, b)[Len(a) + 1] = b
         /\ \A i \in 1 .. Len(a) : Append(a, b)[i] = a[i]
<1> DEFINE e == Append(a, b)
<1>1. a \in Seq(Block) /\ b \in Block /\ Len(a) \in Nat
  BY ReachableIs DEF Numbered
<1>2. /\ e \in Seq(Block) /\ Len(e) = Len(a) + 1 /\ e[Len(a) + 1] = b
      /\ \A i \in 1 .. Len(a) : e[i] = a[i]
      /\ DOMAIN e = 1 .. Len(a) + 1
  BY <1>1
<1>3. ToSet(e) = ToSet(a) \cup {b}
  BY <1>1, ToSetAppend
<1> HIDE DEF e
<1>4. \A i \in 1 .. Len(a) : a[i] # b
  BY DEF ToSet, Numbered
<1>5. \A i \in 1 .. Len(a) + 1 : i = Len(a) + 1 \/ i \in 1 .. Len(a)
  BY <1>1
<1>6. \A i, j \in 1 .. Len(a) + 1 : e[i] = e[j] => i = j
  BY <1>2, <1>4, <1>5 DEF Numbered
<1>7. e[1] = 1
  <2>1. CASE Len(a) = 0
    BY <1>2, <2>1
  <2>2. CASE Len(a) # 0
    <3>1. 1 \in 1 .. Len(a)
      BY <1>1, <2>2
    <3>2. QED
      BY <1>1, <1>2, <2>2, <3>1 DEF Numbered
  <2>3. QED
    BY <2>1, <2>2
<1>8. Numbered(e)
  BY <1>1, <1>2, <1>3, <1>6, <1>7 DEF Numbered
<1>9. QED
  BY <1>2, <1>3, <1>8 DEF e

AreCalls(q, b, n) ==
  /\ q \in CallSeq /\ Len(q) = Len(child(b)) /\ Len(child(b)) \in 0 .. Width
  /\ \A k \in 1 .. Len(q) : q[k][2] = n /\ Edge(b, q[k][1])
  /\ \A c : Edge(b, c) => \E k \in 1 .. Len(q) : q[k] = <<c, n>>

LEMMA CallsAre ==
  ASSUME JumpsRight, NEW b \in Block, NEW n \in Nat
  PROVE  AreCalls(Calls(b, n), b, n)
<1>1. DOMAIN child(b) = 1 .. Len(child(b)) /\ Len(child(b)) \in Nat /\ Len(child(b)) \in 0 .. Width
  BY ChildIs
<1>2. PICK q : q = Calls(b, n)
  OBVIOUS
<1>3. PICK d : d = child(b)
  OBVIOUS
<1>4. q = [k \in 1 .. Len(d) |-> <<d[k], n>>]
  BY <1>1, <1>2, <1>3 DEF Calls
<1>5. \A k \in 1 .. Len(d) : Edge(b, d[k])
  BY <1>1, <1>3 DEF Edge
<1>6. \A k \in 1 .. Len(d) : d[k] \in Block
  BY <1>5, EdgeInto
<1>7. \A k \in 1 .. Len(d) : <<d[k], n>> \in Block \X Nat
  BY <1>6
<1>8. q \in CallSeq /\ Len(q) = Len(d) /\ \A k \in 1 .. Len(q) : q[k] = <<d[k], n>>
  BY <1>1, <1>3, <1>4, <1>7 DEF CallSeq
<1>9. \A k \in 1 .. Len(q) : q[k][2] = n /\ Edge(b, q[k][1])
  BY <1>5, <1>8
<1>10. ASSUME NEW c, Edge(b, c) PROVE \E k \in 1 .. Len(q) : q[k] = <<c, n>>
  <2>1. PICK k \in 1 .. Len(d) : d[k] = c
    BY <1>1, <1>3, <1>10 DEF Edge
  <2>2. k \in 1 .. Len(q) /\ q[k] = <<c, n>>
    BY <1>8, <2>1
  <2>3. QED
    BY <2>2
<1>11. QED
  BY <1>1, <1>2, <1>3, <1>8, <1>9, <1>10 DEF AreCalls

(* One step of the search. *)
DfsStep(s) ==
  LET b == s.calls[1][1]
      n == Len(s.arr) + 1
  IN IF s.calls = <<>> THEN s
     ELSE IF b \in ToSet(s.arr) THEN [s EXCEPT !.calls = Tail(@)]
     ELSE [parent |-> [s.parent EXCEPT ![b] = s.calls[1][2]],
           arr |-> Append(s.arr, b),
           calls |-> Calls(b, n) \o Tail(s.calls)]

LEMMA TailIs ==
  ASSUME NEW S, NEW q \in Seq(S), q # <<>>
  PROVE  /\ Tail(q) \in Seq(S) /\ Len(Tail(q)) = Len(q) - 1 /\ Len(q) \in Nat /\ Len(q) > 0
         /\ q[1] \in S /\ Len(Tail(q)) \in Nat
         /\ \A i \in 1 .. Len(Tail(q)) : Tail(q)[i] = q[i + 1] /\ i + 1 \in 1 .. Len(q)
         /\ \A i \in 2 .. Len(q) : q[i] = Tail(q)[i - 1] /\ i - 1 \in 1 .. Len(Tail(q))
OBVIOUS

JoinOf(w, u, v) ==
  /\ Len(w) = Len(u) + Len(v) /\ Len(u) \in Nat /\ Len(v) \in Nat
  /\ \A i \in 1 .. Len(u) : w[i] = u[i] /\ i \in 1 .. Len(w)
  /\ \A i \in 1 .. Len(v) : w[i + Len(u)] = v[i] /\ i + Len(u) \in 1 .. Len(w)
  /\ \A i \in 1 .. Len(w) : i \in 1 .. Len(u) \/ i - Len(u) \in 1 .. Len(v)

LEMMA ConcatIs ==
  ASSUME NEW S, NEW u \in Seq(S), NEW v \in Seq(S)
  PROVE  u \o v \in Seq(S) /\ JoinOf(u \o v, u, v)
BY DEF JoinOf

LEMMA DfsStepType ==
  ASSUME JumpsRight, NEW s \in DfsState
  PROVE  DfsStep(s) \in DfsState
<1>1. CASE s.calls = <<>>
  BY <1>1 DEF DfsStep
<1>2. CASE s.calls # <<>>
  <2>1. s.calls \in Seq(Block \X Nat) /\ s.arr \in Seq(Block) /\ s.parent \in [Block -> Nat]
    BY DEF DfsState, CallSeq
  <2>2. Tail(s.calls) \in Seq(Block \X Nat) /\ s.calls[1] \in Block \X Nat
    BY <1>2, <2>1, TailIs
  <2>3. s.calls[1][1] \in Block /\ s.calls[1][2] \in Nat /\ Len(s.arr) + 1 \in Nat
    BY <2>1, <2>2
  <2>4. Calls(s.calls[1][1], Len(s.arr) + 1) \in Seq(Block \X Nat)
    BY <2>3, CallsAre DEF CallSeq, AreCalls
  <2>5. Calls(s.calls[1][1], Len(s.arr) + 1) \o Tail(s.calls) \in Seq(Block \X Nat)
    BY <2>2, <2>4, ConcatIs
  <2>6. Append(s.arr, s.calls[1][1]) \in Seq(Block)
    BY <2>1, <2>3
  <2>7. [s.parent EXCEPT ![s.calls[1][1]] = s.calls[1][2]] \in [Block -> Nat]
    BY <2>1, <2>3
  <2>8. CASE s.calls[1][1] \in ToSet(s.arr)
    BY <1>2, <2>2, <2>8 DEF DfsStep, DfsState, CallSeq
  <2>9. CASE s.calls[1][1] \notin ToSet(s.arr)
    <3>1. DfsStep(s) = [parent |-> [s.parent EXCEPT ![s.calls[1][1]] = s.calls[1][2]],
                        arr |-> Append(s.arr, s.calls[1][1]),
                        calls |-> Calls(s.calls[1][1], Len(s.arr) + 1) \o Tail(s.calls)]
      BY <1>2, <2>9 DEF DfsStep
    <3>2. QED
      BY <2>5, <2>6, <2>7, <3>1 DEF DfsState, CallSeq
  <2>10. QED
    BY <2>8, <2>9
<1>3. QED
  BY <1>1, <1>2

DfsBase == [parent |-> [b \in Block |-> 0], arr |-> <<>>, calls |-> <<<<1, 0>>>>]

LEMMA RoundsIs ==
  ASSUME JumpsRight
  PROVE  /\ Rounds \in Nat /\ Rounds = Width * NBlocks /\ Width \in Nat /\ Width >= 2
         /\ NBlocks \in Nat /\ NBlocks > 1
<1>1. NBlocks \in Nat /\ NBlocks > 1 /\ 1 \in Block
  BY BlockIs
<1>2. Width \in Nat /\ Width >= 2
  BY <1>1, ChildIs
<1>3. \A w, n \in Nat : w * n \in Nat
  OBVIOUS
<1>4. Rounds = Width * NBlocks
  BY DEF Rounds, Width
<1>5. QED
  BY <1>1, <1>2, <1>3, <1>4

LEMMA OneMore ==
  ASSUME NEW w \in Nat, NEW x \in Nat, NEW y \in Nat, x = y + 1
  PROVE  w * x = w * y + w /\ w * y \in Nat
OBVIOUS

LEMMA DfsSolves ==
  ASSUME JumpsRight
  PROVE  \E f : /\ dfs = f[Rounds] /\ f[0] = DfsBase
                /\ \A k \in 1 .. Rounds : f[k] = DfsStep(f[k - 1])
<1> DEFINE N == Rounds
           G == [q \in (1 .. N) \X DfsState |-> DfsStep(q[2])]
           F(g) == [k \in 0 .. N |-> IF k = 0 THEN DfsBase ELSE DfsStep(g[k - 1])]
           f == CHOOSE g : g = F(g)
<1>1. N \in Nat
  BY RoundsIs
<1>2. DfsBase \in DfsState
  <2>1. <<1, 0>> \in Block \X Nat
    BY BlockIs
  <2>2. <<<<1, 0>>>> \in CallSeq
    BY <2>1 DEF CallSeq
  <2>3. QED
    BY <2>2 DEF DfsBase, DfsState
<1>3. G \in [(1 .. N) \X DfsState -> DfsState]
  BY DfsStepType
<1>4. \A k \in 1 .. N, x \in DfsState : G[<<k, x>>] = DfsStep(x)
  OBVIOUS
<1>5. dfs = f[N]
  BY DEF dfs, DfsStep, DfsBase
<1> HIDE DEF G, N
<1>6. PICK g : Solves(g, DfsState, DfsBase, G, N)
  BY <1>1, <1>2, <1>3, FunctionExists
<1>7. \A k \in 0 .. N : k = 0 \/ k \in 1 .. N
  BY <1>1
<1>8. g = F(g)
  <2>1. \A k \in 1 .. N : g[k - 1] \in DfsState /\ g[k] = G[<<k, g[k - 1]>>]
    BY <1>6 DEF Solves
  <2>2. \A k \in 1 .. N : g[k] = DfsStep(g[k - 1])
    BY <1>4, <2>1
  <2>3. g[0] = DfsBase /\ g = [k \in 0 .. N |-> g[k]]
    BY <1>6 DEF Solves
  <2>4. \A k \in 0 .. N : g[k] = IF k = 0 THEN DfsBase ELSE DfsStep(g[k - 1])
    BY <1>7, <2>2, <2>3
  <2>5. QED
    BY <2>3, <2>4
<1>9. f = F(f)
  <2> HIDE DEF F
  <2>1. QED
    BY <1>8
<1> HIDE DEF f
<1>10. 0 \in 0 .. N /\ \A k \in 1 .. N : k \in 0 .. N /\ k # 0
  BY <1>1
<1>11. f[0] = DfsBase /\ \A k \in 1 .. N : f[k] = DfsStep(f[k - 1])
  BY <1>9, <1>10
<1>12. QED
  BY <1>5, <1>11 DEF N

(* A call of a block that has been visited does nothing. *)
LEMMA DropFound ==
  ASSUME JumpsRight, NEW s, NEW A, Found(s, A), s.calls # <<>>, s.calls[1][1] \in ToSet(s.arr)
  PROVE  Found([s EXCEPT !.calls = Tail(@)], A) \/ s.calls = <<>>
<1> DEFINE q == s.calls
           t == Tail(q)
           a == s.arr
           r == [s EXCEPT !.calls = Tail(@)]
<1>1. q \in Seq(Block \X Nat) /\ Numbered(a) /\ Len(a) \in Nat
  BY DEF Found, Numbered, DfsState, CallSeq
<1>2. Len(a) # 0
  BY <1>1 DEF ToSet, Numbered
<1>3. Pending(a, q, A)
  BY <1>2 DEF Found
<1>4. /\ t \in Seq(Block \X Nat) /\ Len(t) \in Nat /\ Len(t) = Len(q) - 1 /\ Len(q) \in Nat /\ Len(q) > 0
      /\ \A i \in 1 .. Len(t) : t[i] = q[i + 1] /\ i + 1 \in 1 .. Len(q)
      /\ \A i \in 2 .. Len(q) : q[i] = t[i - 1] /\ i - 1 \in 1 .. Len(t)
  BY <1>1, TailIs
<1>5. q[1][1] \in ToSet(a)
  OBVIOUS
<1> HIDE DEF t
<1>6. \A i, j \in 1 .. Len(t) : i < j => i + 1 < j + 1
  BY <1>4
<1>7. ASSUME NEW k \in 1 .. Len(t)
      PROVE  /\ t[k][2] \in A[Len(a)] /\ Edge(a[t[k][2]], t[k][1])
             /\ \A m \in 1 .. Len(t) : k < m => t[m][2] <= t[k][2]
  BY <1>3, <1>4, <1>6 DEF Pending
<1>8. ASSUME NEW i \in 1 .. Len(a), NEW c \in Block, Edge(a[i], c), c \notin ToSet(a)
      PROVE  \E k \in 1 .. Len(t) : t[k] = <<c, i>>
  <2>1. PICK k \in 1 .. Len(q) : q[k] = <<c, i>>
    BY <1>3, <1>8 DEF Pending
  <2>2. k # 1
    BY <1>5, <1>8, <2>1
  <2>3. k \in 2 .. Len(q)
    BY <1>4, <2>2
  <2>4. QED
    BY <1>4, <2>1, <2>3
<1>9. Pending(a, t, A)
  BY <1>7, <1>8 DEF Pending
<1>10. s \in DfsState
  BY DEF Found
<1>11. r \in DfsState /\ r.calls = t /\ r.arr = a /\ r.parent = s.parent
  BY <1>4, <1>10 DEF DfsState, CallSeq, t
<1> HIDE DEF r
<1>12. Found(r, A)
  BY <1>2, <1>9, <1>11 DEF Found
<1>13. QED
  BY <1>12 DEF r

(* The visit of a block. *)
Visited(s, b) ==
  [parent |-> [s.parent EXCEPT ![b] = s.calls[1][2]],
   arr |-> Append(s.arr, b),
   calls |-> Calls(b, Len(s.arr) + 1) \o Tail(s.calls)]

LEMMA FirstFound ==
  ASSUME JumpsRight, NEW s, NEW A, Found(s, A), Len(s.arr) = 0
  PROVE  \E B : Found(Visited(s, 1), B)
<1> DEFINE e == Append(s.arr, 1)
           u == Calls(1, Len(s.arr) + 1)
           t == Tail(s.calls)
           p == [s.parent EXCEPT ![1] = s.calls[1][2]]
           r == Visited(s, 1)
           B == [i \in 1 .. 1 |-> {1}]
<1>1. s \in DfsState /\ Numbered(s.arr) /\ s.calls = <<<<1, 0>>>> /\ 1 \in Reachable /\ 1 \in Block
  BY ReachableIs, BlockIs DEF Found
<1>2. 1 \notin ToSet(s.arr)
  BY DEF Found, Numbered, ToSet
<1>3. Numbered(e) /\ Len(e) = 1 /\ e[1] = 1 /\ ToSet(e) = ToSet(s.arr) \cup {1}
  <2>1. Numbered(e) /\ Len(e) = Len(s.arr) + 1 /\ ToSet(e) = ToSet(s.arr) \cup {1} /\ e[Len(s.arr) + 1] = 1
    BY <1>1, <1>2, NumberedAppend
  <2>2. QED
    BY <2>1
<1>4. ToSet(s.arr) = {}
  BY DEF ToSet, Found, Numbered
<1>5. AreCalls(u, 1, 1)
  <2>1. Len(s.arr) + 1 = 1
    OBVIOUS
  <2>2. QED
    BY <1>1, <2>1, CallsAre
<1>6. t = <<>> /\ u \o t = u
  <2>1. t = <<>>
    BY <1>1
  <2>2. u \in Seq(Block \X Nat)
    BY <1>5 DEF AreCalls, CallSeq
  <2> HIDE DEF t, u
  <2>3. u \o <<>> = u
    BY <2>2
  <2>4. QED
    BY <2>1, <2>3
<1>7. p \in [Block -> Nat] /\ p = s.parent
  BY <1>1 DEF Found, DfsState
<1> HIDE DEF e, u, t, p
<1>8. r = [parent |-> p, arr |-> e, calls |-> u]
  BY <1>6 DEF Visited, e, u, t, p
<1> HIDE DEF r
<1>9. r \in DfsState /\ r.parent = p /\ r.arr = e /\ r.calls = u
  BY <1>3, <1>5, <1>7, <1>8 DEF DfsState, Numbered, AreCalls
<1>10. Pending(e, u, B)
  <2>1. \A k \in 1 .. Len(u) : u[k][2] \in B[Len(e)] /\ Edge(e[u[k][2]], u[k][1])
    BY <1>3, <1>5 DEF AreCalls
  <2>2. \A k \in 1 .. Len(u), m \in 1 .. Len(u) : u[m][2] <= u[k][2]
    <3>1. \A k \in 1 .. Len(u) : u[k][2] = 1
      BY <1>5 DEF AreCalls
    <3>2. 1 <= 1
      OBVIOUS
    <3>3. QED
      BY <3>1, <3>2
  <2>3. ASSUME NEW i \in 1 .. Len(e), NEW c \in Block, Edge(e[i], c)
        PROVE  \E k \in 1 .. Len(u) : u[k] = <<c, i>>
    <3>1. i = 1
      BY <1>3
    <3>2. QED
      BY <1>3, <1>5, <2>3, <3>1 DEF AreCalls
  <2>4. QED
    BY <2>1, <2>2, <2>3 DEF Pending
<1>11. DfsTree(Len(e), NumEdges(e), NumParent(e, p), B)
  <2>1. \A i \in 1 .. 1 : i = 1 /\ ~(i \in 2 .. 1)
    OBVIOUS
  <2>2. \A i \in 2 .. 1 : FALSE
    OBVIOUS
  <2>3. \A i \in 1 .. 1 : B[i] \subseteq 1 .. 1
    OBVIOUS
  <2>4. \A i, j \in 1 .. 1 : ~(i < j)
    OBVIOUS
  <2>5. 1 \in Nat /\ B[1] = {1}
    OBVIOUS
  <2> HIDE DEF B
  <2>6. QED
    BY <1>3, <2>2, <2>3, <2>4, <2>5 DEF DfsTree
<1>12. \A b \in Block : b \notin ToSet(e) \/ b = 1 => p[b] = 0
  BY <1>3, <1>4, <1>7 DEF Found
<1>13. Found(r, B)
  <2>1. \A b \in Block : b \notin ToSet(r.arr) \/ b = 1 => r.parent[b] = 0
    BY <1>9, <1>12
  <2>2. DfsTree(Len(r.arr), NumEdges(r.arr), NumParent(r.arr, r.parent), B) /\ Numbered(r.arr)
    BY <1>3, <1>9, <1>11
  <2>3. IF Len(r.arr) = 0 THEN r.calls = <<<<1, 0>>>> ELSE Pending(r.arr, r.calls, B)
    BY <1>3, <1>9, <1>10
  <2> HIDE DEF B
  <2>4. QED
    BY <1>9, <2>1, <2>2, <2>3 DEF Found
<1>14. QED
  BY <1>13 DEF r

(* A later visit: the way to the new number is that to its parent. *)
LEMMA VisitFound ==
  ASSUME JumpsRight, NEW s, NEW A, Found(s, A), Len(s.arr) # 0, s.calls # <<>>,
         NEW b, b = s.calls[1][1], b \notin ToSet(s.arr)
  PROVE  \E B : Found(Visited(s, b), B)
<1> DEFINE q == s.calls
           a == s.arr
           n == Len(a)
           p == q[1][2]
           e == Append(a, b)
           u == Calls(b, n + 1)
           t == Tail(q)
           v == u \o t
           pp == [s.parent EXCEPT ![b] = p]
           r == Visited(s, b)
           B == [i \in 1 .. n + 1 |-> IF i = n + 1 THEN A[p] \cup {n + 1} ELSE A[i]]
<1>1. /\ s \in DfsState /\ Numbered(a) /\ Pending(a, q, A)
      /\ DfsTree(n, NumEdges(a), NumParent(a, s.parent), A)
      /\ \A x \in Block : x \notin ToSet(a) \/ x = 1 => s.parent[x] = 0
  BY DEF Found
<1>2. q \in Seq(Block \X Nat) /\ n \in Nat /\ n > 0 /\ n \in 1 .. n /\ s.parent \in [Block -> Nat]
  <2>1. q \in Seq(Block \X Nat) /\ n \in Nat /\ s.parent \in [Block -> Nat]
    BY <1>1 DEF Numbered, DfsState, CallSeq
  <2>2. n > 0 /\ n \in 1 .. n
    BY <2>1
  <2>3. QED
    BY <2>1, <2>2
<1>3. /\ t \in Seq(Block \X Nat) /\ Len(t) \in Nat /\ Len(t) = Len(q) - 1 /\ Len(q) \in Nat /\ Len(q) > 0
      /\ q[1] \in Block \X Nat
      /\ \A i \in 1 .. Len(t) : t[i] = q[i + 1] /\ i + 1 \in 1 .. Len(q)
      /\ \A i \in 2 .. Len(q) : q[i] = t[i - 1] /\ i - 1 \in 1 .. Len(t)
  BY <1>2, TailIs
<1>4. b \in Block /\ p \in Nat /\ 1 \in 1 .. Len(q)
  BY <1>3
<1>5. AreCalls(u, b, n + 1)
  BY <1>2, <1>4, CallsAre
<1>6. u \in Seq(Block \X Nat)
  BY <1>5 DEF AreCalls, CallSeq
<1>7. v \in Seq(Block \X Nat) /\ JoinOf(v, u, t)
  <2>1. u \in Seq(Block \X Nat) /\ t \in Seq(Block \X Nat)
    BY <1>3, <1>6
  <2> HIDE DEF t, u
  <2>2. QED
    BY <2>1, ConcatIs
<1>8. p \in A[n] /\ Edge(a[p], b)
  BY <1>1, <1>2, <1>4 DEF Pending
<1>26. PICK G : G = NumEdges(a)
  OBVIOUS
<1>27. PICK P : P = NumParent(a, s.parent)
  OBVIOUS
<1>28. n = Len(a) /\ b = q[1][1] /\ p = q[1][2] /\ a = s.arr
  OBVIOUS
<1> HIDE DEF t, u, q, a, e, v, pp, r, B, n, p
<1>29. DfsTree(n, G, P, A)
  BY <1>1, <1>26, <1>27
<1>9. p \in 1 .. n /\ a[p] \in Reachable
  <2>1. p \in 1 .. n
    BY <1>29, <1>2, <1>8, WayBounds
  <2>2. QED
    BY <1>1, <1>28, <2>1 DEF Numbered, ToSet
<1>10. b \in Reachable /\ b # 1 /\ b \notin ToSet(a)
  BY <1>4, <1>8, <1>9, <1>28, ReachableIs, EdgeInto
<1>11. /\ Numbered(e) /\ Len(e) = n + 1 /\ ToSet(e) = ToSet(a) \cup {b}
       /\ e[n + 1] = b /\ \A i \in 1 .. n : e[i] = a[i]
  <2>1. Len(a) # 0
    BY <1>28
  <2>2. /\ Numbered(Append(a, b)) /\ Len(Append(a, b)) = Len(a) + 1
        /\ ToSet(Append(a, b)) = ToSet(a) \cup {b}
        /\ Append(a, b)[Len(a) + 1] = b
        /\ \A i \in 1 .. Len(a) : Append(a, b)[i] = a[i]
    BY <1>1, <1>10, <2>1, NumberedAppend
  <2>3. QED
    BY <1>28, <2>2 DEF e
<1>12. pp \in [Block -> Nat] /\ pp[b] = p /\ \A x \in Block : x # b => pp[x] = s.parent[x]
  BY <1>2, <1>4 DEF pp
<1>13. r = [parent |-> pp, arr |-> e, calls |-> v]
  BY DEF Visited, e, v, pp, u, t, q, n, a, p, r
<1>14. r \in DfsState /\ r.parent = pp /\ r.arr = e /\ r.calls = v
  BY <1>7, <1>11, <1>12, <1>13 DEF DfsState, CallSeq, Numbered
<1>15. DfsTree(n + 1, NumEdges(e), NumParent(e, pp), B)
  <2>1. \A i \in 1 .. n : a[i] \in Block /\ a[i] # b /\ i \in 1 .. n + 1
    <3> TAKE i \in 1 .. n
    <3>1. a[i] \in ToSet(a) /\ a[i] \in Block
      BY <1>1, <1>28, ReachableIs DEF Numbered, ToSet
    <3>2. i \in 1 .. n + 1
      BY <1>2
    <3>3. QED
      BY <1>10, <3>1, <3>2
  <2>2. NumParent(e, pp)[n + 1] = p
    BY <1>2, <1>11, <1>12 DEF NumParent
  <2>3. \A i \in 1 .. n : NumParent(e, pp)[i] = P[i]
    BY <1>11, <1>12, <1>27, <1>28, <2>1 DEF NumParent
  <2>4. \A i, j : <<i, j>> \in NumEdges(e) <=> i \in 1 .. n + 1 /\ j \in 1 .. n + 1 /\ Edge(e[i], e[j])
    <3>1. Len(e) \in Nat
      BY <1>2, <1>11
    <3>2. QED
      BY <1>11, <3>1, NumEdgesAre
  <2>5. \A i, j : <<i, j>> \in G <=> i \in 1 .. n /\ j \in 1 .. n /\ Edge(a[i], a[j])
    BY <1>2, <1>26, <1>28, NumEdgesAre
  <2>6. \A i, j \in 1 .. n : <<i, j>> \in NumEdges(e) <=> <<i, j>> \in G
    <3> TAKE i, j \in 1 .. n
    <3>1. e[i] = a[i] /\ e[j] = a[j] /\ i \in 1 .. n + 1 /\ j \in 1 .. n + 1
      BY <1>11, <2>1
    <3>2. QED
      BY <2>4, <2>5, <3>1
  <2>7. n + 1 \in 1 .. n + 1 /\ <<p, n + 1>> \in NumEdges(e)
    BY <1>2, <1>8, <1>9, <1>11, <2>1, <2>4
  <2>8. ASSUME NEW i \in 1 .. n, <<i, n + 1>> \in NumEdges(e) PROVE i \in A[p]
    <3>1. Edge(a[i], b)
      BY <1>11, <2>4, <2>8
    <3>2. PICK k \in 1 .. Len(q) : q[k] = <<b, i>>
      BY <1>1, <1>4, <1>10, <1>28, <3>1 DEF Pending
    <3>3. i \in A[n] /\ i <= p
      <4>1. q[k][2] = i
        BY <3>2
      <4>2. i \in A[n]
        BY <1>1, <1>28, <3>2, <4>1 DEF Pending
      <4>3. CASE k = 1
        <5>1. i = p /\ p \in Nat
          BY <1>4, <1>28, <4>1, <4>3
        <5>2. QED
          BY <4>2, <5>1
      <4>4. CASE k # 1
        <5>1. 1 < k
          BY <1>3, <4>4
        <5>2. QED
          BY <1>1, <1>4, <1>28, <3>2, <4>1, <4>2, <5>1 DEF Pending
      <4>5. QED
        BY <4>2, <4>3, <4>4
    <3>4. QED
      BY <1>29, <1>2, <1>8, <3>3, WayAbove
  <2>9. PICK H : H = NumEdges(e)
    OBVIOUS
  <2>10. PICK Q : Q = NumParent(e, pp)
    OBVIOUS
  <2>11. DfsTree(n + 1, H, Q, B)
    <3>1. p \in A[n] /\ n > 0
      BY <1>2, <1>8
    <3>2. Q[n + 1] = p /\ \A i \in 1 .. n : Q[i] = P[i]
      BY <2>2, <2>3, <2>10
    <3>3. <<p, n + 1>> \in H /\ \A i \in 1 .. n : <<i, n + 1>> \in H => i \in A[p]
      BY <2>7, <2>8, <2>9
    <3>4. \A i, j \in 1 .. n : <<i, j>> \in H <=> <<i, j>> \in G
      BY <2>6, <2>9
    <3>5. DfsTree(n + 1, H, Q, [i \in 1 .. n + 1 |-> IF i = n + 1 THEN A[p] \cup {n + 1} ELSE A[i]])
      BY <1>29, <3>1, <3>2, <3>3, <3>4, TreeGrows
    <3>6. QED
      BY <3>5 DEF B
  <2>12. QED
    BY <2>9, <2>10, <2>11
<1>16. A[p] \subseteq A[n] /\ p \in A[p]
  BY <1>29, <1>2, <1>8, <1>9, WayBounds, WayTransitive
<1>17. B[n + 1] = A[p] \cup {n + 1}
  <2>1. n + 1 \in 1 .. n + 1
    BY <1>2
  <2>2. QED
    BY <2>1 DEF B
(* the parents of the calls *)
<1>18. ASSUME NEW k \in 1 .. Len(u)
       PROVE  v[k][2] = n + 1 /\ Edge(e[v[k][2]], v[k][1])
  <2>1. v[k] = u[k]
    BY <1>7 DEF JoinOf
  <2>2. u[k][2] = n + 1 /\ Edge(b, u[k][1])
    BY <1>5 DEF AreCalls
  <2>3. QED
    BY <1>11, <2>1, <2>2
<1>19. ASSUME NEW k \in 1 .. Len(t)
       PROVE  /\ v[k + Len(u)] = t[k] /\ t[k][2] \in A[p] /\ t[k][2] \in 1 .. n /\ Edge(e[t[k][2]], t[k][1])
              /\ \A m \in 1 .. Len(t) : k < m => t[m][2] <= t[k][2]
  <2>1. /\ v[k + Len(u)] = t[k] /\ t[k] = q[k + 1] /\ k + 1 \in 1 .. Len(q) /\ 1 < k + 1
        /\ \A m \in 1 .. Len(t) : t[m] = q[m + 1] /\ m + 1 \in 1 .. Len(q) /\ (k < m => k + 1 < m + 1)
    <3>1. 1 < k + 1 /\ \A m \in 1 .. Len(t) : k < m => k + 1 < m + 1
      BY <1>3
    <3>2. v[k + Len(u)] = t[k]
      BY <1>7 DEF JoinOf
    <3>3. QED
      BY <1>3, <3>1, <3>2
  <2>2. t[k][2] \in A[n] /\ Edge(a[t[k][2]], t[k][1]) /\ t[k][2] <= p
    BY <1>1, <1>4, <1>28, <2>1 DEF Pending
  <2>3. t[k][2] \in 1 .. n
    <3>1. \A i \in A[n] : i \in 1 .. n
      BY <1>29, <1>2, WayBounds
    <3>2. QED
      BY <2>2, <3>1
  <2>4. t[k][2] \in A[p]
    BY <1>29, <1>2, <1>8, <2>2, WayAbove
  <2>5. \A m \in 1 .. Len(t) : k < m => t[m][2] <= t[k][2]
    BY <1>1, <2>1 DEF Pending
  <2>6. QED
    BY <1>11, <2>1, <2>2, <2>3, <2>4, <2>5
<1>20. ASSUME NEW k \in 1 .. Len(v)
       PROVE  /\ v[k][2] \in B[Len(e)] /\ Edge(e[v[k][2]], v[k][1])
              /\ \A m \in 1 .. Len(v) : k < m => v[m][2] <= v[k][2]
  <2>1. CASE k \in 1 .. Len(u)
    <3>1. v[k][2] = n + 1 /\ Edge(e[v[k][2]], v[k][1])
      BY <1>18, <2>1
    <3>2. ASSUME NEW m \in 1 .. Len(v) PROVE v[m][2] <= n + 1
      <4>1. CASE m \in 1 .. Len(u)
        BY <1>2, <1>18, <4>1
      <4>2. CASE m - Len(u) \in 1 .. Len(t)
        <5>1. (m - Len(u)) + Len(u) = m
          BY <1>7 DEF JoinOf
        <5>2. v[m][2] \in 1 .. n
          BY <1>19, <4>2, <5>1
        <5>3. QED
          BY <1>2, <5>2
      <4>3. QED
        BY <1>7, <4>1, <4>2 DEF JoinOf
    <3>3. QED
      BY <1>11, <1>17, <3>1, <3>2
  <2>2. CASE k - Len(u) \in 1 .. Len(t) /\ k \notin 1 .. Len(u)
    <3>1. PICK j \in 1 .. Len(t) : j = k - Len(u)
      BY <2>2
    <3>2. j + Len(u) = k
      BY <1>7, <3>1 DEF JoinOf
    <3>3. v[k] = t[j] /\ t[j][2] \in A[p] /\ Edge(e[t[j][2]], t[j][1])
      BY <1>19, <3>2
    <3>4. ASSUME NEW m \in 1 .. Len(v), k < m PROVE v[m][2] <= v[k][2]
      <4>1. PICK i \in 1 .. Len(t) : i = m - Len(u)
        <5>1. m \notin 1 .. Len(u)
          BY <1>7, <2>2, <3>4 DEF JoinOf
        <5>2. m - Len(u) \in 1 .. Len(t)
          BY <1>7, <5>1 DEF JoinOf
        <5>3. QED
          BY <5>2
      <4>2. i + Len(u) = m /\ j < i
        BY <1>7, <3>2, <3>4, <4>1 DEF JoinOf
      <4>3. v[m] = t[i] /\ t[i][2] <= t[j][2]
        BY <1>19, <4>2
      <4>4. QED
        BY <3>3, <4>3
    <3>5. QED
      BY <1>11, <1>17, <3>3, <3>4
  <2>3. QED
    BY <1>7, <2>1, <2>2 DEF JoinOf
<1>21. ASSUME NEW i \in 1 .. Len(e), NEW c \in Block, Edge(e[i], c), c \notin ToSet(e)
       PROVE  \E k \in 1 .. Len(v) : v[k] = <<c, i>>
  <2>1. CASE i = n + 1
    <3>1. PICK k \in 1 .. Len(u) : u[k] = <<c, i>>
      BY <1>5, <1>11, <1>21, <2>1 DEF AreCalls
    <3>2. QED
      BY <1>7, <3>1 DEF JoinOf
  <2>2. CASE i # n + 1
    <3>1. i \in 1 .. n
      BY <1>2, <1>11, <2>2
    <3>2. Edge(a[i], c) /\ c \notin ToSet(a) /\ c # b
      BY <1>11, <1>21, <3>1
    <3>3. PICK k \in 1 .. Len(q) : q[k] = <<c, i>>
      BY <1>1, <1>28, <3>1, <3>2 DEF Pending
    <3>4. k # 1
      BY <1>28, <3>2, <3>3
    <3>5. k \in 2 .. Len(q)
      BY <1>3, <3>4
    <3>6. q[k] = t[k - 1] /\ k - 1 \in 1 .. Len(t)
      BY <1>3, <3>5
    <3>7. v[(k - 1) + Len(u)] = <<c, i>> /\ (k - 1) + Len(u) \in 1 .. Len(v)
      BY <1>7, <3>3, <3>6 DEF JoinOf
    <3>8. QED
      BY <3>7
  <2>3. QED
    BY <2>1, <2>2
<1>22. Pending(e, v, B)
  BY <1>20, <1>21 DEF Pending
<1>23. \A x \in Block : x \notin ToSet(e) \/ x = 1 => pp[x] = 0
  BY <1>1, <1>10, <1>11, <1>12
<1>24. Found(r, B)
  <2>1. \A x \in Block : x \notin ToSet(r.arr) \/ x = 1 => r.parent[x] = 0
    BY <1>14, <1>23
  <2>2. DfsTree(Len(r.arr), NumEdges(r.arr), NumParent(r.arr, r.parent), B) /\ Numbered(r.arr)
    BY <1>11, <1>14, <1>15
  <2>3. Len(r.arr) # 0 /\ Pending(r.arr, r.calls, B)
    BY <1>2, <1>11, <1>14, <1>22
  <2>4. QED
    BY <1>14, <2>1, <2>2, <2>3 DEF Found
<1>25. QED
  BY <1>24 DEF r

LEMMA BaseFound ==
  \A A : Found(DfsBase, A)
<1> TAKE A
<1>1. DfsBase \in DfsState
  <2>1. <<1, 0>> \in Block \X Nat
    BY BlockIs
  <2>2. <<<<1, 0>>>> \in CallSeq
    BY <2>1 DEF CallSeq
  <2>3. QED
    BY <2>2 DEF DfsBase, DfsState
<1>2. PICK e : e = <<>>
  OBVIOUS
<1>3. DfsBase.arr = e /\ DfsBase.calls = <<<<1, 0>>>> /\ \A b \in Block : DfsBase.parent[b] = 0
  BY <1>2 DEF DfsBase
<1>4. Len(e) = 0 /\ e \in Seq(Block) /\ DOMAIN e = 1 .. 0 /\ ToSet(e) = {}
  BY <1>2 DEF ToSet
<1>5. \A i \in 1 .. 0 : FALSE
  OBVIOUS
<1>6. \A i \in 2 .. 0 : FALSE
  OBVIOUS
<1>7. Numbered(e)
  BY <1>4, <1>5 DEF Numbered
<1>8. \A G, P : DfsTree(0, G, P, A)
  BY <1>5, <1>6 DEF DfsTree
<1>9. QED
  BY <1>1, <1>3, <1>4, <1>7, <1>8 DEF Found

LEMMA StepFound ==
  ASSUME JumpsRight, NEW s, NEW A, Found(s, A)
  PROVE  \E B : Found(DfsStep(s), B)
<1>1. CASE s.calls = <<>>
  <2>1. DfsStep(s) = s
    BY <1>1 DEF DfsStep
  <2>2. QED
    BY <2>1
<1>2. CASE s.calls # <<>> /\ s.calls[1][1] \in ToSet(s.arr)
  <2>1. DfsStep(s) = [s EXCEPT !.calls = Tail(@)]
    BY <1>2 DEF DfsStep
  <2>2. Found([s EXCEPT !.calls = Tail(@)], A)
    BY <1>2, DropFound
  <2>3. QED
    BY <2>1, <2>2
<1>3. CASE s.calls # <<>> /\ s.calls[1][1] \notin ToSet(s.arr)
  <2>1. PICK b : b = s.calls[1][1]
    OBVIOUS
  <2>2. DfsStep(s) = Visited(s, b)
    BY <1>3, <2>1 DEF DfsStep, Visited
  <2>3. CASE Len(s.arr) = 0
    <3>1. b = 1
      BY <2>1, <2>3 DEF Found
    <3>2. QED
      BY <2>2, <2>3, <3>1, FirstFound
  <2>4. CASE Len(s.arr) # 0
    <3>1. b \notin ToSet(s.arr)
      BY <1>3, <2>1
    <3>2. \E B : Found(Visited(s, b), B)
      BY <1>3, <2>1, <2>4, <3>1, VisitFound
    <3>3. QED
      BY <2>2, <3>2
  <2>5. QED
    BY <2>3, <2>4
<1>4. QED
  BY <1>1, <1>2, <1>3

(* Every call is of a child of a block, and the last block has none: the   *)
(* calls are used up after Width rounds for each block.                    *)
Inside == 1 .. NBlocks - 1
Left(s) == Cardinality(Inside \ ToSet(s.arr))
Fuel(s, k) == s.calls = <<>> \/ Len(s.calls) + k + Width * Left(s) <= Rounds - 1

LEMMA FuelBase ==
  ASSUME JumpsRight
  PROVE  Fuel(DfsBase, 0)
<1>1. NBlocks \in Nat /\ NBlocks > 1
  BY BlockIs
<1>2. Cardinality(Inside) = NBlocks - 1
  BY <1>1, FS_Interval DEF Inside
<1>3. DfsBase.arr = <<>> /\ Len(DfsBase.calls) = 1
  BY DEF DfsBase
<1>4. ToSet(<<>>) = {}
  BY DEF ToSet
<1>5. Left(DfsBase) = NBlocks - 1
  BY <1>2, <1>3, <1>4 DEF Left
<1>6. Rounds = Width * (NBlocks - 1) + Width /\ Width * (NBlocks - 1) \in Nat
        /\ Width \in Nat /\ Width >= 2
  BY <1>1, RoundsIs, OneMore
<1>7. PICK p : p = Width * (NBlocks - 1)
  OBVIOUS
<1>8. 1 + 0 + p <= Rounds - 1
  BY <1>6, <1>7
<1>9. QED
  BY <1>3, <1>5, <1>7, <1>8 DEF Fuel

LEMMA FuelStep ==
  ASSUME JumpsRight, NEW s, NEW A, Found(s, A), NEW k \in Nat, Fuel(s, k)
  PROVE  Fuel(DfsStep(s), k + 1)
<1>0. s \in DfsState /\ s.calls \in Seq(Block \X Nat) /\ s.arr \in Seq(Block)
  BY DEF Found, DfsState, CallSeq
<1>a. \A S : IsFiniteSet(Inside \ S) /\ Cardinality(Inside \ S) \in Nat
  <2>1. IsFiniteSet(Inside)
    BY BlockIs, FS_Interval DEF Inside
  <2>2. \A S : IsFiniteSet(Inside \ S)
    BY <2>1, FS_Difference
  <2>3. QED
    BY <2>2, FS_CardinalityType
<1>1. CASE s.calls = <<>>
  <2>1. DfsStep(s) = s
    BY <1>1 DEF DfsStep
  <2>2. QED
    BY <1>1, <2>1 DEF Fuel
<1>2. CASE s.calls # <<>> /\ s.calls[1][1] \in ToSet(s.arr)
  <2>1. DfsStep(s) = [s EXCEPT !.calls = Tail(@)]
    BY <1>2 DEF DfsStep
  <2>2. DfsStep(s).calls = Tail(s.calls) /\ DfsStep(s).arr = s.arr
    BY <1>0, <2>1 DEF DfsState
  <2>3. Len(Tail(s.calls)) = Len(s.calls) - 1 /\ Len(s.calls) \in Nat
    BY <1>0, <1>2, TailIs
  <2>4. Left(DfsStep(s)) = Left(s) /\ Left(s) \in Nat
    BY <1>a, <2>2 DEF Left
  <2>5. Len(s.calls) + k + Width * Left(s) <= Rounds - 1
    BY <1>2 DEF Fuel
  <2>6. Len(DfsStep(s).calls) = Len(s.calls) - 1
    BY <2>2, <2>3
  <2>7. Len(DfsStep(s).calls) + (k + 1) + Width * Left(DfsStep(s)) <= Rounds - 1
    <3>1. Width * Left(s) \in Nat /\ Rounds \in Nat
      BY <2>4, RoundsIs, OneMore
    <3>2. \A l, m, r \in Nat : l + k + m <= r - 1 => (l - 1) + (k + 1) + m <= r - 1
      OBVIOUS
    <3>3. (Len(s.calls) - 1) + (k + 1) + Width * Left(s) <= Rounds - 1
      BY <2>3, <2>5, <3>1, <3>2
    <3>4. QED
      BY <2>4, <2>6, <3>3
  <2>8. QED
    BY <2>7 DEF Fuel
<1>3. CASE s.calls # <<>> /\ s.calls[1][1] \notin ToSet(s.arr)
  <2>1. PICK b : b = s.calls[1][1]
    OBVIOUS
  <2>2. DfsStep(s) = Visited(s, b)
    BY <1>3, <2>1 DEF DfsStep, Visited
  <2>3. PICK t : t = Tail(s.calls)
    OBVIOUS
  <2>4. PICK u : u = Calls(b, Len(s.arr) + 1)
    OBVIOUS
  <2>5. b \in Block /\ t \in Seq(Block \X Nat) /\ Len(t) = Len(s.calls) - 1 /\ Len(s.calls) \in Nat /\ Len(t) \in Nat
    <3>1. /\ s.calls[1] \in Block \X Nat /\ Tail(s.calls) \in Seq(Block \X Nat)
          /\ Len(Tail(s.calls)) = Len(s.calls) - 1 /\ Len(s.calls) \in Nat
          /\ Len(Tail(s.calls)) \in Nat
      BY <1>0, <1>3, TailIs
    <3>2. QED
      BY <2>1, <2>3, <3>1
  <2>6. AreCalls(u, b, Len(s.arr) + 1)
    <3>1. Len(s.arr) + 1 \in Nat
      BY <1>0
    <3>2. QED
      BY <2>4, <2>5, <3>1, CallsAre
  <2>7. Len(u) \in 0 .. Width /\ (b = NBlocks => Len(u) = 0)
    <3>1. b = NBlocks => Len(child(b)) = 0
      BY <2>5, ChildIs
    <3>2. QED
      BY <2>6, <3>1 DEF AreCalls
  <2>8. Len(u \o t) = Len(u) + Len(t)
    <3>1. u \in Seq(Block \X Nat)
      BY <2>6 DEF AreCalls, CallSeq
    <3>2. PICK T : T = Block \X Nat
      OBVIOUS
    <3>3. u \in Seq(T) /\ t \in Seq(T)
      BY <2>5, <3>1, <3>2
    <3>4. JoinOf(u \o t, u, t)
      BY <3>3, ConcatIs
    <3>5. QED
      BY <3>4 DEF JoinOf
  <2>9. DfsStep(s).calls = u \o t /\ DfsStep(s).arr = Append(s.arr, b)
    <3>1. /\ Visited(s, b).calls = Calls(b, Len(s.arr) + 1) \o Tail(s.calls)
          /\ Visited(s, b).arr = Append(s.arr, b)
      BY DEF Visited
    <3>2. QED
      BY <2>2, <2>3, <2>4, <3>1
  <2>10. ToSet(Append(s.arr, b)) = ToSet(s.arr) \cup {b}
    BY <1>0, <2>5, ToSetAppend
  <2>11. Left(s) \in Nat /\ Left(DfsStep(s)) \in Nat
    BY <1>a DEF Left
  <2>12. b # NBlocks => Left(DfsStep(s)) = Left(s) - 1
    <3>1. SUFFICES ASSUME b # NBlocks PROVE Left(DfsStep(s)) = Left(s) - 1
      OBVIOUS
    <3>2. b \in Inside \ ToSet(s.arr)
      BY <1>3, <2>1, <2>5, <3>1, BlockIs DEF Block, Inside
    <3>3. Inside \ ToSet(DfsStep(s).arr) = (Inside \ ToSet(s.arr)) \ {b}
      BY <2>9, <2>10
    <3>4. PICK S : S = Inside \ ToSet(s.arr)
      OBVIOUS
    <3>5. IsFiniteSet(S) /\ b \in S
      BY <1>a, <3>2, <3>4
    <3>6. Cardinality(S \ {b}) = Cardinality(S) - 1
      BY <3>5, FS_RemoveElement
    <3>7. QED
      BY <3>3, <3>4, <3>6 DEF Left
  <2>13. b = NBlocks => Left(DfsStep(s)) = Left(s)
    <3>1. SUFFICES ASSUME b = NBlocks PROVE Left(DfsStep(s)) = Left(s)
      OBVIOUS
    <3>2. NBlocks \notin Inside
      BY BlockIs DEF Inside
    <3>3. Inside \ ToSet(DfsStep(s).arr) = Inside \ ToSet(s.arr)
      BY <2>9, <2>10, <3>1, <3>2
    <3>4. QED
      BY <3>3 DEF Left
  <2>14. Len(s.calls) + k + Width * Left(s) <= Rounds - 1
    BY <1>3 DEF Fuel
  <2>15. PICK l : l = Len(s.calls)
    OBVIOUS
  <2>16. PICK m : m = Len(u)
    OBVIOUS
  <2>a. PICK w : w = Width
    OBVIOUS
  <2>17. Len(DfsStep(s).calls) = m + (l - 1) /\ m \in 0 .. w /\ w \in Nat /\ l \in Nat
    BY <2>5, <2>7, <2>8, <2>9, <2>15, <2>16, <2>a, RoundsIs
  <2>18. PICK x : x = Left(s)
    OBVIOUS
  <2>19. PICK y : y = Left(DfsStep(s))
    OBVIOUS
  <2>b. PICK r : r = Rounds
    OBVIOUS
  <2>20. m + (l - 1) + (k + 1) + w * y <= r - 1
    <3>1. l + k + w * x <= r - 1 /\ x \in Nat /\ y \in Nat /\ r \in Nat
      BY <2>11, <2>14, <2>15, <2>18, <2>19, <2>a, <2>b, RoundsIs
    <3>2. (m = 0 /\ y = x) \/ y = x - 1
      BY <2>7, <2>12, <2>13, <2>16, <2>18, <2>19
    <3>3. PICK p : p = w * x
      OBVIOUS
    <3>4. PICK q : q = w * y
      OBVIOUS
    <3>5. p \in Nat /\ q \in Nat
      BY <2>17, <3>1, <3>3, <3>4, OneMore
    <3>6. (m = 0 /\ q = p) \/ p = q + w
      <4>1. CASE m = 0 /\ y = x
        BY <3>3, <3>4, <4>1
      <4>2. CASE y = x - 1
        BY <2>17, <3>1, <3>3, <3>4, <4>2, OneMore
      <4>3. QED
        BY <3>2, <4>1, <4>2
    <3>7. l + k + p <= r - 1
      BY <3>1, <3>3
    <3>8. m + (l - 1) + (k + 1) + q <= r - 1
      BY <2>17, <3>1, <3>5, <3>6, <3>7
    <3>9. QED
      BY <3>4, <3>8
  <2>21. QED
    BY <2>17, <2>19, <2>20, <2>a, <2>b DEF Fuel
<1>4. QED
  BY <1>1, <1>2, <1>3

(* What the search has found in the end. *)
Searched(d, A) ==
  /\ d \in DfsState /\ Numbered(d.arr) /\ Len(d.arr) \in 1 .. NBlocks
  /\ ToSet(d.arr) = Reachable
  /\ DfsTree(Len(d.arr), NumEdges(d.arr), NumParent(d.arr, d.parent), A)

LEMMA DfsSearched ==
  ASSUME JumpsRight
  PROVE  \E A : Searched(dfs, A)
<1>1. PICK f : /\ dfs = f[Rounds] /\ f[0] = DfsBase
               /\ \A k \in 1 .. Rounds : f[k] = DfsStep(f[k - 1])
  BY DfsSolves
<1>2. NBlocks \in Nat /\ Rounds \in Nat /\ Width \in Nat
  BY RoundsIs
<1> DEFINE S == {k \in Nat : k <= Rounds => (\E A : Found(f[k], A)) /\ Fuel(f[k], k)}
<1>3. 0 \in S
  BY <1>1, BaseFound, FuelBase
<1>4. ASSUME NEW k \in Nat, k \in S PROVE k + 1 \in S
  <2>1. SUFFICES ASSUME k + 1 <= Rounds
                 PROVE  (\E A : Found(f[k + 1], A)) /\ Fuel(f[k + 1], k + 1)
    OBVIOUS
  <2>2. k <= Rounds /\ k + 1 \in 1 .. Rounds /\ (k + 1) - 1 = k
    BY <1>2, <2>1
  <2>3. PICK A : Found(f[k], A) /\ Fuel(f[k], k)
    BY <1>4, <2>2
  <2>4. f[k + 1] = DfsStep(f[k])
    BY <1>1, <2>2
  <2>5. QED
    BY <2>3, <2>4, StepFound, FuelStep
<1> HIDE DEF S
<1>5. Rounds \in S
  BY <1>2, <1>3, <1>4, SetInduction
<1>6. PICK A : Found(dfs, A) /\ Fuel(dfs, Rounds)
  BY <1>1, <1>2, <1>5 DEF S
<1>7. PICK d : d = dfs
  OBVIOUS
<1>8. Found(d, A) /\ d \in DfsState /\ Numbered(d.arr) /\ d.calls \in Seq(Block \X Nat)
  BY <1>6, <1>7 DEF Found, DfsState, CallSeq
<1>9. d.calls = <<>>
  <2>1. Len(d.calls) \in Nat /\ Left(d) \in Nat
    <3>1. IsFiniteSet(Inside)
      BY BlockIs, FS_Interval DEF Inside
    <3>2. IsFiniteSet(Inside \ ToSet(d.arr))
      BY <3>1, FS_Difference
    <3>3. Left(d) \in Nat
      BY <3>2, FS_CardinalityType DEF Left
    <3>4. QED
      BY <1>8, <3>3
  <2>2. ~(Len(d.calls) + Rounds + Width * Left(d) <= Rounds - 1)
    <3>1. Width * Left(d) \in Nat
      BY <1>2, <2>1, OneMore
    <3>2. \A l, m, r \in Nat : ~(l + r + m <= r - 1)
      OBVIOUS
    <3>3. QED
      BY <1>2, <2>1, <3>1, <3>2
  <2>3. QED
    BY <1>6, <1>7, <2>2 DEF Fuel
<1>10. Len(d.arr) # 0
  BY <1>8, <1>9 DEF Found
<1>11. Pending(d.arr, d.calls, A) /\ Len(d.arr) \in Nat /\ Len(d.arr) > 0 /\ d.arr[1] = 1
  BY <1>8, <1>10 DEF Found, Numbered
<1>12. ToSet(d.arr) = Reachable
  <2>1. \A k \in 1 .. Len(d.calls) : FALSE
    BY <1>9
  <2>2. \A i \in 1 .. Len(d.arr), c \in Block : Edge(d.arr[i], c) => c \in ToSet(d.arr)
    BY <1>11, <2>1 DEF Pending
  <2>3. DOMAIN d.arr = 1 .. Len(d.arr)
    BY <1>8 DEF Numbered
  <2>4. \A x \in ToSet(d.arr), c \in Block : Edge(x, c) => c \in ToSet(d.arr)
    BY <2>2, <2>3 DEF ToSet
  <2>5. 1 \in ToSet(d.arr) /\ ToSet(d.arr) \subseteq Reachable
    BY <1>8, <1>11, <2>3 DEF ToSet, Numbered
  <2>6. Reachable \subseteq ToSet(d.arr)
    BY <2>4, <2>5, ReachableIs
  <2>7. QED
    BY <2>5, <2>6
<1>13. Len(d.arr) \in 1 .. NBlocks
  <2>1. PICK a : a = d.arr
    OBVIOUS
  <2>2. a \in [1 .. Len(a) -> Block] /\ \A i, j \in 1 .. Len(a) : a[i] = a[j] => i = j
    BY <1>8, <2>1 DEF Numbered
  <2>3. PICK m : m = Len(a)
    OBVIOUS
  <2>4. a \in Injection(1 .. m, Block) /\ m \in Nat
    BY <1>11, <2>1, <2>2, <2>3 DEF Injection, IsInjective
  <2>5. IsFiniteSet(1 .. m) /\ Cardinality(1 .. m) = m
    BY <2>4, FS_Interval
  <2>6. Cardinality(1 .. m) <= Cardinality(Block)
    BY <2>4, <2>5, BlockIs, FS_Injection
  <2>7. QED
    BY <1>2, <1>11, <2>1, <2>3, <2>5, <2>6, BlockIs
<1>14. Searched(d, A)
  BY <1>8, <1>12, <1>13 DEF Searched, Found
<1>15. QED
  BY <1>7, <1>14

(* A proper ancestor has a child on the way. *)
LEMMA ChildOn ==
  ASSUME NEW n, NEW G, NEW P, NEW A, DfsTree(n, G, P, A)
  PROVE  \A k \in 1 .. n : \A p \in A[k] : p # k => \E c \in A[k] : P[c] = p /\ c \in 2 .. n /\ p < c
<1>0. n \in Nat
  BY DEF DfsTree
<1> DEFINE S == {m \in Nat : \A k \in 1 .. n : k <= m =>
                   \A p \in A[k] : p # k => \E c \in A[k] : P[c] = p /\ c \in 2 .. n /\ p < c}
<1>1. 0 \in S
  BY <1>0
<1>2. ASSUME NEW m \in Nat, m \in S PROVE m + 1 \in S
  <2>1. SUFFICES ASSUME m + 1 <= n, NEW p \in A[m + 1], p # m + 1
                 PROVE  \E c \in A[m + 1] : P[c] = p /\ c \in 2 .. n /\ p < c
    <3>1. \A k \in 1 .. n : k <= m + 1 => k <= m \/ (k = m + 1 /\ m + 1 <= n)
      BY <1>0
    <3>2. QED
      BY <1>2, <2>1, <3>1
  <2>2. m + 1 \in 1 .. n
    BY <1>0, <2>1
  <2>3. m + 1 # 1
    BY <2>1, <2>2, WayBounds
  <2>4. m + 1 \in 2 .. n
    BY <1>0, <2>2, <2>3
  <2>5. P[m + 1] \in 1 .. m /\ A[m + 1] = A[P[m + 1]] \cup {m + 1}
    <3>1. P[m + 1] \in 1 .. (m + 1) - 1 /\ A[m + 1] = A[P[m + 1]] \cup {m + 1}
      BY <2>4 DEF DfsTree
    <3>2. QED
      BY <3>1
  <2>6. P[m + 1] \in 1 .. n /\ P[m + 1] <= m /\ P[m + 1] < m + 1
    BY <1>0, <2>1, <2>5
  <2>7. CASE p = P[m + 1]
    BY <2>4, <2>5, <2>6, <2>7
  <2>8. CASE p # P[m + 1]
    <3>1. p \in A[P[m + 1]]
      BY <2>1, <2>5
    <3>2. \E c \in A[P[m + 1]] : P[c] = p /\ c \in 2 .. n /\ p < c
      BY <1>2, <2>6, <2>8, <3>1
    <3>3. QED
      BY <2>5, <3>2
  <2>9. QED
    BY <2>7, <2>8
<1> HIDE DEF S
<1>3. n \in S
  BY <1>0, <1>1, <1>2, SetInduction
<1>4. \A j \in 1 .. n : j <= n
  BY <1>0
<1>5. QED
  BY <1>3, <1>4 DEF S

-----------------------------------------------------------------------------
(* The buckets.  When the numbers above l are done, v is decided if the    *)
(* child of its semi-dominator on the way to it is one of them: then it    *)
(* has its immediate dominator I[v], or M[v] that has the same one.  Until *)
(* then it waits in the bucket of its semi-dominator.                      *)
Decided(P, A, s, l, v) == \E c \in A[v] : c > l /\ P[c] = s[v]

Answered(A, s, I, M, v) ==
  \E u : /\ Lowest(A, s, v, u)
         /\ s[u] = s[v] => I[v] = s[v] /\ M[v] = 0
         /\ s[u] # s[v] => I[v] = 0 /\ M[v] = u

Buckets(n, P, A, s, l, I, M, K) ==
  /\ \A v \in l + 1 .. n : IF Decided(P, A, s, l, v) THEN Answered(A, s, I, M, v)
                           ELSE I[v] = 0 /\ M[v] = 0
  /\ \A v \in 1 .. l : I[v] = 0 /\ M[v] = 0
  /\ \A d \in 1 .. n : K[d] = {v \in l + 1 .. n : s[v] = d /\ ~Decided(P, A, s, l, v)}

(* With one more number the semi-dominators above it stay what they are.   *)
LEMMA SemisStep ==
  ASSUME NEW n, NEW G, NEW P, NEW A, DfsTree(n, G, P, A), NEW l \in 2 .. n,
         NEW s, Semis(n, G, P, A, s, l + 1), NEW z,
         \A v \in 1 .. n : v # l => z[v] = s[v],
         SemiBound(n, G, P, A, s, l, z[l]), SemiFrom(n, G, P, A, s, l, z[l])
  PROVE  Semis(n, G, P, A, z, l)
<1>1. n \in Nat /\ l \in 1 .. n
  BY DEF DfsTree
<1>2. \A v \in 1 .. n : \A u \in A[v] : u > l => z[u] = s[u] /\ u \in 1 .. n
  <2> TAKE v \in 1 .. n
  <2> TAKE u \in A[v]
  <2>1. u \in 1 .. v
    BY WayBounds
  <2>2. u \in 1 .. n
    BY <1>1, <2>1
  <2>3. QED
    BY <1>1, <2>2
<1>3. \A k \in l .. n : k \in l + 1 .. n \/ k = l
  BY <1>1
<1>4. \A k \in l .. n : \A u \in 1 .. n : u > k => u > l
  BY <1>1
<1>5. ASSUME NEW k \in l .. n
      PROVE  \A v \in 1 .. n : \A u \in A[v] : u > k => z[u] = s[u]
  <2>1. \A v \in 1 .. n : \A u \in A[v] : u \in 1 .. n
    BY <1>1, WayBounds
  <2>2. QED
    BY <1>2, <1>4, <2>1
<1>6. ASSUME NEW k \in l .. n, NEW t, SemiBound(n, G, P, A, s, k, t), SemiFrom(n, G, P, A, s, k, t)
      PROVE  SemiBound(n, G, P, A, z, k, t) /\ SemiFrom(n, G, P, A, z, k, t)
  BY <1>5, <1>6 DEF SemiBound, SemiFrom
<1>7. z[l] \in A[l] /\ z[l] \in 1 .. l - 1
  BY SemiIsAncestor
<1>8. \A k \in l + 1 .. n : z[k] = s[k] /\ k \in l .. n
  BY <1>1
<1>9. l \in l .. n
  BY <1>1
<1>10. ASSUME NEW k \in l .. n
       PROVE  /\ SemiBound(n, G, P, A, z, k, z[k]) /\ SemiFrom(n, G, P, A, z, k, z[k])
              /\ z[k] \in A[k] /\ z[k] \in 1 .. k - 1
  <2>1. CASE k = l
    BY <1>6, <1>7, <1>9, <2>1
  <2>2. CASE k \in l + 1 .. n
    <3>1. /\ SemiBound(n, G, P, A, s, k, s[k]) /\ SemiFrom(n, G, P, A, s, k, s[k])
          /\ s[k] \in A[k] /\ s[k] \in 1 .. k - 1
      BY <2>2 DEF Semis
    <3>2. QED
      BY <1>6, <1>8, <2>2, <3>1
  <2>3. QED
    BY <1>3, <2>1, <2>2
<1>11. QED
  BY <1>10 DEF Semis

LEMMA ParentBelow ==
  ASSUME NEW n, NEW G, NEW P, NEW A, DfsTree(n, G, P, A)
  PROVE  n \in Nat /\ \A i \in 2 .. n : P[i] \in 1 .. i - 1 /\ i \in 1 .. n /\ P[i] \in 1 .. n
<1>1. n \in Nat /\ \A i \in 2 .. n : P[i] \in 1 .. i - 1
  BY DEF DfsTree
<1>2. QED
  BY <1>1

(* On the way to a number nothing lies between another on it and its parent. *)
LEMMA AboveChild ==
  ASSUME NEW n, NEW G, NEW P, NEW A, DfsTree(n, G, P, A),
         NEW v \in 1 .. n, NEW c \in A[v], c # 1
  PROVE  /\ c \in 2 .. v /\ P[c] \in 1 .. c - 1 /\ P[c] \in A[v]
         /\ \A x \in A[v] : x > P[c] => x >= c
<1>1. n \in Nat /\ c \in 1 .. v
  BY WayBounds, ParentBelow
<1>2. c \in 2 .. n /\ c \in 1 .. n /\ c \in 2 .. v
  BY <1>1
<1>3. P[c] \in 1 .. c - 1 /\ P[c] \in A[c]
  BY <1>2, WayAbove, ParentBelow
<1>4. A[c] \subseteq A[v]
  BY WayTransitive
<1>5. ASSUME NEW x \in A[v], x > P[c] PROVE x >= c
  <2>1. x \in 1 .. v
    BY WayBounds
  <2>2. SUFFICES ASSUME x < c PROVE FALSE
    BY <1>1, <2>1
  <2>3. x \in A[c]
    BY <1>1, <2>1, <2>2, WayAbove
  <2>4. x # c
    BY <1>2, <2>1, <2>2
  <2>5. x <= P[c]
    BY <1>2, <2>3, <2>4, WayAbove
  <2>6. QED
    BY <1>2, <1>3, <1>5, <2>1, <2>5
<1>6. QED
  BY <1>2, <1>3, <1>4, <1>5

(* What waits in the bucket of the parent of l lies below l. *)
LEMMA WaitingBelow ==
  ASSUME NEW n, NEW G, NEW P, NEW A, DfsTree(n, G, P, A), NEW l \in 2 .. n,
         NEW s, Semis(n, G, P, A, s, l + 1), NEW v \in l + 1 .. n,
         s[v] = P[l], ~Decided(P, A, s, l, v)
  PROVE  l \in A[v]
<1>1. n \in Nat /\ l \in 1 .. n /\ P[l] \in 1 .. l - 1
  BY ParentBelow
<1>2. v \in 1 .. n /\ l < v
  BY <1>1
<1>3. P[l] \in A[v] /\ P[l] # v
  BY <1>1, <1>2 DEF Semis
<1>4. PICK c \in A[v] : P[c] = P[l] /\ c \in 2 .. n /\ P[l] < c
  BY <1>2, <1>3, ChildOn
<1>5. ~(c > l)
  BY <1>4 DEF Decided
<1>6. c <= l /\ c \in 1 .. n
  BY <1>1, <1>4, <1>5
<1>7. l \in c .. v
  BY <1>1, <1>2, <1>6
<1>8. c \in A[l]
  BY <1>2, <1>7, WayBetween
<1>9. c = l
  <2>1. SUFFICES ASSUME c # l PROVE FALSE
    OBVIOUS
  <2>2. c <= P[l]
    BY <1>8, <2>1, WayAbove
  <2>3. QED
    BY <1>1, <1>4, <2>2
<1>10. QED
  BY <1>9

(* What is decided anew at l: what waited for it, and l itself if its      *)
(* semi-dominator is its parent.                                           *)
LEMMA DecidedStep ==
  ASSUME NEW n, NEW G, NEW P, NEW A, DfsTree(n, G, P, A), NEW l \in 2 .. n,
         NEW s, Semis(n, G, P, A, s, l + 1), NEW z,
         \A v \in 1 .. n : v # l => z[v] = s[v]
  PROVE  /\ \A v \in l + 1 .. n : Decided(P, A, z, l - 1, v) <=>
                 Decided(P, A, s, l, v) \/ (z[v] = P[l] /\ ~Decided(P, A, s, l, v))
         /\ Decided(P, A, z, l - 1, l) <=> z[l] = P[l]
<1>1. n \in Nat /\ l \in 1 .. n
  BY DEF DfsTree
<1>2. l \in A[l] /\ \A c \in A[l] : c \in 1 .. l
  BY <1>1, WayBounds
<1>3. Decided(P, A, z, l - 1, l) <=> z[l] = P[l]
  <2>1. \A c \in A[l] : c > l - 1 <=> c = l
    BY <1>1, <1>2
  <2>2. QED
    BY <1>2, <2>1 DEF Decided
<1>4. ASSUME NEW v \in l + 1 .. n
      PROVE  Decided(P, A, z, l - 1, v) <=>
                 Decided(P, A, s, l, v) \/ (z[v] = P[l] /\ ~Decided(P, A, s, l, v))
  <2>1. v \in 1 .. n /\ v # l /\ z[v] = s[v]
    <3>1. v \in 1 .. n /\ v # l
      BY <1>1
    <3>2. QED
      BY <3>1
  <2>2. \A c \in A[v] : c > l - 1 <=> c > l \/ c = l
    <3>1. \A c \in A[v] : c \in 1 .. v
      BY <2>1, WayBounds
    <3>2. QED
      BY <1>1, <3>1
  <2>3. s[v] = P[l] /\ ~Decided(P, A, s, l, v) => l \in A[v]
    BY WaitingBelow
  <2>4. QED
    BY <2>1, <2>2, <2>3 DEF Decided
<1>5. QED
  BY <1>3, <1>4

Nearest(A, z, l, v, u) ==
  u \in A[v] /\ u >= l /\ \A x \in A[v] : x >= l => z[u] <= z[x]

Renewed(n, s, z, l) == \A v \in 1 .. n : v # l => z[v] = s[v]

Round(n, P, A, z, l, I, M, K, T, low, I2, M2, K2) ==
  /\ T = K[P[l]] \cup IF z[l] = P[l] THEN {l} ELSE {}
  /\ \A v \in T : Nearest(A, z, l, v, low[v])
  /\ \A v \in 1 .. n : /\ I2[v] = IF v \in T /\ z[low[v]] = z[v] THEN P[l] ELSE I[v]
                       /\ M2[v] = IF v \in T /\ z[low[v]] # z[v] THEN low[v] ELSE M[v]
  /\ \A d \in 1 .. n :
       K2[d] = IF d = P[l] THEN {} ELSE IF d = z[l] THEN K[d] \cup {l} ELSE K[d]

(* What one round of dominators does with the buckets: in is what it       *)
(* decides, low what ancestorwithlowestsemi answers.                       *)
LEMMA BucketStep ==
  ASSUME NEW n, NEW G, NEW P, NEW A, DfsTree(n, G, P, A), NEW l \in 2 .. n,
         NEW s, Semis(n, G, P, A, s, l + 1), NEW z, Renewed(n, s, z, l),
         SemiBound(n, G, P, A, s, l, z[l]), SemiFrom(n, G, P, A, s, l, z[l]),
         NEW I, NEW M, NEW K, Buckets(n, P, A, s, l, I, M, K),
         NEW T, NEW low, NEW I2, NEW M2, NEW K2, Round(n, P, A, z, l, I, M, K, T, low, I2, M2, K2)
  PROVE  Buckets(n, P, A, z, l - 1, I2, M2, K2)
<1>0. /\ T = K[P[l]] \cup IF z[l] = P[l] THEN {l} ELSE {}
      /\ \A v \in T : Nearest(A, z, l, v, low[v])
      /\ \A v \in 1 .. n : /\ I2[v] = IF v \in T /\ z[low[v]] = z[v] THEN P[l] ELSE I[v]
                           /\ M2[v] = IF v \in T /\ z[low[v]] # z[v] THEN low[v] ELSE M[v]
      /\ \A d \in 1 .. n :
           K2[d] = IF d = P[l] THEN {} ELSE IF d = z[l] THEN K[d] \cup {l} ELSE K[d]
      /\ \A v \in 1 .. n : v # l => z[v] = s[v]
  BY DEF Round, Renewed
<1> USE <1>0
<1>1. n \in Nat /\ l \in 1 .. n /\ P[l] \in 1 .. l - 1 /\ P[l] \in 1 .. n
  BY ParentBelow
<1>2. /\ \A v \in l + 1 .. n : v \in 1 .. n /\ v # l /\ z[v] = s[v] /\ v \in l .. n /\ v >= l
      /\ \A v \in (l - 1) + 1 .. n : v \in l .. n
      /\ \A v \in l .. n : (v = l \/ v \in l + 1 .. n) /\ v \in (l - 1) + 1 .. n /\ v \in 1 .. n
      /\ l \in l .. n
  <2>1. \A v \in l + 1 .. n : v \in 1 .. n /\ v # l /\ v \in l .. n /\ v >= l
    BY <1>1
  <2>2. \A v \in (l - 1) + 1 .. n : v \in l .. n
    BY <1>1
  <2>3. \A v \in l .. n : (v = l \/ v \in l + 1 .. n) /\ v \in (l - 1) + 1 .. n /\ v \in 1 .. n
    BY <1>1
  <2>4. QED
    BY <1>1, <2>1, <2>2, <2>3
<1>3. /\ \A v \in l + 1 .. n : Decided(P, A, z, l - 1, v) <=>
               Decided(P, A, s, l, v) \/ (z[v] = P[l] /\ ~Decided(P, A, s, l, v))
      /\ Decided(P, A, z, l - 1, l) <=> z[l] = P[l]
  BY DecidedStep
<1>4. \A v \in T : v \in l .. n /\ z[v] = P[l] /\ l \in A[v] /\ (v # l => ~Decided(P, A, s, l, v))
  <2> TAKE v \in T
  <2>1. CASE v \in K[P[l]]
    <3>1. v \in l + 1 .. n /\ s[v] = P[l] /\ ~Decided(P, A, s, l, v)
      BY <1>1, <2>1 DEF Buckets
    <3>2. l \in A[v]
      BY <3>1, WaitingBelow
    <3>3. QED
      BY <1>2, <3>1, <3>2
  <2>2. CASE v = l /\ z[l] = P[l]
    BY <1>1, <1>2, <2>2, WayBounds
  <2>3. QED
    BY <2>1, <2>2
<1>5. \A v \in l .. n : z[v] = P[l] /\ (v # l => ~Decided(P, A, s, l, v)) => v \in T
  <2> TAKE v \in l .. n
  <2>1. SUFFICES ASSUME z[v] = P[l], v # l => ~Decided(P, A, s, l, v) PROVE v \in T
    OBVIOUS
  <2>2. CASE v = l
    BY <2>1, <2>2
  <2>3. CASE v \in l + 1 .. n
    <3>1. v \in K[P[l]]
      BY <1>1, <1>2, <2>1, <2>3 DEF Buckets
    <3>2. QED
      BY <3>1
  <2>4. QED
    BY <1>2, <2>2, <2>3
<1>6. \A v \in l .. n : v \in T => Decided(P, A, z, l - 1, v)
  BY <1>2, <1>3, <1>4
(* the bucket of its parent *)
<1>7. ASSUME NEW v \in T PROVE Answered(A, z, I2, M2, v)
  <2>1. v \in l .. n /\ v \in 1 .. n /\ z[v] = P[l] /\ l \in A[v] /\ (v # l => ~Decided(P, A, s, l, v))
    BY <1>2, <1>4
  <2>2. Nearest(A, z, l, v, low[v])
    OBVIOUS
  <2>3. l # 1
    BY <1>1
  <2>4. \A x \in A[v] : x > P[l] => x >= l
    BY <2>1, <2>3, AboveChild
  <2>5. low[v] > P[l]
    <3>1. low[v] \in 1 .. v /\ low[v] >= l
      BY <2>1, <2>2, WayBounds DEF Nearest
    <3>2. QED
      BY <1>1, <3>1
  <2>6. Lowest(A, z, v, low[v])
    BY <2>1, <2>2, <2>4, <2>5 DEF Lowest, Nearest
  <2>7. I[v] = 0 /\ M[v] = 0
    <3>1. CASE v = l
      BY <1>1, <3>1 DEF Buckets
    <3>2. CASE v # l
      <4>1. v \in l + 1 .. n /\ ~Decided(P, A, s, l, v)
        BY <1>2, <2>1, <3>2
      <4>2. QED
        BY <4>1 DEF Buckets
    <3>3. QED
      BY <3>1, <3>2
  <2>8. QED
    BY <2>1, <2>6, <2>7 DEF Answered
(* what was decided before *)
<1>8. ASSUME NEW v \in l + 1 .. n, Decided(P, A, s, l, v) PROVE Answered(A, z, I2, M2, v)
  <2>1. v \in 1 .. n /\ v # l /\ z[v] = s[v] /\ v \notin T
    BY <1>2, <1>4, <1>8
  <2>2. Answered(A, s, I, M, v)
    BY <1>8 DEF Buckets
  <2>3. PICK c \in A[v] : c > l /\ P[c] = s[v]
    BY <1>8 DEF Decided
  <2>4. c # 1
    BY <1>1, <2>3
  <2>5. \A x \in A[v] : x > s[v] => x >= c
    BY <2>1, <2>3, <2>4, AboveChild
  <2>6. \A x \in A[v] : x \in 1 .. n
    <3>1. \A x \in A[v] : x \in 1 .. v
      BY <2>1, WayBounds
    <3>2. QED
      BY <1>1, <2>1, <3>1
  <2>7. \A x \in A[v] : x > s[v] => x # l /\ x \in 1 .. n
    <3> TAKE x \in A[v]
    <3>1. SUFFICES ASSUME x > s[v] PROVE x # l
      BY <2>6
    <3>2. x >= c /\ x \in 1 .. n /\ c \in 1 .. n
      BY <2>3, <2>5, <2>6, <3>1
    <3>3. QED
      BY <1>1, <2>3, <3>2
  <2>8. \A x \in A[v] : x > s[v] => z[x] = s[x]
    BY <2>7
  <2>9. I2[v] = I[v] /\ M2[v] = M[v]
    BY <2>1
  <2>10. QED
    BY <2>1, <2>2, <2>8, <2>9 DEF Answered, Lowest
<1>9. ASSUME NEW v \in l .. n
      PROVE  IF Decided(P, A, z, l - 1, v) THEN Answered(A, z, I2, M2, v) ELSE I2[v] = 0 /\ M2[v] = 0
  <2>1. CASE v \in T
    BY <1>6, <1>7, <2>1
  <2>2. CASE v \notin T /\ v = l
    <3>1. ~Decided(P, A, z, l - 1, v)
      BY <1>3, <1>5, <1>9, <2>2
    <3>2. I[v] = 0 /\ M[v] = 0
      BY <1>1, <2>2 DEF Buckets
    <3>3. QED
      BY <1>2, <2>2, <3>1, <3>2
  <2>3. CASE v \notin T /\ v # l
    <3>1. v \in l + 1 .. n
      BY <1>2, <2>3
    <3>2. CASE Decided(P, A, s, l, v)
      <4>1. Decided(P, A, z, l - 1, v)
        BY <1>3, <3>1, <3>2
      <4>2. QED
        BY <1>8, <3>1, <3>2, <4>1
    <3>3. CASE ~Decided(P, A, s, l, v)
      <4>1. ~Decided(P, A, z, l - 1, v)
        BY <1>3, <1>5, <2>3, <3>1, <3>3
      <4>2. I[v] = 0 /\ M[v] = 0
        BY <3>1, <3>3 DEF Buckets
      <4>3. QED
        BY <1>2, <2>3, <4>1, <4>2
    <3>4. QED
      BY <3>2, <3>3
  <2>4. QED
    BY <2>1, <2>2, <2>3
<1>10. ASSUME NEW v \in 1 .. l - 1 PROVE I2[v] = 0 /\ M2[v] = 0
  <2>1. v \in 1 .. l /\ v \notin l .. n /\ v \in 1 .. n
    BY <1>1
  <2>2. v \notin T /\ I[v] = 0 /\ M[v] = 0
    BY <1>4, <2>1 DEF Buckets
  <2>3. QED
    BY <2>1, <2>2
<1>11. ASSUME NEW d \in 1 .. n
       PROVE  K2[d] = {v \in (l - 1) + 1 .. n : z[v] = d /\ ~Decided(P, A, z, l - 1, v)}
  <2>1. K[d] = {v \in l + 1 .. n : s[v] = d /\ ~Decided(P, A, s, l, v)}
    BY DEF Buckets
  <2>2. CASE d = P[l]
    <3>1. \A v \in l .. n : z[v] = d => Decided(P, A, z, l - 1, v)
      <4> TAKE v \in l .. n
      <4>1. CASE v = l
        BY <1>3, <2>2, <4>1
      <4>2. CASE v \in l + 1 .. n
        BY <1>3, <2>2, <4>2
      <4>3. QED
        BY <1>2, <4>1, <4>2
    <3>2. QED
      BY <1>2, <2>2, <3>1
  <2>3. CASE d # P[l]
    <3>1. \A v \in l + 1 .. n : z[v] = d => (Decided(P, A, z, l - 1, v) <=> Decided(P, A, s, l, v))
      BY <1>3, <2>3
    <3>2. z[l] = d => ~Decided(P, A, z, l - 1, l)
      BY <1>3, <2>3
    <3>3. CASE d = z[l]
      <4>1. K2[d] = K[d] \cup {l}
        BY <2>3, <3>3
      <4>2. \A v : v \in K2[d] <=> v \in l .. n /\ z[v] = d /\ ~Decided(P, A, z, l - 1, v)
        BY <1>2, <2>1, <3>1, <3>2, <3>3, <4>1
      <4>3. QED
        BY <1>2, <4>2
    <3>4. CASE d # z[l]
      <4>1. K2[d] = K[d]
        BY <2>3, <3>4
      <4>2. \A v : v \in K2[d] <=> v \in l .. n /\ z[v] = d /\ ~Decided(P, A, z, l - 1, v)
        BY <1>2, <2>1, <3>1, <3>4, <4>1
      <4>3. QED
        BY <1>2, <4>2
    <3>5. QED
      BY <3>3, <3>4
  <2>4. QED
    BY <2>2, <2>3
<1>12. QED
  BY <1>2, <1>9, <1>10, <1>11 DEF Buckets

(* In the end everything is decided. *)
LEMMA AllDecided ==
  ASSUME NEW n, NEW G, NEW P, NEW A, DfsTree(n, G, P, A),
         NEW s, Semis(n, G, P, A, s, 2), NEW I, NEW M, NEW K, Buckets(n, P, A, s, 1, I, M, K)
  PROVE  \A v \in 2 .. n : Answered(A, s, I, M, v)
<1> TAKE v \in 2 .. n
<1>1. n \in Nat /\ v \in 1 .. n /\ v \in 1 + 1 .. n
  BY ParentBelow
<1>2. s[v] \in A[v] /\ s[v] \in 1 .. v - 1 /\ s[v] # v
  BY <1>1 DEF Semis
<1>3. PICK c \in A[v] : P[c] = s[v] /\ c \in 2 .. n
  BY <1>1, <1>2, ChildOn
<1>4. Decided(P, A, s, 1, v)
  BY <1>3 DEF Decided
<1>5. QED
  BY <1>1, <1>4 DEF Buckets

-----------------------------------------------------------------------------
(* The tree of the blocks, once cfg_dfs has been there.                    *)
Tree(A) ==
  /\ JumpsRight /\ Numbered(arr) /\ Size \in 1 .. NBlocks /\ ToSet(arr) = Reachable
  /\ DfsTree(Size, NumEdges(arr), NumParent(arr, dfparent), A)
  /\ dfnum \in [Block -> Nat] /\ dfparent \in [Block -> Nat]
  /\ \A b \in Block : IF b \in Reachable THEN dfnum[b] \in 1 .. Size /\ arr[dfnum[b]] = b
                      ELSE dfnum[b] = 0
  /\ \A i \in 1 .. Size : dfnum[arr[i]] = i

LEMMA TreeIs ==
  ASSUME NEW A, Tree(A)
  PROVE  /\ Size \in Nat /\ NBlocks \in Nat /\ Size <= NBlocks /\ 1 \in 1 .. Size /\ arr[1] = 1
         /\ \A i \in 1 .. Size : arr[i] \in Block /\ arr[i] \in Reachable /\ dfnum[arr[i]] = i
         /\ \A i, j \in 1 .. Size : arr[i] = arr[j] => i = j
         /\ \A b \in Reachable : b \in Block /\ dfnum[b] \in 1 .. Size /\ arr[dfnum[b]] = b
         /\ \A b \in Block : b \notin Reachable => dfnum[b] = 0
         /\ \A i \in 1 .. Size : NumParent(arr, dfparent)[i] = dfparent[arr[i]]
         /\ DOMAIN arr = 1 .. Size
<1>1. Size \in Nat /\ NBlocks \in Nat /\ Size <= NBlocks /\ 1 \in 1 .. Size
  BY BlockIs DEF Tree
<1>2. /\ \A i \in 1 .. Size : arr[i] \in Block /\ arr[i] \in Reachable /\ dfnum[arr[i]] = i
      /\ \A i, j \in 1 .. Size : arr[i] = arr[j] => i = j
      /\ DOMAIN arr = 1 .. Size /\ arr[1] = 1
  <2>1. DOMAIN arr = 1 .. Size /\ arr[1] = 1
    BY <1>1 DEF Tree, Numbered, Size
  <2>2. \A i, j \in 1 .. Size : arr[i] = arr[j] => i = j
    BY DEF Tree, Numbered, Size
  <2>3. \A i \in 1 .. Size : arr[i] \in Reachable
    BY <2>1 DEF Tree, ToSet
  <2>4. QED
    BY <2>1, <2>2, <2>3, ReachableIs DEF Tree
<1>3. \A b \in Reachable : b \in Block /\ dfnum[b] \in 1 .. Size /\ arr[dfnum[b]] = b
  BY ReachableIs DEF Tree
<1>4. \A i \in 1 .. Size : NumParent(arr, dfparent)[i] = dfparent[arr[i]]
  BY DEF NumParent, Size
<1>5. \A b \in Block : b \notin Reachable => dfnum[b] = 0
  BY DEF Tree
<1>6. QED
  BY <1>1, <1>2, <1>3, <1>4, <1>5

-----------------------------------------------------------------------------
(* ancestorwithlowestsemi, when the numbers from l on are linked to their  *)
(* parents.                                                                *)
LinkedFrom(l, anc) ==
  /\ \A b \in Block : anc[b] \in 0 .. Size
  /\ \A v \in 1 .. Size : anc[arr[v]] = IF v >= l THEN dfparent[arr[v]] ELSE 0

(* One round of its loop. *)
Climb(g, sm, anc) ==
  LET v == g[2]
  IN IF anc[v] = 0 THEN g ELSE <<IF sm[v] < sm[g[1]] THEN v ELSE g[1], arr[anc[v]]>>

Climbs(f, b, sm, anc) ==
  /\ ancestorwithlowestsemi(b, sm, anc) = f[NBlocks][1] /\ f[0] = <<b, b>>
  /\ \A k \in 1 .. NBlocks : f[k] = Climb(f[k - 1], sm, anc)

LEMMA ClimbSolves ==
  ASSUME NEW A, Tree(A), NEW l, NEW sm, NEW anc, LinkedFrom(l, anc), NEW b \in Block
  PROVE  \E f : Climbs(f, b, sm, anc)
<1> DEFINE N == NBlocks
           T == Block \X Block
           G == [q \in (1 .. N) \X T |-> Climb(q[2], sm, anc)]
           F(g) == [k \in Order |-> IF k = 0 THEN <<b, b>> ELSE Climb(g[k - 1], sm, anc)]
           f == CHOOSE g : g = F(g)
<1>1. N \in Nat /\ Order = 0 .. N
  BY BlockIs DEF Order
<1>2. <<b, b>> \in T
  OBVIOUS
<1>3. \A g \in T : Climb(g, sm, anc) \in T
  <2> TAKE g \in T
  <2>1. g[1] \in Block /\ g[2] \in Block
    OBVIOUS
  <2>2. anc[g[2]] = 0 \/ anc[g[2]] \in 1 .. Size
    <3>1. anc[g[2]] \in 0 .. Size
      BY <2>1 DEF LinkedFrom
    <3>2. \A i \in 0 .. Size : i = 0 \/ i \in 1 .. Size
      BY TreeIs
    <3>3. QED
      BY <3>1, <3>2
  <2>3. anc[g[2]] # 0 => arr[anc[g[2]]] \in Block
    BY <2>2, TreeIs
  <2>4. QED
    BY <2>1, <2>3 DEF Climb
<1>4. G \in [(1 .. N) \X T -> T]
  BY <1>3
<1>5. \A k \in 1 .. N, x \in T : G[<<k, x>>] = Climb(x, sm, anc)
  <2> HIDE DEF T, N
  <2>1. QED
    OBVIOUS
<1>6. ancestorwithlowestsemi(b, sm, anc) = f[N][1]
  BY DEF ancestorwithlowestsemi, Climb
<1> HIDE DEF G, N, T
<1>7. PICK g : Solves(g, T, <<b, b>>, G, N)
  BY <1>1, <1>2, <1>4, FunctionExists
<1>8. \A k \in 0 .. N : k = 0 \/ k \in 1 .. N
  BY <1>1
<1>9. g = F(g)
  <2>1. \A k \in 1 .. N : g[k - 1] \in T /\ g[k] = G[<<k, g[k - 1]>>]
    BY <1>7 DEF Solves
  <2>2. \A k \in 1 .. N : g[k] = Climb(g[k - 1], sm, anc)
    BY <1>5, <2>1
  <2>3. g[0] = <<b, b>> /\ g = [k \in Order |-> g[k]]
    BY <1>1, <1>7 DEF Solves
  <2>4. \A k \in Order : g[k] = IF k = 0 THEN <<b, b>> ELSE Climb(g[k - 1], sm, anc)
    BY <1>1, <1>8, <2>2, <2>3
  <2>5. QED
    BY <2>3, <2>4
<1>10. f = F(f)
  <2> HIDE DEF F
  <2>1. QED
    BY <1>9
<1> HIDE DEF f
<1>11. 0 \in Order /\ \A k \in 1 .. N : k \in Order /\ k # 0
  BY <1>1
<1>12. f[0] = <<b, b>> /\ \A k \in 1 .. N : f[k] = Climb(f[k - 1], sm, anc)
  BY <1>10, <1>11
<1>13. QED
  <2>1. Climbs(f, b, sm, anc)
    BY <1>6, <1>12 DEF N, Climbs
  <2>2. QED
    BY <2>1

(* Where the loop is after some rounds: g[1] is the best number so far,    *)
(* g[2] the next to look at.                                               *)
At(A, z, l, x, u, w, k, g) ==
  /\ g = <<arr[u], arr[w]>> /\ u \in A[x] /\ u >= l /\ w \in A[x] /\ w <= x
  /\ w < l \/ w <= x - k
  /\ \A y \in A[x] : y >= l /\ y > w => z[u] <= z[y]

LEMMA ClimbStep ==
  ASSUME NEW A, Tree(A), NEW l \in 2 .. Size + 1, NEW sm, NEW anc, LinkedFrom(l, anc),
         NEW z, \A v \in 1 .. Size : z[v] = sm[arr[v]] /\ z[v] \in Nat,
         NEW x \in 1 .. Size, NEW u, NEW w, NEW k \in Nat, NEW g, At(A, z, l, x, u, w, k, g)
  PROVE  \E u1, w1 : At(A, z, l, x, u1, w1, k + 1, Climb(g, sm, anc))
<1>1. PICK n : n = Size
  OBVIOUS
<1>2. PICK G : G = NumEdges(arr)
  OBVIOUS
<1>3. PICK P : P = NumParent(arr, dfparent)
  OBVIOUS
<1>4. DfsTree(n, G, P, A) /\ x \in 1 .. n
  BY <1>1, <1>2, <1>3 DEF Tree
<1>5. /\ g = <<arr[u], arr[w]>> /\ u \in A[x] /\ u >= l /\ w \in A[x] /\ w <= x
      /\ w < l \/ w <= x - k
      /\ \A y \in A[x] : y >= l /\ y > w => z[u] <= z[y]
  BY DEF At
<1>6. n \in Nat /\ u \in 1 .. x /\ w \in 1 .. x /\ \A y \in A[x] : y \in 1 .. x
  BY <1>4, <1>5, WayBounds, ParentBelow
<1>7. \A y \in A[x] : y \in 1 .. n
  BY <1>4, <1>6
<1>8. g[1] = arr[u] /\ g[2] = arr[w] /\ u \in 1 .. n /\ w \in 1 .. n
  BY <1>5, <1>7
<1>9. CASE w < l
  <2>1. anc[arr[w]] = 0
    <3>1. ~(w >= l)
      BY <1>6, <1>9
    <3>2. QED
      BY <1>1, <1>8, <3>1 DEF LinkedFrom
  <2>2. Climb(g, sm, anc) = g
    BY <1>8, <2>1 DEF Climb
  <2>3. At(A, z, l, x, u, w, k + 1, g)
    BY <1>5, <1>9 DEF At
  <2>4. QED
    BY <2>2, <2>3
<1>10. CASE w >= l
  <2>1. w # 1 /\ w \in 2 .. n
    BY <1>6, <1>8, <1>10
  <2>2. P[w] \in 1 .. w - 1 /\ P[w] \in A[x] /\ \A y \in A[x] : y > P[w] => y >= w
    BY <1>4, <1>5, <2>1, AboveChild
  <2>3. anc[arr[w]] = P[w] /\ anc[arr[w]] # 0
    <3>1. anc[arr[w]] = dfparent[arr[w]]
      BY <1>1, <1>8, <1>10 DEF LinkedFrom
    <3>2. P[w] = dfparent[arr[w]]
      BY <1>1, <1>3, <1>8, TreeIs
    <3>3. P[w] # 0
      BY <2>2
    <3>4. QED
      BY <3>1, <3>2, <3>3
  <2>4. PICK c : c = Climb(g, sm, anc)
    OBVIOUS
  <2>5. c = <<IF sm[arr[w]] < sm[arr[u]] THEN arr[w] ELSE arr[u], arr[P[w]]>>
    BY <1>8, <2>3, <2>4 DEF Climb
  <2>6. sm[arr[w]] = z[w] /\ sm[arr[u]] = z[u] /\ z[w] \in Nat /\ z[u] \in Nat
    BY <1>1, <1>8
  <2>7. P[w] <= x /\ (P[w] < l \/ P[w] <= x - (k + 1))
    BY <1>5, <1>6, <2>2
  <2>8. \A y \in A[x] : y > P[w] => y = w \/ y > w
    BY <1>6, <2>2
  <2>9. \A y \in 1 .. n : z[y] \in Nat
    BY <1>1
  <2>10. CASE z[w] < z[u]
    <3>1. c = <<arr[w], arr[P[w]]>>
      BY <2>5, <2>6, <2>10
    <3>2. \A y \in A[x] : y >= l /\ y > P[w] => z[w] <= z[y]
      BY <1>5, <1>7, <2>6, <2>8, <2>9, <2>10
    <3>3. At(A, z, l, x, w, P[w], k + 1, c)
      BY <1>5, <1>10, <2>2, <2>7, <3>1, <3>2 DEF At
    <3>4. QED
      BY <2>4, <3>3
  <2>11. CASE ~(z[w] < z[u])
    <3>1. c = <<arr[u], arr[P[w]]>>
      BY <2>5, <2>6, <2>11
    <3>2. \A y \in A[x] : y >= l /\ y > P[w] => z[u] <= z[y]
      BY <1>5, <1>7, <2>6, <2>8, <2>9, <2>11
    <3>3. At(A, z, l, x, u, P[w], k + 1, c)
      BY <1>5, <2>2, <2>7, <3>1, <3>2 DEF At
    <3>4. QED
      BY <2>4, <3>3
  <2>12. QED
    BY <2>10, <2>11
<1>11. QED
  BY <1>6, <1>9, <1>10

LEMMA AncestorIs ==
  ASSUME NEW A, Tree(A), NEW l \in 2 .. Size + 1, NEW sm, NEW anc, LinkedFrom(l, anc),
         NEW z, \A v \in 1 .. Size : z[v] = sm[arr[v]] /\ z[v] \in Nat,
         NEW x \in l .. Size
  PROVE  \E u : Nearest(A, z, l, x, u) /\ ancestorwithlowestsemi(arr[x], sm, anc) = arr[u]
<1>1. Size \in Nat /\ NBlocks \in Nat /\ Size <= NBlocks /\ x \in 1 .. Size
  BY TreeIs
<1>2. arr[x] \in Block /\ x \in A[x] /\ \A y \in A[x] : y \in 1 .. x
  <2>1. PICK G : G = NumEdges(arr)
    OBVIOUS
  <2>2. PICK P : P = NumParent(arr, dfparent)
    OBVIOUS
  <2>3. DfsTree(Size, G, P, A)
    BY <2>1, <2>2 DEF Tree
  <2>4. QED
    BY <1>1, <2>3, TreeIs, WayBounds
<1>12. PICK b : b = arr[x]
  OBVIOUS
<1>13. PICK f : Climbs(f, b, sm, anc)
  BY <1>2, <1>12, ClimbSolves
<1>3. /\ ancestorwithlowestsemi(arr[x], sm, anc) = f[NBlocks][1] /\ f[0] = <<arr[x], arr[x]>>
      /\ \A k \in 1 .. NBlocks : f[k] = Climb(f[k - 1], sm, anc)
  BY <1>12, <1>13 DEF Climbs
<1> DEFINE S == {k \in Nat : k <= NBlocks => \E u, w : At(A, z, l, x, u, w, k, f[k])}
<1>4. 0 \in S
  <2>1. At(A, z, l, x, x, x, 0, f[0])
    BY <1>1, <1>2, <1>3 DEF At
  <2>2. QED
    BY <2>1
<1>5. ASSUME NEW k \in Nat, k \in S PROVE k + 1 \in S
  <2>1. SUFFICES ASSUME k + 1 <= NBlocks PROVE \E u, w : At(A, z, l, x, u, w, k + 1, f[k + 1])
    OBVIOUS
  <2>2. k <= NBlocks /\ k + 1 \in 1 .. NBlocks /\ (k + 1) - 1 = k
    BY <1>1, <2>1
  <2>3. PICK u, w : At(A, z, l, x, u, w, k, f[k])
    BY <1>5, <2>2
  <2>4. f[k + 1] = Climb(f[k], sm, anc)
    BY <1>3, <2>2
  <2>5. QED
    BY <1>1, <2>3, <2>4, ClimbStep
<1> HIDE DEF S
<1>6. NBlocks \in S
  BY <1>1, <1>4, <1>5, SetInduction
<1>7. PICK u, w : At(A, z, l, x, u, w, NBlocks, f[NBlocks])
  BY <1>1, <1>6 DEF S
<1>8. w < l
  BY <1>1, <1>2, <1>7 DEF At
<1>9. \A y \in A[x] : y >= l => y > w
  BY <1>2, <1>7, <1>8 DEF At
<1>10. Nearest(A, z, l, x, u) /\ f[NBlocks][1] = arr[u]
  BY <1>7, <1>9 DEF At, Nearest
<1>11. QED
  BY <1>3, <1>10

Labels(z, sm) == \A v \in 1 .. Size : z[v] = sm[arr[v]] /\ z[v] \in Nat

Answers(A, z, l, sm, anc) ==
  \A x \in l .. Size : \E u : /\ Nearest(A, z, l, x, u)
                             /\ ancestorwithlowestsemi(arr[x], sm, anc) = arr[u]

LEMMA AncestorsAre ==
  ASSUME NEW A, Tree(A), NEW l \in 2 .. Size + 1, NEW sm, NEW anc, LinkedFrom(l, anc),
         NEW z, Labels(z, sm)
  PROVE  Answers(A, z, l, sm, anc)
<1>1. \A v \in 1 .. Size : z[v] = sm[arr[v]] /\ z[v] \in Nat
  BY DEF Labels
<1>2. QED
  BY <1>1, AncestorIs DEF Answers

LEMMA LeastIs ==
  ASSUME NEW S, S \subseteq Nat, S # {}
  PROVE  Least(S) \in S /\ \A m \in S : Least(S) <= m
<1>1. \E n \in S : \A m \in S : n <= m
  BY LeastNat
<1>2. QED
  BY <1>1 DEF Least

(* SemiOf finds the semi-dominator. *)
LEMMA SemiOfIs ==
  ASSUME NEW A, Tree(A), NEW l \in 2 .. Size, LinkedFrom(l + 1, ancestor), semi \in [Block -> Nat],
         NEW n, n = Size, NEW G, G = NumEdges(arr), NEW P, P = NumParent(arr, dfparent),
         NEW z, z = [v \in 1 .. n |-> semi[arr[v]]],
         NEW t, t = SemiOf(arr[l])
  PROVE  SemiBound(n, G, P, A, z, l, t) /\ SemiFrom(n, G, P, A, z, l, t) /\ t \in Nat
<1>1. DfsTree(n, G, P, A) /\ n \in Nat /\ l \in 1 .. n /\ l \in 2 .. n /\ l + 1 \in 2 .. Size + 1
  <2>1. DfsTree(n, G, P, A)
    BY DEF Tree
  <2>2. n \in Nat /\ l \in 1 .. n /\ l \in 2 .. n /\ l + 1 \in 2 .. Size + 1
    BY TreeIs
  <2>3. QED
    BY <2>1, <2>2
<1>2. PICK b : b = arr[l]
  OBVIOUS
<1>3. b \in Block /\ dfnum[b] = l /\ P[l] = dfparent[b] /\ P[l] \in Nat
  <2>1. b \in Block /\ dfnum[b] = l /\ P[l] = dfparent[b]
    BY <1>1, <1>2, TreeIs
  <2>2. P[l] \in Nat
    BY <2>1 DEF Tree
  <2>3. QED
    BY <2>1, <2>2
<1>4. \A v \in 1 .. Size : z[v] = semi[arr[v]] /\ z[v] \in Nat
  BY TreeIs
<1> DEFINE Val(c) == IF dfnum[c] <= dfnum[b] THEN dfnum[c]
                     ELSE semi[ancestorwithlowestsemi(c, semi, ancestor)]
           In == {x \in ToSet(parents(b)) : dfnum[x] # 0}
           C == {dfparent[b]} \cup {Val(c) : c \in In}
<1>5. t = Least(C)
  BY <1>2 DEF SemiOf
<1>6. \A c : c \in In <=> c \in Reachable /\ Edge(c, b)
  <2> TAKE c
  <2>1. c \in In <=> c \in Block /\ Edge(c, b) /\ dfnum[c] # 0
    BY <1>3, ParentsAre DEF Tree
  <2>2. c \in Reachable => c \in Block /\ dfnum[c] # 0
    BY TreeIs
  <2>3. c \in Block /\ c \notin Reachable => dfnum[c] = 0
    BY TreeIs
  <2>4. QED
    BY <2>1, <2>2, <2>3
<1>7. ASSUME NEW v \in 1 .. n
      PROVE  \/ v <= l /\ Val(arr[v]) = v
             \/ v > l /\ \E u : Nearest(A, z, l + 1, v, u) /\ Val(arr[v]) = z[u] /\ u \in 1 .. n
  <2>1. dfnum[arr[v]] = v /\ v \in Nat /\ v \in 1 .. Size
    BY TreeIs
  <2>2. CASE v <= l
    BY <1>3, <2>1, <2>2
  <2>3. CASE v > l
    <3>1. v \in l + 1 .. Size
      BY <1>1, <2>3
    <3>2. PICK a : a = ancestor
      OBVIOUS
    <3>3. PICK sm : sm = semi
      OBVIOUS
    <3>4. LinkedFrom(l + 1, a) /\ \A x \in 1 .. Size : z[x] = sm[arr[x]] /\ z[x] \in Nat
      BY <1>4, <3>2, <3>3
    <3>5. PICK u : Nearest(A, z, l + 1, v, u) /\ ancestorwithlowestsemi(arr[v], sm, a) = arr[u]
      <4>1. PICK m : m = l + 1
        OBVIOUS
      <4>2. m \in 2 .. Size + 1 /\ v \in m .. Size /\ LinkedFrom(m, a)
        BY <1>1, <3>1, <3>4, <4>1
      <4>3. Labels(z, sm)
        BY <3>4 DEF Labels
      <4>4. Answers(A, z, m, sm, a)
        BY <4>2, <4>3, AncestorsAre
      <4>5. QED
        BY <4>1, <4>2, <4>4 DEF Answers
    <3>6. u \in 1 .. n
      <4>1. u \in A[v]
        BY <3>5 DEF Nearest
      <4>2. u \in 1 .. v
        BY <1>1, <4>1, WayBounds
      <4>3. QED
        BY <1>1, <4>2
    <3>7. Val(arr[v]) = z[u]
      <4>1. ~(dfnum[arr[v]] <= dfnum[b])
        BY <1>1, <1>3, <2>1, <2>3
      <4>2. QED
        BY <1>4, <3>2, <3>3, <3>5, <3>6, <4>1
    <3>8. QED
      BY <2>3, <3>5, <3>6, <3>7
  <2>4. QED
    BY <1>1, <2>2, <2>3
<1> HIDE DEF Val, In
<1>8. \A c \in In : \E v \in 1 .. n : c = arr[v] /\ <<v, l>> \in G
  <2> TAKE c \in In
  <2>1. c \in Reachable /\ Edge(c, b)
    BY <1>6
  <2>2. dfnum[c] \in 1 .. n /\ arr[dfnum[c]] = c
    BY <2>1, TreeIs
  <2>3. <<dfnum[c], l>> \in G
    <3>1. Len(arr) \in Nat /\ Len(arr) = n
      BY <1>1 DEF Size
    <3>2. QED
      BY <1>1, <1>2, <2>1, <2>2, <3>1, NumEdgesAre
  <2>4. QED
    BY <2>2, <2>3
<1>9. \A v \in 1 .. n : <<v, l>> \in G => arr[v] \in In
  <2> TAKE v \in 1 .. n
  <2>1. SUFFICES ASSUME <<v, l>> \in G PROVE arr[v] \in In
    OBVIOUS
  <2>2. Edge(arr[v], arr[l])
    <3>1. Len(arr) \in Nat
      BY <1>1 DEF Size
    <3>2. QED
      BY <2>1, <3>1, NumEdgesAre
  <2>3. QED
    BY <1>2, <1>6, <2>2, TreeIs
<1>10. \A v \in 1 .. n : Val(arr[v]) \in Nat
  <2> TAKE v \in 1 .. n
  <2>1. v \in Nat
    OBVIOUS
  <2>2. QED
    BY <1>4, <1>7, <2>1
<1>11. C \subseteq Nat /\ C # {}
  <2>1. \A c \in In : Val(c) \in Nat
    BY <1>8, <1>10
  <2>2. QED
    BY <1>3, <2>1
<1>12. t \in C /\ \A m \in C : t <= m
  <2> HIDE DEF C
  <2>1. QED
    BY <1>5, <1>11, LeastIs
<1>13. t \in Nat
  BY <1>11, <1>12
<1>14. SemiBound(n, G, P, A, z, l, t)
  <2>1. t <= P[l]
    BY <1>3, <1>12
  <2>2. ASSUME NEW v \in 1 .. n, <<v, l>> \in G
        PROVE  /\ v <= l => t <= v
               /\ v > l => \A x \in A[v] : x > l => t <= z[x]
    <3>1. t <= Val(arr[v])
      BY <1>9, <1>12, <2>2
    <3>2. v <= l => t <= v
      <4>1. ~(v <= l /\ v > l)
        BY <1>1
      <4>2. QED
        BY <1>7, <3>1, <4>1
    <3>3. ASSUME v > l, NEW x \in A[v], x > l PROVE t <= z[x]
      <4>1. ~(v <= l)
        BY <1>1, <3>3
      <4>2. PICK u : Nearest(A, z, l + 1, v, u) /\ Val(arr[v]) = z[u] /\ u \in 1 .. n
        BY <1>7, <4>1
      <4>3. x \in 1 .. v
        BY <1>1, WayBounds
      <4>4. x >= l + 1 /\ x \in 1 .. n
        BY <1>1, <3>3, <4>3
      <4>5. z[u] <= z[x]
        BY <4>2, <4>4 DEF Nearest
      <4>6. z[u] \in Nat /\ z[x] \in Nat
        BY <1>4, <4>2, <4>4
      <4>7. QED
        BY <1>13, <3>1, <4>2, <4>5, <4>6
    <3>4. QED
      BY <3>2, <3>3
  <2>3. QED
    BY <2>1, <2>2 DEF SemiBound
<1>15. SemiFrom(n, G, P, A, z, l, t)
  <2>1. CASE t = dfparent[b]
    BY <1>3, <2>1 DEF SemiFrom
  <2>2. CASE t # dfparent[b]
    <3>1. PICK c \in In : t = Val(c)
      BY <1>12, <2>2
    <3>2. PICK v \in 1 .. n : c = arr[v] /\ <<v, l>> \in G
      BY <1>8
    <3>3. CASE v <= l /\ t = v
      BY <3>2, <3>3 DEF SemiFrom
    <3>4. CASE \E u : Nearest(A, z, l + 1, v, u) /\ t = z[u]
      <4>1. PICK u : Nearest(A, z, l + 1, v, u) /\ t = z[u]
        BY <3>4
      <4>2. u \in A[v] /\ u >= l + 1
        BY <4>1 DEF Nearest
      <4>3. u \in 1 .. v
        BY <1>1, <4>2, WayBounds
      <4>4. u > l
        BY <1>1, <4>2, <4>3
      <4>5. QED
        BY <3>2, <4>1, <4>2, <4>4 DEF SemiFrom
    <3>5. QED
      BY <1>7, <3>1, <3>2, <3>3, <3>4
  <2>3. QED
    BY <2>1, <2>2
<1>16. QED
  BY <1>13, <1>14, <1>15

LEMMA EdgeLater ==
  ASSUME jump' = jump, ip_labels' = ip_labels
  PROVE  \A a, b : Edge(a, b)' <=> Edge(a, b)
BY DEF Edge, child, kind

LEMMA AroundLater ==
  ASSUME jump' = jump, ip_labels' = ip_labels
  PROVE  \A a : Around(a)' = Around(a)
BY DEF Around, Edge, child, kind

LEMMA ReachableLater ==
  ASSUME jump' = jump, ip_labels' = ip_labels
  PROVE  Reachable' = Reachable
BY AroundLater DEF Reachable

LEMMA NumEdgesLater ==
  ASSUME jump' = jump, ip_labels' = ip_labels
  PROVE  \A a : NumEdges(a)' = NumEdges(a)
BY EdgeLater DEF NumEdges

-----------------------------------------------------------------------------
(* While the semi-dominators are found. *)
ByNumber(m) == [i \in 1 .. Size |-> m[arr[i]]]

Arrays ==
  /\ semi \in [Block -> Nat] /\ ancestor \in [Block -> Nat] /\ idom \in [Block -> Nat]
  /\ samedom \in [Block -> Nat] /\ bucket \in [Block -> SUBSET Nat]
  /\ df = [b \in Block |-> {}]

Parent == NumParent(arr, dfparent)

SemiInv(A) ==
  /\ Tree(A) /\ Arrays /\ h \in 1 .. Size
  /\ LinkedFrom(h + 1, ancestor)
  /\ Semis(Size, NumEdges(arr), Parent, A, ByNumber(semi), h + 1)
  /\ Buckets(Size, Parent, A, ByNumber(semi), h, ByNumber(idom), ByNumber(samedom),
             ByNumber(bucket))

Fresh ==
  /\ JumpsRight
  /\ semi = [b \in Block |-> 0] /\ ancestor = semi /\ idom = semi /\ samedom = semi
  /\ bucket = [b \in Block |-> {}] /\ df = bucket

LEMMA DfsTreeFound ==
  ASSUME Fresh, cfg_dfs
  PROVE  \E A : Tree(A)'
<1>1. PICK A : Searched(dfs, A)
  BY DfsSearched DEF Fresh
<1>2. PICK d : d = dfs
  OBVIOUS
<1>3. /\ dfparent' = d.parent /\ arr' = d.arr /\ jump' = jump /\ ip_labels' = ip_labels
      /\ dfnum' = [b \in Block |-> IF b \in ToSet(d.arr)
                                  THEN CHOOSE n \in DOMAIN d.arr : d.arr[n] = b ELSE 0]
  BY <1>2 DEF cfg_dfs
<1>4. /\ d \in DfsState /\ Numbered(d.arr) /\ Len(d.arr) \in 1 .. NBlocks
      /\ ToSet(d.arr) = Reachable
      /\ DfsTree(Len(d.arr), NumEdges(d.arr), NumParent(d.arr, d.parent), A)
  BY <1>1, <1>2 DEF Searched
<1>5. Size' = Len(d.arr) /\ Reachable' = Reachable /\ NumEdges(arr)' = NumEdges(d.arr)
  BY <1>3, ReachableLater, NumEdgesLater DEF Size
<1>6. NumParent(arr, dfparent)' = NumParent(d.arr, d.parent)
  BY <1>3 DEF NumParent
<1>7. d.parent \in [Block -> Nat] /\ DOMAIN d.arr = 1 .. Len(d.arr)
  BY <1>4 DEF DfsState, Numbered
<1>8. \A b \in Reachable : dfnum'[b] \in 1 .. Len(d.arr) /\ d.arr[dfnum'[b]] = b /\ b \in Block
  <2> TAKE b \in Reachable
  <2>1. \E n \in DOMAIN d.arr : d.arr[n] = b
    BY <1>4, <1>7 DEF ToSet
  <2>2. b \in Block
    BY ReachableIs
  <2>3. dfnum'[b] = CHOOSE n \in DOMAIN d.arr : d.arr[n] = b
    BY <1>3, <1>4, <2>2
  <2>4. dfnum'[b] \in DOMAIN d.arr /\ d.arr[dfnum'[b]] = b
    BY <2>1, <2>3
  <2>5. QED
    BY <1>7, <2>2, <2>4
<1>9. \A b \in Block : b \notin Reachable => dfnum'[b] = 0
  BY <1>3, <1>4
<1>10. dfnum' \in [Block -> Nat]
  <2>1. \A b \in Block : dfnum'[b] \in Nat
    <3> TAKE b \in Block
    <3>1. 0 \in Nat /\ \A m \in 1 .. Len(d.arr) : m \in Nat
      OBVIOUS
    <3>2. QED
      BY <1>8, <1>9, <3>1
  <2>2. dfnum' = [b \in Block |-> dfnum'[b]]
    BY <1>3
  <2>3. QED
    BY <2>1, <2>2
<1>11. \A i \in 1 .. Len(d.arr) : dfnum'[d.arr[i]] = i
  <2> TAKE i \in 1 .. Len(d.arr)
  <2>1. d.arr[i] \in Reachable
    BY <1>4, <1>7 DEF ToSet
  <2>2. d.arr[dfnum'[d.arr[i]]] = d.arr[i] /\ dfnum'[d.arr[i]] \in 1 .. Len(d.arr)
    BY <1>8, <2>1
  <2>3. QED
    BY <1>4, <2>2 DEF Numbered
<1>12. Numbered(arr)'
  BY <1>3, <1>4, <1>5 DEF Numbered
<1>13. JumpsRight'
  BY <1>3 DEF Fresh, JumpsRight
<1>14. (Size \in 1 .. NBlocks)' /\ (ToSet(arr) = Reachable)'
  BY <1>3, <1>4, <1>5
<1>15. DfsTree(Size, NumEdges(arr), NumParent(arr, dfparent), A)'
  BY <1>4, <1>5, <1>6
<1>16. \A b \in Block : IF b \in Reachable' THEN dfnum'[b] \in 1 .. Size' /\ arr'[dfnum'[b]] = b
                        ELSE dfnum'[b] = 0
  BY <1>3, <1>5, <1>8, <1>9
<1>17. \A i \in 1 .. Size' : dfnum'[arr'[i]] = i
  BY <1>3, <1>5, <1>11
<1>18. dfparent' \in [Block -> Nat]
  BY <1>3, <1>7
<1>19. Tree(A)'
  BY <1>10, <1>12, <1>13, <1>14, <1>15, <1>16, <1>17, <1>18 DEF Tree
<1>20. QED
  BY <1>19

LEMMA DfsSemi ==
  ASSUME Fresh, cfg_dfs
  PROVE  \E A : SemiInv(A)'
<1>1. PICK A : Tree(A)'
  BY DfsTreeFound
<1>2. /\ h' = Size' /\ semi' = semi /\ ancestor' = ancestor /\ idom' = idom /\ samedom' = samedom
      /\ bucket' = bucket /\ df' = df
  BY DEF cfg_dfs, Size
<1>3. /\ semi' = [b \in Block |-> 0] /\ ancestor' = [b \in Block |-> 0] /\ idom' = [b \in Block |-> 0]
      /\ samedom' = [b \in Block |-> 0] /\ bucket' = [b \in Block |-> {}] /\ df' = [b \in Block |-> {}]
  BY <1>2 DEF Fresh
<1>4. Arrays'
  BY <1>3 DEF Arrays
<1>5. PICK a : a = arr'
  OBVIOUS
<1>6. PICK n : n = Size'
  OBVIOUS
<1>7. n \in 1 .. NBlocks /\ n \in Nat /\ h' = n /\ n = Len(a)
  <2>1. n \in 1 .. NBlocks
    BY <1>1, <1>6 DEF Tree
  <2>2. QED
    BY <1>2, <1>5, <1>6, <2>1 DEF Size
<1>8. \A i \in 1 .. n : a[i] \in Block
  <2>1. Numbered(arr)'
    BY <1>1 DEF Tree
  <2>2. a \in Seq(Block)
    BY <1>5, <2>1 DEF Numbered
  <2>3. QED
    BY <1>7, <2>2, ElementOfSeq
<1>9. \A i \in n + 1 .. n : FALSE
  BY <1>7
<1>10. h' \in 1 .. Size'
  BY <1>6, <1>7
<1>11. LinkedFrom(h + 1, ancestor)'
  <2>1. \A v \in 1 .. n : ~(v >= n + 1)
    BY <1>7
  <2>2. 0 \in 0 .. n
    BY <1>7
  <2>3. QED
    BY <1>3, <1>5, <1>6, <1>7, <1>8, <2>1, <2>2 DEF LinkedFrom
<1>12. Semis(Size, NumEdges(arr), Parent, A, ByNumber(semi), h + 1)'
  BY <1>6, <1>7, <1>9 DEF Semis
<1>13. Buckets(Size, Parent, A, ByNumber(semi), h, ByNumber(idom), ByNumber(samedom),
             ByNumber(bucket))'
  <2>1. \A v \in 1 .. n : ByNumber(idom)'[v] = 0 /\ ByNumber(samedom)'[v] = 0 /\ ByNumber(bucket)'[v] = {}
    BY <1>3, <1>5, <1>6, <1>8 DEF ByNumber
  <2>2. PICK I : I = ByNumber(idom)'
    OBVIOUS
  <2>3. PICK M : M = ByNumber(samedom)'
    OBVIOUS
  <2>4. PICK K : K = ByNumber(bucket)'
    OBVIOUS
  <2>5. \A P, s : Buckets(n, P, A, s, n, I, M, K)
    <3> TAKE P, s
    <3>1. \A d \in 1 .. n : K[d] = {v \in n + 1 .. n : s[v] = d /\ ~Decided(P, A, s, n, v)}
      BY <1>9, <2>1, <2>4
    <3>2. QED
      BY <1>9, <2>1, <2>2, <2>3, <3>1 DEF Buckets
  <2>6. QED
    BY <1>6, <1>7, <2>2, <2>3, <2>4, <2>5
<1>14. SemiInv(A)'
  BY <1>1, <1>4, <1>10, <1>11, <1>12, <1>13 DEF SemiInv
<1>15. QED
  BY <1>14

(* The tree stays when nothing of it changes. *)
LEMMA TreeLater ==
  ASSUME NEW A, Tree(A), jump' = jump, ip_labels' = ip_labels, arr' = arr, dfnum' = dfnum, dfparent' = dfparent
  PROVE  /\ Tree(A)' /\ Size' = Size /\ Parent' = Parent /\ NumEdges(arr)' = NumEdges(arr)
         /\ Reachable' = Reachable
<1>1. Reachable' = Reachable /\ Size' = Size /\ NumEdges(arr)' = NumEdges(arr)
  BY ReachableLater, NumEdgesLater DEF Size
<1>2. Parent' = Parent /\ NumParent(arr, dfparent)' = NumParent(arr, dfparent)
  BY DEF Parent, NumParent
<1>3. JumpsRight' /\ Numbered(arr)'
  BY <1>1 DEF Tree, JumpsRight, Numbered
<1>4. Tree(A)'
  BY <1>1, <1>2, <1>3 DEF Tree
<1>5. QED
  BY <1>1, <1>2, <1>4

(* What the action does, one block. *)
SemiDone(b, p, t, T, low, own) ==
  /\ b = arr[h] /\ p = dfparent[b] /\ t = SemiOf(b)
  /\ semi' = [semi EXCEPT ![b] = t]
  /\ ancestor' = [ancestor EXCEPT ![b] = p]
  /\ T = bucket[arr[p]] \cup IF arr[t] = arr[p] THEN {h} ELSE {}
  /\ low = [n \in T |-> ancestorwithlowestsemi(arr[n], semi', ancestor')]
  /\ own = {n \in T : semi'[low[n]] = semi'[arr[n]]}
  /\ idom' = [v \in Block |-> IF dfnum[v] \in own THEN p ELSE idom[v]]
  /\ samedom' = [v \in Block |-> IF dfnum[v] \in T \ own THEN dfnum[low[dfnum[v]]] ELSE samedom[v]]
  /\ bucket' = [[bucket EXCEPT ![arr[t]] = @ \cup {h}] EXCEPT ![arr[p]] = {}]

LEMMA SemiDoes ==
  ASSUME Semi
  PROVE  /\ h > 1 /\ h' = h - 1
         /\ jump' = jump /\ ip_labels' = ip_labels /\ arr' = arr /\ dfnum' = dfnum /\ dfparent' = dfparent /\ df' = df
         /\ dfchildren' = dfchildren /\ pc' = pc
         /\ \E b, p, t, T, low, own : SemiDone(b, p, t, T, low, own)
<1>1. /\ h > 1 /\ h' = h - 1
      /\ jump' = jump /\ ip_labels' = ip_labels /\ arr' = arr /\ dfnum' = dfnum /\ dfparent' = dfparent /\ df' = df
      /\ dfchildren' = dfchildren /\ pc' = pc
  BY DEF Semi
<1>2. PICK b \in {arr[h]}, p \in {dfparent[arr[h]]}, t \in {SemiOf(arr[h])} :
       /\ semi' = [semi EXCEPT ![b] = t]
       /\ ancestor' = [ancestor EXCEPT ![b] = p]
       /\ \E in1 \in {bucket[arr[p]] \cup IF arr[t] = arr[p] THEN {h} ELSE {}} :
          \E low \in {[n \in in1 |-> ancestorwithlowestsemi(arr[n], semi', ancestor')]} :
          \E own \in {{n \in in1 : semi'[low[n]] = semi'[arr[n]]}} :
            /\ idom' = [v \in Block |-> IF dfnum[v] \in own THEN p ELSE idom[v]]
            /\ samedom' = [v \in Block |-> IF dfnum[v] \in in1 \ own
                                           THEN dfnum[low[dfnum[v]]] ELSE samedom[v]]
       /\ bucket' = [[bucket EXCEPT ![arr[t]] = @ \cup {h}] EXCEPT ![arr[p]] = {}]
  BY DEF Semi
<1>3. PICK T \in {bucket[arr[p]] \cup IF arr[t] = arr[p] THEN {h} ELSE {}} :
          \E low \in {[n \in T |-> ancestorwithlowestsemi(arr[n], semi', ancestor')]} :
          \E own \in {{n \in T : semi'[low[n]] = semi'[arr[n]]}} :
            /\ idom' = [v \in Block |-> IF dfnum[v] \in own THEN p ELSE idom[v]]
            /\ samedom' = [v \in Block |-> IF dfnum[v] \in T \ own
                                           THEN dfnum[low[dfnum[v]]] ELSE samedom[v]]
  BY <1>2
<1>4. PICK low \in {[n \in T |-> ancestorwithlowestsemi(arr[n], semi', ancestor')]} :
          \E own \in {{n \in T : semi'[low[n]] = semi'[arr[n]]}} :
            /\ idom' = [v \in Block |-> IF dfnum[v] \in own THEN p ELSE idom[v]]
            /\ samedom' = [v \in Block |-> IF dfnum[v] \in T \ own
                                           THEN dfnum[low[dfnum[v]]] ELSE samedom[v]]
  BY <1>3
<1>5. PICK own \in {{n \in T : semi'[low[n]] = semi'[arr[n]]}} :
            /\ idom' = [v \in Block |-> IF dfnum[v] \in own THEN p ELSE idom[v]]
            /\ samedom' = [v \in Block |-> IF dfnum[v] \in T \ own
                                           THEN dfnum[low[dfnum[v]]] ELSE samedom[v]]
  BY <1>4
<1>6. SemiDone(b, p, t, T, low, own)
  <2>1. b = arr[h] /\ p = dfparent[b] /\ t = SemiOf(b)
    OBVIOUS
  <2>2. T = bucket[arr[p]] \cup IF arr[t] = arr[p] THEN {h} ELSE {}
    OBVIOUS
  <2>3. low = [n \in T |-> ancestorwithlowestsemi(arr[n], semi', ancestor')]
    OBVIOUS
  <2>4. own = {n \in T : semi'[low[n]] = semi'[arr[n]]}
    OBVIOUS
  <2>5. QED
    BY <1>2, <1>5, <2>1, <2>2, <2>3, <2>4 DEF SemiDone
<1>7. QED
  BY <1>1, <1>6

LEMMA SemiKeeps ==
  ASSUME NEW A, SemiInv(A), Semi
  PROVE  SemiInv(A)'
<1>1. PICK b, p, t, T, low, own : SemiDone(b, p, t, T, low, own)
  BY SemiDoes
<1>2. /\ h > 1 /\ h' = h - 1
      /\ jump' = jump /\ ip_labels' = ip_labels /\ arr' = arr /\ dfnum' = dfnum /\ dfparent' = dfparent /\ df' = df
  BY SemiDoes
<1>3. PICK l : l = h
  OBVIOUS
<1>4. PICK n : n = Size
  OBVIOUS
<1>5. PICK G : G = NumEdges(arr)
  OBVIOUS
<1>6. PICK P : P = Parent
  OBVIOUS
<1>7. PICK z : z = ByNumber(semi)
  OBVIOUS
<1>8. PICK y : y = ByNumber(semi)'
  OBVIOUS
<1>9. PICK I : I = ByNumber(idom)
  OBVIOUS
<1>10. PICK M : M = ByNumber(samedom)
  OBVIOUS
<1>11. PICK K : K = ByNumber(bucket)
  OBVIOUS
<1>12. PICK I2 : I2 = ByNumber(idom)'
  OBVIOUS
<1>13. PICK M2 : M2 = ByNumber(samedom)'
  OBVIOUS
<1>14. PICK K2 : K2 = ByNumber(bucket)'
  OBVIOUS
<1>15. Tree(A) /\ Tree(A)' /\ Size' = n /\ Parent' = P /\ NumEdges(arr)' = G
  <2>1. Tree(A)
    BY DEF SemiInv
  <2>2. /\ Tree(A)' /\ Size' = Size /\ Parent' = Parent /\ NumEdges(arr)' = NumEdges(arr)
    BY <1>2, <2>1, TreeLater
  <2>3. QED
    BY <1>4, <1>5, <1>6, <2>1, <2>2
<1>16. /\ DfsTree(n, G, P, A) /\ n \in Nat /\ l \in 2 .. n /\ l \in 1 .. n
       /\ Semis(n, G, P, A, z, l + 1) /\ Buckets(n, P, A, z, l, I, M, K)
       /\ LinkedFrom(l + 1, ancestor) /\ Arrays
  <2>1. DfsTree(n, G, P, A) /\ n \in Nat
    BY <1>4, <1>5, <1>6, <1>15, TreeIs DEF Tree, Parent
  <2>2. Semis(n, G, P, A, z, l + 1) /\ Buckets(n, P, A, z, l, I, M, K)
    BY <1>3, <1>4, <1>5, <1>6, <1>7, <1>9, <1>10, <1>11 DEF SemiInv
  <2>3. LinkedFrom(l + 1, ancestor) /\ Arrays /\ l \in 1 .. n
    BY <1>3, <1>4 DEF SemiInv
  <2>4. l \in 2 .. n
    BY <1>2, <1>3, <2>1, <2>3
  <2>5. QED
    BY <2>1, <2>2, <2>3, <2>4
<1>17. P[l] \in 1 .. l - 1 /\ P[l] \in 1 .. n /\ l \in l .. n
  BY <1>16, ParentBelow
<1>18. /\ \A i \in 1 .. n : arr[i] \in Block /\ dfnum[arr[i]] = i
       /\ \A i, j \in 1 .. n : arr[i] = arr[j] => i = j
       /\ \A i \in 1 .. n : P[i] = dfparent[arr[i]]
  BY <1>4, <1>6, <1>15, TreeIs DEF Parent
<1>19. b = arr[l] /\ b \in Block /\ p = P[l]
  BY <1>1, <1>3, <1>16, <1>18 DEF SemiDone
<1>20. z = [v \in 1 .. n |-> semi[arr[v]]] /\ \A v \in 1 .. n : z[v] = semi[arr[v]]
  BY <1>4, <1>7 DEF ByNumber
<1>21. SemiBound(n, G, P, A, z, l, t) /\ SemiFrom(n, G, P, A, z, l, t) /\ t \in Nat
  <2>1. t = SemiOf(arr[l])
    BY <1>1, <1>19 DEF SemiDone
  <2>2. P = NumParent(arr, dfparent) /\ semi \in [Block -> Nat] /\ l \in 2 .. Size
    BY <1>4, <1>6, <1>16 DEF Parent, Arrays
  <2>3. QED
    BY <1>4, <1>5, <1>15, <1>16, <1>20, <2>1, <2>2, SemiOfIs
<1>22. t \in 1 .. l - 1 /\ t \in 1 .. n
  <2>1. t \in 1 .. l - 1
    BY <1>16, <1>21, SemiIsAncestor
  <2>2. QED
    BY <1>16, <2>1
<1>23. /\ \A v \in 1 .. n : v # l => y[v] = z[v]
       /\ y[l] = t
       /\ \A v \in 1 .. n : y[v] = semi'[arr[v]]
       /\ semi' \in [Block -> Nat] /\ ancestor' \in [Block -> Nat]
  <2>1. semi' = [semi EXCEPT ![b] = t] /\ ancestor' = [ancestor EXCEPT ![b] = p]
    BY <1>1 DEF SemiDone
  <2>2. semi' \in [Block -> Nat] /\ ancestor' \in [Block -> Nat]
    <3>1. p \in Nat
      BY <1>17, <1>19
    <3>2. QED
      BY <1>16, <1>21, <2>1, <3>1 DEF Arrays
  <2>3. \A v \in 1 .. n : y[v] = semi'[arr[v]]
    BY <1>2, <1>8, <1>15 DEF ByNumber
  <2>4. \A v \in 1 .. n : v # l => arr[v] # b
    BY <1>16, <1>18, <1>19
  <2>5. QED
    BY <1>16, <1>18, <1>19, <1>20, <2>1, <2>2, <2>3, <2>4 DEF Arrays
<1>24. LinkedFrom(l, ancestor')
  <2>1. ancestor' = [ancestor EXCEPT ![b] = p] /\ ancestor \in [Block -> Nat]
    BY <1>1, <1>16 DEF SemiDone, Arrays
  <2>2. p \in 0 .. n
    BY <1>16, <1>17, <1>19
  <2>3. \A c \in Block : ancestor'[c] \in 0 .. n
    BY <1>4, <1>16, <1>19, <2>1, <2>2 DEF LinkedFrom
  <2>4. \A v \in 1 .. n : ancestor'[arr[v]] = IF v >= l THEN dfparent[arr[v]] ELSE 0
    <3> TAKE v \in 1 .. n
    <3>1. CASE v = l
      <4>1. v >= l
        BY <1>16, <3>1
      <4>2. QED
        BY <1>17, <1>18, <1>19, <2>1, <3>1, <4>1
    <3>2. CASE v # l
      <4>1. ancestor'[arr[v]] = ancestor[arr[v]]
        BY <1>16, <1>18, <1>19, <2>1, <3>2
      <4>2. v >= l + 1 <=> v >= l
        BY <1>16, <3>2
      <4>3. QED
        BY <1>4, <1>16, <4>1, <4>2 DEF LinkedFrom
    <3>3. QED
      BY <3>1, <3>2
  <2>5. QED
    BY <1>4, <2>3, <2>4 DEF LinkedFrom
<1>25. Answers(A, y, l, semi', ancestor')
  <2>1. PICK sm : sm = semi'
    OBVIOUS
  <2>2. PICK anc : anc = ancestor'
    OBVIOUS
  <2>3. Labels(y, sm)
    BY <1>4, <1>18, <1>23, <2>1 DEF Labels
  <2>4. LinkedFrom(l, anc) /\ l \in 2 .. Size + 1
    BY <1>4, <1>16, <1>24, <2>2
  <2>5. Answers(A, y, l, sm, anc)
    BY <1>15, <2>3, <2>4, AncestorsAre
  <2>6. QED
    BY <2>1, <2>2, <2>5
<1>26. T = K[P[l]] \cup IF y[l] = P[l] THEN {l} ELSE {}
  <2>1. T = bucket[arr[p]] \cup IF arr[t] = arr[p] THEN {h} ELSE {}
    BY <1>1 DEF SemiDone
  <2>2. K[P[l]] = bucket[arr[p]]
    BY <1>4, <1>11, <1>17, <1>19 DEF ByNumber
  <2>3. arr[t] = arr[p] <=> y[l] = P[l]
    BY <1>17, <1>18, <1>19, <1>22, <1>23
  <2>4. QED
    BY <1>3, <2>1, <2>2, <2>3
<1>27. T \subseteq l .. n
  <2>1. K[P[l]] \subseteq l + 1 .. n
    BY <1>16, <1>17 DEF Buckets
  <2>2. l + 1 .. n \subseteq l .. n
    BY <1>16
  <2>3. QED
    BY <1>17, <1>26, <2>1, <2>2
<1> DEFINE lo == [v \in T |-> dfnum[low[v]]]
<1>28. ASSUME NEW v \in T
       PROVE  /\ Nearest(A, y, l, v, lo[v]) /\ low[v] = arr[lo[v]] /\ lo[v] \in 1 .. n
              /\ v \in 1 .. n /\ (v \in own <=> y[lo[v]] = y[v])
  <2>1. v \in l .. Size /\ v \in 1 .. n
    BY <1>4, <1>16, <1>27
  <2>2. PICK u : Nearest(A, y, l, v, u) /\ ancestorwithlowestsemi(arr[v], semi', ancestor') = arr[u]
    BY <1>25, <2>1 DEF Answers
  <2>3. low[v] = arr[u]
    BY <1>1, <2>2 DEF SemiDone
  <2>4. u \in 1 .. n
    <3>1. u \in A[v]
      BY <2>2 DEF Nearest
    <3>2. u \in 1 .. v
      BY <1>16, <2>1, <3>1, WayBounds
    <3>3. QED
      BY <1>16, <2>1, <3>2
  <2>5. lo[v] = u
    BY <1>18, <2>3, <2>4
  <2>6. v \in own <=> semi'[low[v]] = semi'[arr[v]]
    BY <1>1 DEF SemiDone
  <2>7. QED
    BY <1>23, <2>1, <2>2, <2>3, <2>4, <2>5, <2>6
<1>29. own \subseteq T
  BY <1>1 DEF SemiDone
<1>30. ASSUME NEW v \in 1 .. n
       PROVE  /\ I2[v] = IF v \in T /\ y[lo[v]] = y[v] THEN P[l] ELSE I[v]
              /\ M2[v] = IF v \in T /\ y[lo[v]] # y[v] THEN lo[v] ELSE M[v]
  <2>1. /\ idom' = [c \in Block |-> IF dfnum[c] \in own THEN p ELSE idom[c]]
        /\ samedom' = [c \in Block |-> IF dfnum[c] \in T \ own THEN dfnum[low[dfnum[c]]] ELSE samedom[c]]
    BY <1>1 DEF SemiDone
  <2>2. I2[v] = idom'[arr[v]] /\ M2[v] = samedom'[arr[v]] /\ I[v] = idom[arr[v]] /\ M[v] = samedom[arr[v]]
    BY <1>2, <1>4, <1>9, <1>10, <1>12, <1>13, <1>15 DEF ByNumber
  <2>3. arr[v] \in Block /\ dfnum[arr[v]] = v
    BY <1>18
  <2>4. /\ idom'[arr[v]] = IF v \in own THEN p ELSE idom[arr[v]]
        /\ samedom'[arr[v]] = IF v \in T \ own THEN dfnum[low[v]] ELSE samedom[arr[v]]
    BY <2>1, <2>3
  <2>5. QED
    BY <1>19, <1>28, <1>29, <2>2, <2>4
<1>31. ASSUME NEW d \in 1 .. n
       PROVE  K2[d] = IF d = P[l] THEN {} ELSE IF d = y[l] THEN K[d] \cup {l} ELSE K[d]
  <2>1. bucket' = [[bucket EXCEPT ![arr[t]] = @ \cup {h}] EXCEPT ![arr[p]] = {}] /\ bucket \in [Block -> SUBSET Nat]
    BY <1>1, <1>16 DEF SemiDone, Arrays
  <2>2. K2[d] = bucket'[arr[d]] /\ K[d] = bucket[arr[d]]
    BY <1>2, <1>4, <1>11, <1>14, <1>15 DEF ByNumber
  <2>3. arr[d] \in Block /\ arr[t] \in Block /\ arr[p] \in Block
    BY <1>17, <1>18, <1>19, <1>22
  <2>4. (arr[d] = arr[p] <=> d = P[l]) /\ (arr[d] = arr[t] <=> d = y[l])
    BY <1>17, <1>18, <1>19, <1>22, <1>23
  <2>5. QED
    BY <1>3, <2>1, <2>2, <2>3, <2>4
<1>32. Buckets(n, P, A, y, l - 1, I2, M2, K2)
  <2>1. SemiBound(n, G, P, A, z, l, y[l]) /\ SemiFrom(n, G, P, A, z, l, y[l])
    BY <1>21, <1>23
  <2>2. \A v \in T : Nearest(A, y, l, v, lo[v])
    BY <1>28
  <2>3. PICK w : w = lo
    OBVIOUS
  <2>4. \A v \in T : Nearest(A, y, l, v, w[v])
    BY <2>2, <2>3
  <2>5. \A v \in 1 .. n : /\ I2[v] = IF v \in T /\ y[w[v]] = y[v] THEN P[l] ELSE I[v]
                          /\ M2[v] = IF v \in T /\ y[w[v]] # y[v] THEN w[v] ELSE M[v]
    BY <1>30, <2>3
  <2>6. \A v \in 1 .. n : v # l => y[v] = z[v]
    BY <1>23
  <2> HIDE DEF lo
  <2>7. Renewed(n, z, y, l) /\ Round(n, P, A, y, l, I, M, K, T, w, I2, M2, K2)
    <3>1. Renewed(n, z, y, l)
      BY <2>6 DEF Renewed
    <3>2. \A d \in 1 .. n :
            K2[d] = IF d = P[l] THEN {} ELSE IF d = y[l] THEN K[d] \cup {l} ELSE K[d]
      BY <1>31
    <3>3. Round(n, P, A, y, l, I, M, K, T, w, I2, M2, K2)
      BY <1>26, <2>4, <2>5, <3>2 DEF Round
    <3>4. QED
      BY <3>1, <3>3
  <2>8. QED
    BY <1>16, <2>1, <2>7, BucketStep
<1>33. Semis(n, G, P, A, y, l)
  <2>1. SemiBound(n, G, P, A, z, l, y[l]) /\ SemiFrom(n, G, P, A, z, l, y[l])
    BY <1>21, <1>23
  <2>2. \A v \in 1 .. n : v # l => y[v] = z[v]
    BY <1>23
  <2>3. QED
    BY <1>16, <2>1, <2>2, SemisStep
<1>34. Arrays'
  <2>1. idom' \in [Block -> Nat]
    <3>1. idom' = [c \in Block |-> IF dfnum[c] \in own THEN p ELSE idom[c]]
      BY <1>1 DEF SemiDone
    <3>2. p \in Nat
      BY <1>17, <1>19
    <3>3. QED
      BY <1>16, <3>1, <3>2 DEF Arrays
  <2>2. samedom' \in [Block -> Nat]
    <3>1. samedom' = [c \in Block |-> IF dfnum[c] \in T \ own THEN dfnum[low[dfnum[c]]] ELSE samedom[c]]
      BY <1>1 DEF SemiDone
    <3>2. \A v \in T : dfnum[low[v]] \in Nat
      <4> TAKE v \in T
      <4>1. lo[v] = dfnum[low[v]] /\ lo[v] \in 1 .. n
        BY <1>28
      <4>2. QED
        BY <4>1
    <3>3. QED
      BY <1>16, <3>1, <3>2 DEF Arrays
  <2>3. bucket' \in [Block -> SUBSET Nat]
    <3>1. bucket' = [[bucket EXCEPT ![arr[t]] = @ \cup {h}] EXCEPT ![arr[p]] = {}]
      BY <1>1 DEF SemiDone
    <3>2. h \in Nat
      BY <1>3, <1>16
    <3>3. QED
      BY <1>16, <3>1, <3>2 DEF Arrays
  <2>4. df' = [c \in Block |-> {}]
    BY <1>2, <1>16 DEF Arrays
  <2>5. QED
    BY <1>23, <2>1, <2>2, <2>3, <2>4 DEF Arrays
<1>35. h' = l - 1 /\ h' + 1 = l /\ h' \in 1 .. n
  BY <1>2, <1>3, <1>16
<1>36. LinkedFrom(h + 1, ancestor)'
  <2>1. \A v : LinkedFrom(v, ancestor)' <=> LinkedFrom(v, ancestor')
    BY <1>2, <1>4, <1>15 DEF LinkedFrom
  <2>2. QED
    BY <1>24, <1>35, <2>1
<1>37. Semis(Size, NumEdges(arr), Parent, A, ByNumber(semi), h + 1)'
  BY <1>8, <1>15, <1>33, <1>35
<1>38. Buckets(Size, Parent, A, ByNumber(semi), h, ByNumber(idom), ByNumber(samedom),
               ByNumber(bucket))'
  BY <1>8, <1>12, <1>13, <1>14, <1>15, <1>32, <1>35
<1>39. QED
  BY <1>15, <1>34, <1>35, <1>36, <1>37, <1>38 DEF SemiInv

(* What is reached around a block, by numbers. *)
AvoidedBy(a) == {i \in 1 .. Size : arr[i] \in Around(arr[a])}

LEMMA AvoidsAre ==
  ASSUME NEW A, Tree(A), NEW n, n = Size, NEW G, G = NumEdges(arr),
         NEW R, R = [a \in 1 .. n |-> AvoidedBy(a)]
  PROVE  Avoids(n, G, R)
<1>1. /\ \A i \in 1 .. n : arr[i] \in Block /\ arr[i] \in Reachable /\ arr[i] \in Nat
      /\ \A i, j \in 1 .. n : arr[i] = arr[j] => i = j
      /\ n \in Nat /\ 1 \in 1 .. n /\ arr[1] = 1
  BY TreeIs, ReachableIs
<1>2. \A i, j : <<i, j>> \in G <=> i \in 1 .. n /\ j \in 1 .. n /\ Edge(arr[i], arr[j])
  <2>1. Len(arr) = n /\ Len(arr) \in Nat
    BY <1>1 DEF Size
  <2>2. QED
    BY <2>1, NumEdgesAre
<1>3. ASSUME NEW a \in 1 .. n
      PROVE  /\ a \notin R[a] /\ R[a] \subseteq 1 .. n
             /\ a # 1 => 1 \in R[a]
             /\ \A i \in R[a], j \in 1 .. n : <<i, j>> \in G /\ j # a => j \in R[a]
             /\ \A S \in SUBSET (1 .. n) :
                  /\ a # 1 => 1 \in S
                  /\ \A i \in S, j \in 1 .. n : <<i, j>> \in G /\ j # a => j \in S
                  => R[a] \subseteq S
  <2>1. R[a] = {i \in 1 .. n : arr[i] \in Around(arr[a])}
    BY DEF AvoidedBy
  <2>2. PICK c : c = arr[a]
    OBVIOUS
  <2>3. PICK Z : Z = Around(c)
    OBVIOUS
  <2>4. IsAround(c, Z) /\ c \in Block
    <3>1. c \in Nat /\ c \in Block
      BY <1>1, <2>2
    <3>2. QED
      BY <2>3, <3>1, AroundIs
  <2>5. \A i : i \in R[a] <=> i \in 1 .. n /\ arr[i] \in Z
    BY <2>1, <2>2, <2>3
  <2>6. a \notin R[a] /\ R[a] \subseteq 1 .. n
    BY <2>2, <2>4, <2>5 DEF IsAround
  <2>7. a # 1 => 1 \in R[a]
    BY <1>1, <2>2, <2>4, <2>5 DEF IsAround
  <2>8. ASSUME NEW i \in R[a], NEW j \in 1 .. n, <<i, j>> \in G, j # a PROVE j \in R[a]
    <3>1. Edge(arr[i], arr[j]) /\ arr[j] # c /\ arr[j] \in Block /\ arr[i] \in Z
      BY <1>1, <1>2, <2>2, <2>5, <2>8
    <3>2. arr[j] \in Z
      BY <2>4, <3>1 DEF IsAround
    <3>3. QED
      BY <2>5, <3>2
  <2>9. ASSUME NEW S \in SUBSET (1 .. n), a # 1 => 1 \in S,
               \A i \in S, j \in 1 .. n : <<i, j>> \in G /\ j # a => j \in S
        PROVE  R[a] \subseteq S
    <3> DEFINE X == {arr[i] : i \in S}
    <3>1. X \in SUBSET Block
      BY <1>1
    <3>2. c # 1 => 1 \in X
      BY <1>1, <2>2, <2>9
    <3>3. ASSUME NEW x \in X, NEW b \in Block, Edge(x, b), b # c PROVE b \in X
      <4>1. PICK i \in S : x = arr[i]
        OBVIOUS
      <4>2. b \in Reachable
        BY <1>1, <3>3, <4>1, ReachableIs
      <4>3. PICK j \in 1 .. n : arr[j] = b
        BY <4>2, TreeIs
      <4>4. <<i, j>> \in G /\ j # a
        BY <1>2, <2>2, <3>3, <4>1, <4>3
      <4>5. j \in S
        BY <2>9, <4>4
      <4>6. QED
        BY <4>3, <4>5
    <3> HIDE DEF X
    <3>4. Z \subseteq X
      BY <2>4, <3>1, <3>2, <3>3 DEF IsAround
    <3>5. \A i \in 1 .. n : arr[i] \in X => i \in S
      BY <1>1 DEF X
    <3>6. QED
      BY <2>5, <3>4, <3>5
  <2>10. QED
    BY <2>6, <2>7, <2>8, <2>9
<1>4. QED
  BY <1>3 DEF Avoids

(* The second loop. *)
Share(k, g) ==
  IF k \in 2 .. Size /\ samedom[arr[k]] # 0
  THEN [g EXCEPT ![arr[k]] = g[arr[samedom[arr[k]]]]]
  ELSE g

Shares(f) ==
  /\ f[0] = idom
  /\ \A k \in 1 .. NBlocks : f[k - 1] \in [Block -> Nat] /\ f[k] = Share(k, f[k - 1])
  /\ f[NBlocks] \in [Block -> Nat]

LEMMA SameDomSolves ==
  ASSUME NEW A, Tree(A), SameDom, idom \in [Block -> Nat],
         \A v \in 2 .. Size : samedom[arr[v]] # 0 => samedom[arr[v]] \in 1 .. Size
  PROVE  \E f : Shares(f) /\ idom' = f[NBlocks]
<1> DEFINE N == NBlocks
           T == [Block -> Nat]
           G == [q \in (1 .. N) \X T |-> Share(q[1], q[2])]
           F(g) == [k \in Order |-> IF k = 0 THEN idom ELSE Share(k, g[k - 1])]
           f == CHOOSE g : g = F(g)
<1>1. N \in Nat /\ Order = 0 .. N
  BY BlockIs DEF Order
<1>2. idom \in T
  OBVIOUS
<1>3. \A k \in 1 .. N, g \in T : Share(k, g) \in T
  <2> TAKE k \in 1 .. N, g \in T
  <2>1. CASE k \in 2 .. Size /\ samedom[arr[k]] # 0
    <3>1. arr[samedom[arr[k]]] \in Block
      BY <2>1, TreeIs
    <3>2. QED
      BY <2>1, <3>1 DEF Share
  <2>2. CASE ~(k \in 2 .. Size /\ samedom[arr[k]] # 0)
    BY <2>2 DEF Share
  <2>3. QED
    BY <2>1, <2>2
<1>4. G \in [(1 .. N) \X T -> T]
  BY <1>3
<1>5. \A k \in 1 .. N, x \in T : G[<<k, x>>] = Share(k, x)
  <2> HIDE DEF T, N
  <2>1. QED
    OBVIOUS
<1>6. idom' = f[N]
  BY DEF SameDom, Share
<1> HIDE DEF G, N, T
<1>7. PICK g : Solves(g, T, idom, G, N)
  BY <1>1, <1>2, <1>4, FunctionExists
<1>8. \A k \in 0 .. N : k = 0 \/ k \in 1 .. N
  BY <1>1
<1>9. \A k \in 1 .. N : g[k - 1] \in T /\ g[k] = Share(k, g[k - 1])
  <2>1. \A k \in 1 .. N : g[k - 1] \in T /\ g[k] = G[<<k, g[k - 1]>>]
    BY <1>7 DEF Solves
  <2>2. QED
    BY <1>5, <2>1
<1>10. g[0] = idom /\ g = [k \in Order |-> g[k]] /\ g[N] \in T
  BY <1>1, <1>7 DEF Solves
<1>11. g = F(g)
  <2>1. \A k \in Order : g[k] = IF k = 0 THEN idom ELSE Share(k, g[k - 1])
    BY <1>1, <1>8, <1>9, <1>10
  <2>2. QED
    BY <1>10, <2>1
<1>12. f = F(f)
  <2> HIDE DEF F
  <2>1. QED
    BY <1>11
<1> HIDE DEF f
<1>13. f[0] = idom /\ \A k \in 1 .. N : f[k] = Share(k, f[k - 1])
  <2>1. 0 \in Order /\ \A k \in 1 .. N : k \in Order /\ k # 0
    BY <1>1
  <2>2. QED
    BY <1>12, <2>1
<1> DEFINE S == {k \in Nat : k <= N => f[k] \in T}
<1>14. 0 \in S
  BY <1>2, <1>13
<1>15. ASSUME NEW k \in Nat, k \in S PROVE k + 1 \in S
  <2>1. SUFFICES ASSUME k + 1 <= N PROVE f[k + 1] \in T
    OBVIOUS
  <2>2. k + 1 \in 1 .. N /\ (k + 1) - 1 = k /\ k <= N
    BY <1>1, <2>1
  <2>3. f[k] \in T
    BY <1>15, <2>2
  <2>4. QED
    BY <1>3, <1>13, <2>2, <2>3
<1> HIDE DEF S
<1>16. Nat \subseteq S
  BY <1>14, <1>15, SetInduction
<1>17. \A k \in 0 .. N : f[k] \in T
  BY <1>16 DEF S
<1>18. \A k \in 1 .. N : k - 1 \in 0 .. N
  BY <1>1
<1>19. Shares(f)
  <2>1. N \in 0 .. N
    BY <1>1
  <2>2. QED
    BY <1>13, <1>17, <1>18, <2>1 DEF Shares, N, T
<1>20. QED
  BY <1>6, <1>19 DEF N

LEMMA SameDomNumbers ==
  ASSUME NEW A, SemiInv(A), SameDom, NEW R, R = [a \in 1 .. Size |-> AvoidedBy(a)]
  PROVE  /\ idom' \in [Block -> Nat] /\ idom'[1] = 0
         /\ \A v \in 2 .. Size : IsIdom(Size, R, idom'[arr[v]], v)
<1>1. PICK n : n = Size
  OBVIOUS
<1>2. PICK G : G = NumEdges(arr)
  OBVIOUS
<1>3. PICK P : P = Parent
  OBVIOUS
<1>4. PICK s : s = ByNumber(semi)
  OBVIOUS
<1>5. PICK I : I = ByNumber(idom)
  OBVIOUS
<1>6. PICK M : M = ByNumber(samedom)
  OBVIOUS
<1>7. PICK K : K = ByNumber(bucket)
  OBVIOUS
<1>8. Tree(A) /\ Arrays /\ DfsTree(n, G, P, A)
  BY <1>1, <1>2, <1>3 DEF SemiInv, Tree, Parent
<1>9. n \in Nat /\ n <= NBlocks /\ NBlocks \in Nat /\ 1 \in 1 .. n
  BY <1>1, <1>8, TreeIs
<1>10. h = 1
  <2>1. h \in 1 .. n /\ h <= 1
    BY <1>1 DEF SemiInv, SameDom
  <2>2. QED
    BY <1>9, <2>1
<1>11. Semis(n, G, P, A, s, 2) /\ Buckets(n, P, A, s, 1, I, M, K)
  <2>1. Semis(n, G, P, A, s, 1 + 1) /\ Buckets(n, P, A, s, 1, I, M, K)
    BY <1>1, <1>2, <1>3, <1>4, <1>5, <1>6, <1>7, <1>10 DEF SemiInv
  <2>2. QED
    BY <2>1
<1>12. Avoids(n, G, R)
  BY <1>1, <1>2, <1>8, AvoidsAre
<1>13. \A v \in 2 .. n : Answered(A, s, I, M, v)
  BY <1>8, <1>11, AllDecided
<1>14. /\ \A v \in 1 .. n : arr[v] \in Block /\ I[v] = idom[arr[v]] /\ M[v] = samedom[arr[v]]
       /\ \A i, j \in 1 .. n : arr[i] = arr[j] => i = j
       /\ arr[1] = 1
  BY <1>1, <1>5, <1>6, <1>8, TreeIs DEF ByNumber
<1>15. \A v \in 2 .. n : v \in 1 .. n
  BY <1>9
<1>16. I[1] = 0 /\ M[1] = 0
  BY <1>11 DEF Buckets
<1>17. ASSUME NEW v \in 2 .. n
       PROVE  \/ IsIdom(n, R, I[v], v) /\ M[v] = 0
              \/ /\ M[v] \in 2 .. v - 1 /\ M[v] # 0
                 /\ \A d : IsIdom(n, R, d, M[v]) => IsIdom(n, R, d, v)
  <2>1. PICK u : /\ Lowest(A, s, v, u)
                 /\ s[u] = s[v] => I[v] = s[v] /\ M[v] = 0
                 /\ s[u] # s[v] => I[v] = 0 /\ M[v] = u
    BY <1>13 DEF Answered
  <2>2. CASE s[u] = s[v]
    <3>1. IsIdom(n, R, s[v], v)
      BY <1>8, <1>11, <1>12, <2>1, <2>2, IdomIsSemi
    <3>2. QED
      BY <2>1, <2>2, <3>1
  <2>3. CASE s[u] # s[v]
    <3>1. u \in 1 .. v /\ u > s[v] /\ u # v
      BY <1>8, <1>15, <2>1, <2>3, WayBounds DEF Lowest
    <3>2. s[v] \in 1 .. v - 1
      BY <1>11 DEF Semis
    <3>3. u \in 2 .. v - 1 /\ u # 0
      BY <3>1, <3>2
    <3>4. \A d : IsIdom(n, R, d, u) => IsIdom(n, R, d, v)
      <4> TAKE d
      <4>1. SUFFICES ASSUME IsIdom(n, R, d, u) PROVE IsIdom(n, R, d, v)
        OBVIOUS
      <4>2. QED
        BY <1>8, <1>11, <1>12, <2>1, <2>3, <4>1, IdomIsShared
    <3>5. M[v] = u
      BY <2>1, <2>3
    <3>6. QED
      BY <3>3, <3>4, <3>5
  <2>4. QED
    BY <2>2, <2>3
<1>18. PICK f : Shares(f) /\ idom' = f[NBlocks]
  <2>1. idom \in [Block -> Nat]
    BY <1>8 DEF Arrays
  <2>2. \A v \in 2 .. Size : samedom[arr[v]] # 0 => samedom[arr[v]] \in 1 .. Size
    <3> TAKE v \in 2 .. Size
    <3>1. SUFFICES ASSUME samedom[arr[v]] # 0 PROVE samedom[arr[v]] \in 1 .. Size
      OBVIOUS
    <3>2. M[v] \in 2 .. v - 1
      BY <1>1, <1>14, <1>15, <1>17, <3>1
    <3>3. M[v] \in 1 .. n
      BY <1>1, <1>9, <3>2
    <3>4. QED
      BY <1>1, <1>14, <1>15, <3>3
  <2>3. QED
    BY <1>8, <2>1, <2>2, SameDomSolves
<1>19. f[0] = idom /\ \A k \in 1 .. NBlocks : f[k - 1] \in [Block -> Nat] /\ f[k] = Share(k, f[k - 1])
  BY <1>18 DEF Shares
<1> DEFINE Good(k) == \A v \in 1 .. n :
                        /\ v = 1 => f[k][arr[v]] = 0
                        /\ v > 1 /\ v <= k => IsIdom(n, R, f[k][arr[v]], v)
                        /\ v > k => f[k][arr[v]] = I[v]
           S == {k \in Nat : k <= NBlocks => Good(k)}
<1>20. 0 \in S
  <2>1. \A v \in 1 .. n : ~(v > 1 /\ v <= 0)
    OBVIOUS
  <2>2. Good(0)
    BY <1>14, <1>16, <1>19, <2>1
  <2>3. QED
    BY <2>2
<1>21. ASSUME NEW k \in Nat, k \in S PROVE k + 1 \in S
  <2>1. SUFFICES ASSUME k + 1 <= NBlocks PROVE Good(k + 1)
    OBVIOUS
  <2>2. k + 1 \in 1 .. NBlocks /\ (k + 1) - 1 = k /\ k <= NBlocks
    BY <1>9, <2>1
  <2>3. Good(k)
    BY <1>21, <2>2
  <2>4. f[k] \in [Block -> Nat] /\ f[k + 1] = Share(k + 1, f[k])
    BY <1>19, <2>2
  <2>5. PICK m : m = k + 1
    OBVIOUS
  <2>6. /\ m \in Nat /\ \A v \in 1 .. n : v <= m <=> v <= k \/ v = m
        /\ \A v \in 1 .. n : v > m => v > k
        /\ \A v \in 1 .. n : v > k <=> v > m \/ v = m
        /\ m > k
    BY <2>5
  <2>7. CASE ~(m \in 2 .. Size /\ samedom[arr[m]] # 0)
    <3>1. f[m] = f[k]
      BY <2>4, <2>5, <2>7 DEF Share
    <3>2. ASSUME NEW v \in 1 .. n, v > 1, v = m PROVE IsIdom(n, R, f[m][arr[v]], v)
      <4>1. v \in 2 .. n /\ v > k
        BY <1>9, <2>6, <3>2
      <4>2. M[v] = 0
        BY <1>1, <1>14, <2>7, <3>2, <4>1
      <4>3. 0 \notin 2 .. v - 1
        OBVIOUS
      <4>4. IsIdom(n, R, I[v], v)
        BY <1>17, <4>1, <4>2, <4>3
      <4>5. f[k][arr[v]] = I[v]
        BY <2>3, <4>1
      <4>6. QED
        BY <3>1, <4>4, <4>5
    <3>3. QED
      BY <2>3, <2>5, <2>6, <3>1, <3>2
  <2>8. CASE m \in 2 .. Size /\ samedom[arr[m]] # 0
    <3>1. PICK u : u = M[m]
      OBVIOUS
    <3>2. m \in 2 .. n /\ m \in 1 .. n /\ M[m] # 0 /\ samedom[arr[m]] = u
      BY <1>1, <1>14, <1>15, <2>8, <3>1
    <3>3. u \in 2 .. m - 1 /\ \A d : IsIdom(n, R, d, u) => IsIdom(n, R, d, m)
      BY <1>17, <3>1, <3>2
    <3>4. u \in 1 .. n /\ u > 1 /\ u <= k
      BY <1>9, <2>5, <3>2, <3>3
    <3>5. IsIdom(n, R, f[k][arr[u]], u)
      BY <2>3, <3>4
    <3>6. f[m] = [f[k] EXCEPT ![arr[m]] = f[k][arr[u]]]
      BY <2>4, <2>5, <2>8, <3>2 DEF Share
    <3>7. f[m][arr[m]] = f[k][arr[u]]
      BY <1>14, <2>4, <3>2, <3>6
    <3>8. \A v \in 1 .. n : v # m => f[m][arr[v]] = f[k][arr[v]]
      BY <1>14, <2>4, <3>2, <3>6
    <3>9. IsIdom(n, R, f[m][arr[m]], m)
      BY <3>3, <3>5, <3>7
    <3>10. m # 1 /\ ~(m > m) /\ \A v \in 1 .. n : v > m => v # m
      BY <2>6, <3>2
    <3>11. ASSUME NEW v \in 1 .. n
           PROVE  /\ v = 1 => f[m][arr[v]] = 0
                  /\ v > 1 /\ v <= m => IsIdom(n, R, f[m][arr[v]], v)
                  /\ v > m => f[m][arr[v]] = I[v]
      <4>1. CASE v = m
        BY <3>9, <3>10, <4>1
      <4>2. CASE v # m
        <5>1. f[m][arr[v]] = f[k][arr[v]]
          BY <3>8, <4>2
        <5>2. (v <= m => v <= k) /\ (v > m => v > k)
          BY <2>6, <4>2
        <5>3. QED
          BY <2>3, <5>1, <5>2
      <4>3. QED
        BY <4>1, <4>2
    <3>12. QED
      BY <2>5, <3>11
  <2>9. QED
    BY <2>7, <2>8
<1> HIDE DEF S
<1>22. NBlocks \in S
  BY <1>9, <1>20, <1>21, SetInduction
<1>23. Good(NBlocks)
  BY <1>9, <1>22 DEF S
<1>24. \A v \in 2 .. n : v \in 1 .. n /\ v > 1 /\ v <= NBlocks
  BY <1>9
<1>25. \A v \in 2 .. n : IsIdom(n, R, idom'[arr[v]], v)
  BY <1>18, <1>23, <1>24
<1>26. idom'[1] = 0
  BY <1>9, <1>14, <1>18, <1>23
<1>27. idom' \in [Block -> Nat]
  BY <1>18 DEF Shares
<1>28. QED
  BY <1>1, <1>25, <1>26, <1>27

(* i is the number of the immediate dominator of b. *)
Immediate(i, b) ==
  /\ i \in 1 .. dfnum[b] - 1 /\ i \in 1 .. Size /\ Doms(arr[i], b) /\ arr[i] # b
  /\ \A a : Doms(a, b) /\ a # b => Doms(a, arr[i])

IdomTree ==
  /\ idom \in [Block -> Nat] /\ idom[1] = 0
  /\ \A b \in Reachable \ {1} : Immediate(idom[b], b)

Children ==
  dfchildren = [b \in Block |->
     {n \in DOMAIN arr : dfnum[b] # 0 /\ idom[arr[n]] = dfnum[b] /\ arr[n] # b}]

NoFrontier == df = [b \in Block |-> {}]

DfInv(A) == Tree(A) /\ IdomTree /\ Children /\ NoFrontier

LEMMA ImmediateIs ==
  ASSUME NEW A, Tree(A), NEW R, R = [a \in 1 .. Size |-> AvoidedBy(a)],
         NEW v \in 2 .. Size, NEW i, IsIdom(Size, R, i, v)
  PROVE  Immediate(i, arr[v])
<1>1. /\ \A k \in 1 .. Size : arr[k] \in Block /\ arr[k] \in Reachable /\ dfnum[arr[k]] = k
      /\ \A k, j \in 1 .. Size : arr[k] = arr[j] => k = j
      /\ Size \in Nat
  BY TreeIs
<1>2. v \in 1 .. Size /\ i \in 1 .. v - 1 /\ i \in 1 .. Size /\ i # v
  <2>1. i \in 1 .. v - 1
    BY DEF IsIdom
  <2>2. QED
    BY <1>1, <2>1
<1>3. \A a, w \in 1 .. Size : w \notin R[a] <=> Doms(arr[a], arr[w])
  <2> TAKE a, w \in 1 .. Size
  <2>1. R[a] = {k \in 1 .. Size : arr[k] \in Around(arr[a])}
    BY DEF AvoidedBy
  <2>2. QED
    BY <1>1, <2>1 DEF Doms
<1>4. Doms(arr[i], arr[v]) /\ arr[i] # arr[v]
  BY <1>1, <1>2, <1>3 DEF IsIdom
<1>5. ASSUME NEW a, Doms(a, arr[v]), a # arr[v] PROVE Doms(a, arr[i])
  <2>1. a \in Reachable
    BY <1>5 DEF Doms
  <2>2. PICK k \in 1 .. Size : arr[k] = a
    BY <2>1, TreeIs
  <2>3. v \notin R[k] /\ k # v
    BY <1>2, <1>3, <1>5, <2>2
  <2>4. i \notin R[k]
    BY <2>3 DEF IsIdom
  <2>5. QED
    BY <1>2, <1>3, <2>2, <2>4
<1>6. dfnum[arr[v]] = v
  BY <1>1, <1>2
<1>7. QED
  BY <1>2, <1>4, <1>5, <1>6 DEF Immediate

LEMMA DomsLater ==
  ASSUME jump' = jump, ip_labels' = ip_labels
  PROVE  \A a, b : Doms(a, b)' <=> Doms(a, b)
BY ReachableLater, AroundLater DEF Doms

LEMMA ImmediateLater ==
  ASSUME jump' = jump, ip_labels' = ip_labels, arr' = arr, dfnum' = dfnum
  PROVE  \A i, b : Immediate(i, b)' <=> Immediate(i, b)
BY DomsLater DEF Immediate, Size

LEMMA SameDomRight ==
  ASSUME NEW A, SemiInv(A), SameDom
  PROVE  DfInv(A)'
<1>1. /\ jump' = jump /\ ip_labels' = ip_labels /\ arr' = arr /\ dfnum' = dfnum /\ dfparent' = dfparent /\ df' = df
      /\ dfchildren' = [b \in Block |->
          {n \in DOMAIN arr : dfnum[b] # 0 /\ idom'[arr[n]] = dfnum[b] /\ arr[n] # b}]
  BY DEF SameDom
<1>2. Tree(A) /\ Tree(A)' /\ Reachable' = Reachable
  <2>1. Tree(A)
    BY DEF SemiInv
  <2>2. QED
    BY <1>1, <2>1, TreeLater
<1>3. PICK R : R = [a \in 1 .. Size |-> AvoidedBy(a)]
  OBVIOUS
<1>4. /\ idom' \in [Block -> Nat] /\ idom'[1] = 0
      /\ \A v \in 2 .. Size : IsIdom(Size, R, idom'[arr[v]], v)
  BY <1>3, SameDomNumbers
<1>5. ASSUME NEW b \in Reachable \ {1} PROVE Immediate(idom'[b], b)
  <2>1. dfnum[b] \in 1 .. Size /\ arr[dfnum[b]] = b /\ arr[1] = 1
    BY <1>2, TreeIs
  <2>2. PICK v : v = dfnum[b]
    OBVIOUS
  <2>3. v \in 2 .. Size /\ arr[v] = b
    <3>1. v # 1
      BY <1>5, <2>1, <2>2
    <3>2. v \in 1 .. Size /\ Size \in Nat
      BY <1>2, <2>1, <2>2, TreeIs
    <3>3. v \in 2 .. Size
      BY <3>1, <3>2
    <3>4. QED
      BY <2>1, <2>2, <3>3
  <2>4. PICK i : i = idom'[b]
    OBVIOUS
  <2>5. IsIdom(Size, R, i, v)
    BY <1>4, <2>3, <2>4
  <2>6. Immediate(i, arr[v])
    BY <1>2, <1>3, <2>3, <2>5, ImmediateIs
  <2>7. QED
    BY <2>3, <2>4, <2>6
<1>6. IdomTree'
  <2>2. \A i, b : Immediate(i, b)' <=> Immediate(i, b)
    BY <1>1, ImmediateLater
  <2>3. \A b \in Reachable \ {1} : Immediate(idom[b], b)'
    <3> TAKE b \in Reachable \ {1}
    <3>1. PICK i : i = idom'[b]
      OBVIOUS
    <3>2. Immediate(i, b)
      BY <1>5, <3>1
    <3>3. Immediate(i, b)'
      BY <2>2, <3>2
    <3>4. QED
      BY <3>1, <3>3
  <2>4. QED
    BY <1>2, <1>4, <2>3 DEF IdomTree
<1>7. Children'
  BY <1>1 DEF Children
<1>8. NoFrontier'
  BY <1>1 DEF NoFrontier, SemiInv, Arrays
<1>9. QED
  BY <1>2, <1>6, <1>7, <1>8 DEF DfInv

LEMMA IdomRightIs ==
  ASSUME NEW A, Tree(A), IdomTree
  PROVE  IdomRight
<1>1. SUFFICES ASSUME NEW b \in Reachable \ {1}
               PROVE  /\ idom[b] # 0
                      /\ <<arr[idom[b]], b>> \in {ab \in Dom : ab[1] # ab[2]}
                      /\ \A a \in Block : <<a, b>> \in {ab \in Dom : ab[1] # ab[2]} =>
                                             <<a, arr[idom[b]]>> \in Dom
  BY DEF IdomRight
<1>2. Immediate(idom[b], b)
  BY DEF IdomTree
<1>3. PICK d : d = arr[idom[b]]
  OBVIOUS
<1>4. idom[b] # 0 /\ Doms(d, b) /\ d # b /\ \A a : Doms(a, b) /\ a # b => Doms(a, d)
  BY <1>2, <1>3 DEF Immediate
<1>5. PICK D : D = Dom
  OBVIOUS
<1>6. \A x, y : <<x, y>> \in D <=> Doms(x, y)
  BY <1>5, DomIs
<1>7. \A x, y : <<x, y>> \in {ab \in D : ab[1] # ab[2]} <=> <<x, y>> \in D /\ x # y
  OBVIOUS
<1>8. QED
  BY <1>3, <1>4, <1>5, <1>6, <1>7

-----------------------------------------------------------------------------
(* The dominance frontier, by numbers. *)
Verge(a) == {i \in 1 .. Size : /\ a = arr[i] \/ ~Doms(a, arr[i])
                               /\ \E c \in Block : Edge(c, arr[i]) /\ Doms(a, c)}

(* A block dominated strictly is below a child in the dominator tree. *)
LEMMA TreeChild ==
  ASSUME NEW A, Tree(A), IdomTree, NEW b, NEW c, Doms(b, c), b # c
  PROVE  \E z \in Reachable \ {1} : idom[z] = dfnum[b] /\ Doms(z, c) /\ Doms(b, z) /\ z # b
<1> DEFINE S == {n \in 1 .. Size : Doms(b, arr[n]) /\ b # arr[n] /\ Doms(arr[n], c)}
<1>1. /\ \A k \in 1 .. Size : arr[k] \in Reachable /\ dfnum[arr[k]] = k
      /\ Size \in Nat
      /\ \A x \in Reachable : dfnum[x] \in 1 .. Size /\ arr[dfnum[x]] = x
  BY TreeIs
<1>2. b \in Reachable /\ c \in Reachable
  BY DEF Doms
<1>3. dfnum[c] \in S
  <2>1. Doms(c, c)
    BY <1>2, DomReflexive
  <2>2. QED
    BY <1>1, <1>2, <2>1
<1>4. PICK n \in S : \A m \in S : n <= m
  <2>1. S \subseteq Nat /\ S # {}
    BY <1>1, <1>3
  <2> HIDE DEF S
  <2>2. QED
    BY <2>1, LeastNat
<1>5. PICK z : z = arr[n]
  OBVIOUS
<1>6. n \in 1 .. Size /\ Doms(b, z) /\ b # z /\ Doms(z, c) /\ z \in Reachable /\ dfnum[z] = n
  BY <1>1, <1>4, <1>5
<1>7. z # 1
  <2>1. SUFFICES ASSUME z = 1 PROVE FALSE
    OBVIOUS
  <2>2. Doms(1, b)
    BY <1>2, DomReflexive
  <2>3. QED
    BY <1>6, <2>1, <2>2, DomAntisymmetric
<1>8. Immediate(idom[z], z)
  BY <1>6, <1>7 DEF IdomTree
<1>9. PICK i : i = idom[z]
  OBVIOUS
<1>10. PICK d : d = arr[i]
  OBVIOUS
<1>11. i \in 1 .. n - 1 /\ i \in 1 .. Size /\ Doms(d, z) /\ d # z /\ Doms(b, d)
  BY <1>6, <1>8, <1>9, <1>10 DEF Immediate
<1>12. d = b
  <2>1. SUFFICES ASSUME d # b PROVE FALSE
    OBVIOUS
  <2>2. Doms(d, c)
    BY <1>6, <1>11, DomTransitive
  <2>3. i \in S
    BY <1>10, <1>11, <2>1, <2>2
  <2>4. n <= i
    BY <1>4, <2>3
  <2>5. n \in Nat
    BY <1>6
  <2>6. QED
    BY <1>11, <2>4, <2>5
<1>13. dfnum[b] = i
  BY <1>1, <1>10, <1>11, <1>12
<1>14. QED
  BY <1>6, <1>7, <1>9, <1>13

(* The immediate dominator of a block dominates its parents. *)
LEMMA OverParent ==
  ASSUME NEW A, Tree(A), IdomTree, NEW b \in Reachable, NEW c \in Block, Edge(b, c)
  PROVE  /\ c \in Reachable \ {1} /\ Immediate(idom[c], c)
         /\ Doms(arr[idom[c]], b) /\ Doms(arr[idom[c]], c) /\ arr[idom[c]] # c
         /\ idom[c] \in 1 .. Size /\ dfnum[arr[idom[c]]] = idom[c]
<1>1. c \in Reachable /\ c # 1 /\ b \in Block
  BY ReachableIs, EdgeInto DEF Tree
<1>2. Immediate(idom[c], c)
  BY <1>1 DEF IdomTree
<1>3. PICK d : d = arr[idom[c]]
  OBVIOUS
<1>4. Doms(d, c) /\ d # c /\ idom[c] \in 1 .. Size
  BY <1>2, <1>3 DEF Immediate
<1>5. Doms(d, b)
  BY <1>1, <1>4, DomOverEdge
<1>6. dfnum[arr[idom[c]]] = idom[c]
  BY <1>4, TreeIs
<1>7. QED
  BY <1>1, <1>2, <1>3, <1>4, <1>5, <1>6

LEMMA OwnIsFront ==
  ASSUME NEW A, Tree(A), IdomTree, NEW b \in Reachable
  PROVE  \A i : i \in Own(b) <=> /\ i \in 1 .. Size /\ Edge(b, arr[i]) /\ idom[arr[i]] # dfnum[b]
<1> TAKE i
<1>1. \A c : c \in ToSet(child(b)) <=> Edge(b, c)
  BY DEF Edge, ToSet
<1>2. i \in Own(b) <=> \E c : Edge(b, c) /\ idom[c] # dfnum[b] /\ i = dfnum[c]
  BY <1>1 DEF Own
<1>3. \A c : Edge(b, c) => c \in Reachable /\ dfnum[c] \in 1 .. Size /\ arr[dfnum[c]] = c
  <2> TAKE c
  <2>1. SUFFICES ASSUME Edge(b, c) PROVE c \in Reachable /\ dfnum[c] \in 1 .. Size /\ arr[dfnum[c]] = c
    OBVIOUS
  <2>2. b \in Block /\ c \in Block
    BY <2>1, ReachableIs, EdgeInto DEF Tree
  <2>3. c \in Reachable
    BY <2>1, <2>2, ReachableIs
  <2>4. QED
    BY <2>3, TreeIs
<1>4. \A k \in 1 .. Size : dfnum[arr[k]] = k
  BY TreeIs
<1>5. QED
  BY <1>2, <1>3, <1>4

(* What a block's own children and its children in the tree add up to. *)
LEMMA FrontStep ==
  ASSUME NEW A, Tree(A), IdomTree, Children, NEW b \in Reachable, NEW U,
         \A i : i \in U <=> \E n \in dfchildren[b] : i \in Verge(arr[n])
  PROVE  Own(b) \cup {i \in U : Passed(b, i)} = Verge(b)
<1>1. /\ \A k \in 1 .. Size : arr[k] \in Reachable /\ arr[k] \in Block /\ dfnum[arr[k]] = k
      /\ \A x \in Reachable : dfnum[x] \in 1 .. Size /\ arr[dfnum[x]] = x /\ x \in Block
      /\ DOMAIN arr = 1 .. Size /\ Size \in Nat
  BY TreeIs
<1>2. \A n : n \in dfchildren[b] <=> n \in 1 .. Size /\ idom[arr[n]] = dfnum[b] /\ arr[n] # b
  <2>1. b \in Block /\ dfnum[b] \in 1 .. Size
    BY <1>1
  <2>2. dfnum[b] # 0
    BY <2>1
  <2>3. dfchildren[b] = {n \in DOMAIN arr : dfnum[b] # 0 /\ idom[arr[n]] = dfnum[b] /\ arr[n] # b}
    BY <2>1 DEF Children
  <2>4. QED
    BY <1>1, <2>2, <2>3
<1>3. \A i : i \in Own(b) <=> /\ i \in 1 .. Size /\ Edge(b, arr[i]) /\ idom[arr[i]] # dfnum[b]
  BY OwnIsFront
<1>4. \A n \in dfchildren[b] : arr[n] # 1 /\ Doms(b, arr[n]) /\ arr[n] # b
                               /\ \A a : Doms(a, arr[n]) /\ a # arr[n] => Doms(a, b)
  <2> TAKE n \in dfchildren[b]
  <2>1. n \in 1 .. Size /\ idom[arr[n]] = dfnum[b] /\ arr[n] # b
    BY <1>2
  <2>2. arr[n] # 1
    <3>1. dfnum[b] # 0
      <4>1. dfnum[b] \in 1 .. Size
        BY <1>1
      <4>2. QED
        BY <4>1
    <3>2. QED
      BY <2>1, <3>1 DEF IdomTree
  <2>3. Immediate(idom[arr[n]], arr[n])
    BY <1>1, <2>1, <2>2 DEF IdomTree
  <2>4. arr[idom[arr[n]]] = b
    BY <1>1, <2>1
  <2>5. QED
    BY <2>1, <2>2, <2>3, <2>4 DEF Immediate
<1>5. ASSUME NEW i, i \in Own(b) PROVE i \in Verge(b)
  <2>1. i \in 1 .. Size /\ Edge(b, arr[i]) /\ idom[arr[i]] # dfnum[b]
    BY <1>3, <1>5
  <2>2. PICK c : c = arr[i]
    OBVIOUS
  <2>3. PICK d : d = arr[idom[c]]
    OBVIOUS
  <2>4. c \in Reachable /\ c # 1 /\ Immediate(idom[c], c) /\ Doms(d, b) /\ dfnum[d] = idom[c]
    BY <1>1, <2>1, <2>2, <2>3, OverParent
  <2>5. b = c \/ ~Doms(b, c)
    <3>1. SUFFICES ASSUME b # c, Doms(b, c) PROVE FALSE
      OBVIOUS
    <3>2. Doms(b, d)
      BY <2>3, <2>4, <3>1 DEF Immediate
    <3>3. b = d
      BY <2>4, <3>2, DomAntisymmetric
    <3>4. QED
      BY <2>1, <2>2, <2>4, <3>3
  <2>6. Doms(b, b) /\ b \in Block
    BY <1>1, DomReflexive
  <2>7. QED
    BY <2>1, <2>2, <2>5, <2>6 DEF Verge
<1>6. ASSUME NEW i, i \in U, Passed(b, i) PROVE i \in Verge(b)
  <2>1. PICK n \in dfchildren[b] : i \in Verge(arr[n])
    BY <1>6
  <2>2. PICK m : m = arr[n]
    OBVIOUS
  <2>3. PICK x : x = arr[i]
    OBVIOUS
  <2>4. i \in 1 .. Size /\ (m = x \/ ~Doms(m, x))
    BY <2>1, <2>2, <2>3 DEF Verge
  <2>5. PICK c \in Block : Edge(c, x) /\ Doms(m, c)
    BY <2>1, <2>2, <2>3 DEF Verge
  <2>6. m # 1 /\ Doms(b, m) /\ m # b /\ \A a : Doms(a, m) /\ a # m => Doms(a, b)
    BY <1>4, <2>2
  <2>7. Doms(b, c) /\ c \in Reachable /\ x \in Block
    <3>1. Doms(b, c)
      BY <2>5, <2>6, DomTransitive
    <3>2. QED
      BY <1>1, <2>3, <2>4, <3>1 DEF Doms
  <2>8. b = x \/ ~Doms(b, x)
    <3>1. SUFFICES ASSUME b # x, Doms(b, x) PROVE FALSE
      OBVIOUS
    <3>2. PICK d : d = arr[idom[x]]
      OBVIOUS
    <3>3. Immediate(idom[x], x) /\ Doms(d, c) /\ Doms(d, x) /\ d # x /\ dfnum[d] = idom[x]
      BY <2>5, <2>7, <3>2, OverParent
    <3>4. Doms(b, d)
      BY <3>1, <3>2, <3>3 DEF Immediate
    <3>5. d # b
      BY <1>6, <2>3, <3>1, <3>3 DEF Passed
    <3>6. CASE Doms(d, m)
      <4>1. d = m
        BY <2>6, <3>4, <3>5, <3>6, DomAntisymmetric
      <4>2. QED
        BY <2>4, <3>3, <4>1
    <3>7. CASE Doms(m, d)
      <4>1. Doms(m, x)
        BY <3>3, <3>7, DomTransitive
      <4>2. m = x
        BY <2>4, <4>1
      <4>3. QED
        BY <3>3, <3>7, <4>2, DomAntisymmetric
    <3>8. QED
      BY <2>5, <3>3, <3>6, <3>7, DomComparable
  <2>9. QED
    BY <2>3, <2>4, <2>5, <2>7, <2>8 DEF Verge
<1>7. ASSUME NEW i, i \in Verge(b) PROVE i \in Own(b) \/ (i \in U /\ Passed(b, i))
  <2>1. PICK x : x = arr[i]
    OBVIOUS
  <2>2. i \in 1 .. Size /\ (b = x \/ ~Doms(b, x)) /\ x \in Block
    BY <1>1, <1>7, <2>1 DEF Verge
  <2>3. PICK c \in Block : Edge(c, x) /\ Doms(b, c)
    BY <1>7, <2>1 DEF Verge
  <2>4. c \in Reachable
    BY <2>3 DEF Doms
  <2>5. Immediate(idom[x], x) /\ dfnum[arr[idom[x]]] = idom[x]
    BY <2>2, <2>3, <2>4, OverParent
  <2>6. b = x \/ idom[x] # dfnum[b]
    <3>1. SUFFICES ASSUME b # x, idom[x] = dfnum[b] PROVE FALSE
      OBVIOUS
    <3>2. arr[idom[x]] = b
      BY <1>1, <3>1
    <3>3. Doms(b, x)
      BY <2>5, <3>2 DEF Immediate
    <3>4. QED
      BY <2>2, <3>1, <3>3
  <2>7. Passed(b, i)
    BY <2>1, <2>6 DEF Passed
  <2>8. CASE c = b
    <3>1. idom[x] # dfnum[b]
      <4>1. SUFFICES ASSUME b = x, idom[x] = dfnum[b] PROVE FALSE
        BY <2>6
      <4>2. arr[idom[x]] = b
        BY <1>1, <4>1
      <4>3. QED
        BY <2>5, <4>1, <4>2 DEF Immediate
    <3>2. QED
      BY <1>3, <2>1, <2>2, <2>3, <2>8, <3>1
  <2>9. CASE c # b
    <3>1. PICK z \in Reachable \ {1} : idom[z] = dfnum[b] /\ Doms(z, c) /\ Doms(b, z) /\ z # b
      BY <2>3, <2>9, TreeChild
    <3>2. dfnum[z] \in dfchildren[b] /\ arr[dfnum[z]] = z
      BY <1>1, <1>2, <3>1
    <3>3. z = x \/ ~Doms(z, x)
      <4>1. SUFFICES ASSUME z # x, Doms(z, x) PROVE FALSE
        OBVIOUS
      <4>2. Doms(b, x)
        BY <3>1, <4>1, DomTransitive
      <4>3. b = x
        BY <2>2, <4>2
      <4>4. QED
        BY <3>1, <4>1, <4>3, DomAntisymmetric
    <3>4. i \in Verge(z)
      BY <2>1, <2>2, <2>3, <3>1, <3>3 DEF Verge
    <3>5. i \in U
      BY <3>2, <3>4
    <3>6. QED
      BY <2>7, <3>5
  <2>10. QED
    BY <2>8, <2>9
<1>8. QED
  BY <1>5, <1>6, <1>7

(* A round of computeDF. *)
Gather(b, g) == Own(b) \cup {i \in UNION {g[arr[n]] : n \in dfchildren[b]} : Passed(b, i)}

Frontier(k, g) ==
  IF k > Size THEN g ELSE [g EXCEPT ![arr[Size + 1 - k]] = Gather(arr[Size + 1 - k], g)]

Fronts(f) ==
  /\ f[0] = df
  /\ \A k \in 1 .. NBlocks : f[k - 1] \in [Block -> SUBSET Nat] /\ f[k] = Frontier(k, f[k - 1])
  /\ f[NBlocks] \in [Block -> SUBSET Nat]

LEMMA FrontsSolve ==
  ASSUME NEW A, Tree(A), Children, computeDF, df \in [Block -> SUBSET Nat]
  PROVE  \E f : Fronts(f) /\ df' = f[NBlocks]
<1> DEFINE N == NBlocks
           T == [Block -> SUBSET Nat]
           G == [q \in (1 .. N) \X T |-> Frontier(q[1], q[2])]
           F(g) == [k \in Order |-> IF k = 0 THEN df ELSE Frontier(k, g[k - 1])]
           f == CHOOSE g : g = F(g)
<1>1. N \in Nat /\ Order = 0 .. N
  BY BlockIs DEF Order
<1>2. df \in T
  OBVIOUS
<1>3. \A k \in 1 .. N, g \in T : Frontier(k, g) \in T
  <2> TAKE k \in 1 .. N, g \in T
  <2>1. CASE k > Size
    BY <2>1 DEF Frontier
  <2>2. CASE ~(k > Size)
    <3>1. Size + 1 - k \in 1 .. Size
      BY <2>2, TreeIs
    <3>2. PICK b : b = arr[Size + 1 - k]
      OBVIOUS
    <3>3. b \in Block
      BY <3>1, <3>2, TreeIs
    <3>4. Own(b) \subseteq Nat
      <4>1. \A c : c \in ToSet(child(b)) <=> Edge(b, c)
        BY DEF Edge, ToSet
      <4>2. \A c : Edge(b, c) => c \in Block
        BY <3>3, EdgeInto DEF Tree
      <4>3. \A c \in Block : dfnum[c] \in Nat
        BY DEF Tree
      <4>4. QED
        BY <4>1, <4>2, <4>3 DEF Own
    <3>5. dfchildren[b] \subseteq 1 .. Size
      BY <3>3, TreeIs DEF Children
    <3>6. \A n \in dfchildren[b] : g[arr[n]] \subseteq Nat
      BY <3>5, TreeIs
    <3>7. Gather(b, g) \in SUBSET Nat
      BY <3>4, <3>6 DEF Gather
    <3>8. [g EXCEPT ![b] = Gather(b, g)] \in T
      BY <3>7
    <3>9. QED
      BY <2>2, <3>2, <3>8 DEF Frontier
  <2>3. QED
    BY <2>1, <2>2
<1>4. G \in [(1 .. N) \X T -> T]
  BY <1>3
<1>5. \A k \in 1 .. N, x \in T : G[<<k, x>>] = Frontier(k, x)
  <2> HIDE DEF T, N
  <2>1. QED
    OBVIOUS
<1>6. df' = f[N]
  BY DEF computeDF, Frontier, Gather
<1> HIDE DEF G, N, T
<1>7. PICK g : Solves(g, T, df, G, N)
  BY <1>1, <1>2, <1>4, FunctionExists
<1>8. \A k \in 0 .. N : k = 0 \/ k \in 1 .. N
  BY <1>1
<1>9. \A k \in 1 .. N : g[k - 1] \in T /\ g[k] = Frontier(k, g[k - 1])
  <2>1. \A k \in 1 .. N : g[k - 1] \in T /\ g[k] = G[<<k, g[k - 1]>>]
    BY <1>7 DEF Solves
  <2>2. QED
    BY <1>5, <2>1
<1>10. g[0] = df /\ g = [k \in Order |-> g[k]]
  BY <1>1, <1>7 DEF Solves
<1>11. g = F(g)
  <2>1. \A k \in Order : g[k] = IF k = 0 THEN df ELSE Frontier(k, g[k - 1])
    BY <1>1, <1>8, <1>9, <1>10
  <2>2. QED
    BY <1>10, <2>1
<1>12. f = F(f)
  <2> HIDE DEF F
  <2>1. QED
    BY <1>11
<1> HIDE DEF f
<1>13. f[0] = df /\ \A k \in 1 .. N : f[k] = Frontier(k, f[k - 1])
  <2>1. 0 \in Order /\ \A k \in 1 .. N : k \in Order /\ k # 0
    BY <1>1
  <2>2. QED
    BY <1>12, <2>1
<1> DEFINE S == {k \in Nat : k <= N => f[k] \in T}
<1>14. 0 \in S
  BY <1>2, <1>13
<1>15. ASSUME NEW k \in Nat, k \in S PROVE k + 1 \in S
  <2>1. SUFFICES ASSUME k + 1 <= N PROVE f[k + 1] \in T
    OBVIOUS
  <2>2. k + 1 \in 1 .. N /\ (k + 1) - 1 = k /\ k <= N
    BY <1>1, <2>1
  <2>3. f[k] \in T
    BY <1>15, <2>2
  <2>4. QED
    BY <1>3, <1>13, <2>2, <2>3
<1> HIDE DEF S
<1>16. Nat \subseteq S
  BY <1>14, <1>15, SetInduction
<1>17. \A k \in 0 .. N : f[k] \in T
  BY <1>16 DEF S
<1>18. \A k \in 1 .. N : k - 1 \in 0 .. N
  BY <1>1
<1>19. Fronts(f)
  <2>1. N \in 0 .. N
    BY <1>1
  <2>2. QED
    BY <1>13, <1>17, <1>18, <2>1 DEF Fronts, N, T
<1>20. QED
  BY <1>6, <1>19 DEF N

(* The frontiers are those of the definition. *)
Frontiers(g) ==
  /\ g \in [Block -> SUBSET Nat]
  /\ \A b \in Reachable : g[b] = Verge(b)
  /\ \A b \in Block \ Reachable : g[b] = {}

LEMMA FrontiersFound ==
  ASSUME NEW A, DfInv(A), computeDF
  PROVE  Frontiers(df')
<1>1. /\ Tree(A) /\ IdomTree /\ Children /\ df = [b \in Block |-> {}]
      /\ df \in [Block -> SUBSET Nat]
  BY DEF DfInv, NoFrontier
<1>2. PICK f : Fronts(f) /\ df' = f[NBlocks]
  BY <1>1, FrontsSolve
<1>3. PICK n : n = Size
  OBVIOUS
<1>4. /\ \A i \in 1 .. n : arr[i] \in Block /\ arr[i] \in Reachable /\ dfnum[arr[i]] = i
      /\ \A i, j \in 1 .. n : arr[i] = arr[j] => i = j
      /\ n \in Nat /\ NBlocks \in Nat /\ n <= NBlocks /\ DOMAIN arr = 1 .. n
      /\ \A b \in Reachable : b \in Block /\ dfnum[b] \in 1 .. n /\ arr[dfnum[b]] = b
  BY <1>1, <1>3, TreeIs
<1>5. f[0] = df /\ \A k \in 1 .. NBlocks : f[k - 1] \in [Block -> SUBSET Nat] /\ f[k] = Frontier(k, f[k - 1])
  BY <1>2 DEF Fronts
<1> DEFINE Good(g, k) == /\ \A v \in 1 .. n : v + k > n => g[arr[v]] = Verge(arr[v])
                         /\ \A b \in Block \ Reachable : g[b] = {}
           S == {k \in Nat : k <= NBlocks => Good(f[k], k)}
<1>6. 0 \in S
  <2>1. \A v \in 1 .. n : ~(v + 0 > n)
    BY <1>4
  <2>2. QED
    BY <1>1, <1>5, <2>1
<1>7. ASSUME NEW k \in Nat, k \in S PROVE k + 1 \in S
  <2>1. SUFFICES ASSUME k + 1 <= NBlocks PROVE Good(f[k + 1], k + 1)
    OBVIOUS
  <2>2. k + 1 \in 1 .. NBlocks /\ (k + 1) - 1 = k /\ k <= NBlocks
    BY <1>4, <2>1
  <2>3. PICK g : g = f[k]
    OBVIOUS
  <2>4. Good(g, k) /\ g \in [Block -> SUBSET Nat] /\ f[k + 1] = Frontier(k + 1, g)
    BY <1>5, <1>7, <2>2, <2>3
  <2>5. CASE k + 1 > n
    <3>1. f[k + 1] = g
      BY <1>3, <2>4, <2>5 DEF Frontier
    <3>2. \A v \in 1 .. n : v + k > n
      BY <1>4, <2>5
    <3>3. QED
      BY <2>4, <3>1, <3>2
  <2>6. CASE ~(k + 1 > n)
    <3>1. PICK m : m = n + 1 - (k + 1)
      OBVIOUS
    <3>2. m \in 1 .. n /\ \A v \in 1 .. n : (v + (k + 1) > n <=> v = m \/ v + k > n) /\ (v > m => v + k > n)
      BY <1>4, <2>6, <3>1
    <3>3. PICK b : b = arr[m]
      OBVIOUS
    <3>4. b \in Block /\ b \in Reachable /\ dfnum[b] = m
      BY <1>4, <3>2, <3>3
    <3>5. f[k + 1] = [g EXCEPT ![b] = Gather(b, g)]
      BY <1>3, <2>4, <2>6, <3>1, <3>3 DEF Frontier
    <3>6. \A i \in dfchildren[b] : g[arr[i]] = Verge(arr[i])
      <4> TAKE i \in dfchildren[b]
      <4>1. i \in 1 .. n /\ idom[arr[i]] = m /\ arr[i] # b
        BY <1>1, <1>4, <3>4 DEF Children
      <4>2. arr[i] # 1
        BY <1>1, <3>2, <4>1 DEF IdomTree
      <4>3. m \in 1 .. i - 1
        BY <1>1, <1>4, <4>1, <4>2 DEF IdomTree, Immediate
      <4>4. i > m
        BY <4>1, <4>3
      <4>5. QED
        BY <2>4, <3>2, <4>1, <4>4
    <3>7. PICK U : U = UNION {g[arr[i]] : i \in dfchildren[b]}
      OBVIOUS
    <3>8. \A i : i \in U <=> \E j \in dfchildren[b] : i \in Verge(arr[j])
      BY <3>6, <3>7
    <3>9. Own(b) \cup {i \in U : Passed(b, i)} = Verge(b)
      BY <1>1, <3>4, <3>8, FrontStep
    <3>10. Gather(b, g) = Verge(b)
      BY <3>7, <3>9 DEF Gather
    <3>11. /\ f[k + 1][b] = Verge(b)
           /\ \A c \in Block : c # b => f[k + 1][c] = g[c]
      BY <2>4, <3>4, <3>5, <3>10
    <3>12. ASSUME NEW v \in 1 .. n, v + (k + 1) > n PROVE f[k + 1][arr[v]] = Verge(arr[v])
      <4>1. CASE v = m
        BY <3>3, <3>11, <4>1
      <4>2. CASE v # m
        <5>1. arr[v] # b /\ arr[v] \in Block /\ v + k > n
          BY <1>4, <3>2, <3>3, <3>12, <4>2
        <5>2. QED
          BY <2>4, <3>11, <5>1
      <4>3. QED
        BY <4>1, <4>2
    <3>13. \A c \in Block \ Reachable : f[k + 1][c] = {}
      BY <2>4, <3>4, <3>11
    <3>14. QED
      BY <3>12, <3>13
  <2>7. QED
    BY <2>5, <2>6
<1> HIDE DEF S
<1>8. NBlocks \in S
  BY <1>4, <1>6, <1>7, SetInduction
<1>9. Good(f[NBlocks], NBlocks)
  BY <1>4, <1>8 DEF S
<1>10. \A v \in 1 .. n : v + NBlocks > n
  BY <1>4
<1>11. \A b \in Reachable : f[NBlocks][b] = Verge(b)
  BY <1>4, <1>9, <1>10
<1>12. QED
  BY <1>2, <1>9, <1>11 DEF Frontiers, Fronts

LEMMA FrontierRightIs ==
  ASSUME NEW A, Tree(A), Frontiers(df)
  PROVE  FrontierRight
<1>1. PICK D : D = Dom
  OBVIOUS
<1>2. \A x, y : <<x, y>> \in D <=> Doms(x, y)
  BY <1>1, DomIs
<1>3. SUFFICES ASSUME NEW a \in Reachable
               PROVE  {arr[i] : i \in df[a]} =
                        {b \in Block : /\ a = b \/ <<a, b>> \notin D
                                       /\ \E c \in Block : Edge(c, b) /\ <<a, c>> \in D}
  BY <1>1 DEF FrontierRight
<1>4. df[a] = Verge(a)
  BY DEF Frontiers
<1>5. ASSUME NEW i \in Verge(a)
      PROVE  arr[i] \in Block /\ (a = arr[i] \/ ~Doms(a, arr[i])) /\ \E c \in Block : Edge(c, arr[i]) /\ Doms(a, c)
  BY TreeIs DEF Verge
<1>6. ASSUME NEW b \in Block, a = b \/ ~Doms(a, b), NEW c \in Block, Edge(c, b), Doms(a, c)
      PROVE  \E i \in Verge(a) : b = arr[i]
  <2>1. b \in Reachable
    BY <1>6, ReachableIs DEF Doms
  <2>2. dfnum[b] \in 1 .. Size /\ arr[dfnum[b]] = b
    BY <2>1, TreeIs
  <2>3. dfnum[b] \in Verge(a)
    BY <1>6, <2>2 DEF Verge
  <2>4. QED
    BY <2>2, <2>3
<1>7. PICK L : L = {arr[i] : i \in Verge(a)}
  OBVIOUS
<1>8. PICK R : R = {b \in Block : /\ a = b \/ ~Doms(a, b)
                                 /\ \E c \in Block : Edge(c, b) /\ Doms(a, c)}
  OBVIOUS
<1>9. \A b : b \in L => b \in R
  BY <1>5, <1>7, <1>8
<1>10. \A b : b \in R => b \in L
  BY <1>6, <1>7, <1>8
<1>11. L = R
  BY <1>9, <1>10
<1>12. R = {b \in Block : /\ a = b \/ <<a, b>> \notin D
                         /\ \E c \in Block : Edge(c, b) /\ <<a, c>> \in D}
  BY <1>2, <1>8
<1>13. QED
  BY <1>4, <1>7, <1>11, <1>12

(* The tree and the frontiers, when they are found. *)
Complete(A) == Tree(A) /\ IdomTree /\ Children /\ Frontiers(df)

DomInv ==
  /\ pc \in {"dfs", "semi", "df", "phi", "place", "rename", "run"}
  /\ pc = "dfs" => Fresh
  /\ pc = "semi" => \E A : SemiInv(A)
  /\ pc = "df" => \E A : DfInv(A)
  /\ pc \in {"phi", "place", "rename", "run"} => \E A : Complete(A)

LEMMA FrontiersLater ==
  ASSUME jump' = jump, ip_labels' = ip_labels, arr' = arr, Reachable' = Reachable
  PROVE  \A g : Frontiers(g) => Frontiers(g)'
<1>1. \A a, b : (Doms(a, b)' <=> Doms(a, b)) /\ (Edge(a, b)' <=> Edge(a, b))
  BY DomsLater, EdgeLater
<1>2. Size' = Size
  BY DEF Size
<1>3. \A a : Verge(a)' = Verge(a)
  BY <1>1, <1>2 DEF Verge
<1>4. QED
  BY <1>3 DEF Frontiers

LEMMA IdomLater ==
  ASSUME IdomTree, Children, jump' = jump, ip_labels' = ip_labels, arr' = arr, dfnum' = dfnum, idom' = idom,
         dfchildren' = dfchildren, Reachable' = Reachable
  PROVE  (IdomTree /\ Children)'
<1>1. \A i, b : Immediate(i, b)' <=> Immediate(i, b)
  BY ImmediateLater
<1>2. IdomTree'
  BY <1>1 DEF IdomTree
<1>3. QED
  BY <1>2 DEF Children

LEMMA ComputeDFRight ==
  ASSUME NEW A, DfInv(A), computeDF
  PROVE  Complete(A)'
<1>1. Frontiers(df')
  BY FrontiersFound
<1>2. /\ jump' = jump /\ ip_labels' = ip_labels /\ arr' = arr /\ dfnum' = dfnum /\ dfparent' = dfparent
      /\ idom' = idom /\ dfchildren' = dfchildren
  BY DEF computeDF
<1>3. Tree(A) /\ IdomTree /\ Children
  BY DEF DfInv
<1>4. Tree(A)' /\ Reachable' = Reachable
  BY <1>2, <1>3, TreeLater
<1>5. (IdomTree /\ Children)'
  BY <1>2, <1>3, <1>4, IdomLater
<1>6. PICK g : g = df'
  OBVIOUS
<1>7. Frontiers(g)'
  BY <1>1, <1>2, <1>4, <1>6, FrontiersLater
<1>8. Frontiers(df)'
  BY <1>6, <1>7 DEF Frontiers
<1>9. QED
  BY <1>4, <1>5, <1>8 DEF Complete

LEMMA CompleteLater ==
  ASSUME NEW A, Complete(A), UNCHANGED domvars
  PROVE  Complete(A)'
<1>1. /\ jump' = jump /\ ip_labels' = ip_labels /\ arr' = arr /\ dfnum' = dfnum /\ dfparent' = dfparent
      /\ idom' = idom /\ dfchildren' = dfchildren /\ df' = df
  BY DEF domvars
<1>2. Tree(A) /\ IdomTree /\ Children /\ Frontiers(df)
  BY DEF Complete
<1>3. Tree(A)' /\ Reachable' = Reachable
  BY <1>1, <1>2, TreeLater
<1>4. (IdomTree /\ Children)'
  BY <1>1, <1>2, <1>3, IdomLater
<1>5. PICK g : g = df
  OBVIOUS
<1>6. Frontiers(g)'
  BY <1>1, <1>2, <1>3, <1>5, FrontiersLater
<1>7. Frontiers(df)'
  BY <1>1, <1>5, <1>6 DEF Frontiers
<1>8. QED
  BY <1>3, <1>4, <1>7 DEF Complete

LEMMA FunctionIsSeq ==
  ASSUME NEW S, NEW n \in Nat, NEW q \in [1 .. n -> S]
  PROVE  q \in Seq(S)
OBVIOUS

LEMMA DomStart ==
  ASSUME Init
  PROVE  DomInv
<1>1. DomInit
  BY DEF Init
<1>2. pc = "dfs" /\ jump \in [Block -> Jump] /\ ip_labels \in Taken
  BY <1>1 DEF DomInit
<1>a. JumpsRight
  <2>a. PICK n \in 0 .. MaxTaken : ip_labels \in [1 .. n -> 2 .. NBlocks - 1]
    BY <1>2 DEF Taken
  <2>1. n \in Nat /\ ip_labels \in [1 .. n -> 2 .. NBlocks - 1]
    BY <2>a, DominatorsAssumption
  <2>2. 2 .. NBlocks - 1 \subseteq 2 .. NBlocks
    BY BlockIs
  <2>3. ip_labels \in [1 .. n -> 2 .. NBlocks]
    BY <2>1, <2>2
  <2>4. ip_labels \in Seq(2 .. NBlocks)
    BY <2>1, <2>3, FunctionIsSeq
  <2>5. QED
    BY <1>2, <2>4 DEF JumpsRight
<1>3. Fresh
  BY <1>1, <1>a DEF DomInit, Fresh
<1>4. QED
  BY <1>2, <1>3 DEF DomInv

LEMMA DomStep ==
  ASSUME DomInv, [Next]_vars
  PROVE  DomInv'
<1>1. CASE cfg_dfs
  <2>1. Fresh /\ pc' = "semi"
    BY <1>1 DEF DomInv, cfg_dfs
  <2>2. \E A : SemiInv(A)'
    BY <1>1, <2>1, DfsSemi
  <2>3. QED
    BY <2>1, <2>2 DEF DomInv
<1>2. CASE Semi
  <2>1. pc = "semi" /\ pc' = "semi"
    BY <1>2 DEF Semi
  <2>2. PICK A : SemiInv(A)
    BY <2>1 DEF DomInv
  <2>3. SemiInv(A)'
    BY <1>2, <2>2, SemiKeeps
  <2>4. QED
    BY <2>1, <2>3 DEF DomInv
<1>3. CASE SameDom
  <2>1. pc = "semi" /\ pc' = "df"
    BY <1>3 DEF SameDom
  <2>2. PICK A : SemiInv(A)
    BY <2>1 DEF DomInv
  <2>3. DfInv(A)'
    BY <1>3, <2>2, SameDomRight
  <2>4. QED
    BY <2>1, <2>3 DEF DomInv
<1>4. CASE computeDF
  <2>1. pc = "df" /\ pc' = "phi"
    BY <1>4 DEF computeDF
  <2>2. PICK A : DfInv(A)
    BY <2>1 DEF DomInv
  <2>3. Complete(A)'
    BY <1>4, <2>2, ComputeDFRight
  <2>4. QED
    BY <2>1, <2>3 DEF DomInv
<1>5. CASE /\ UNCHANGED domvars
           /\ pc \in {"phi", "place", "rename", "run"}
           /\ pc' \in {"phi", "place", "rename", "run"}
  <2>1. PICK A : Complete(A)
    BY <1>5 DEF DomInv
  <2>2. Complete(A)'
    BY <1>5, <2>1, CompleteLater
  <2>3. QED
    BY <1>5, <2>2 DEF DomInv
<1>6. CASE UNCHANGED vars
  <2>1. UNCHANGED domvars /\ UNCHANGED pc
    BY <1>6 DEF vars
  <2>2. CASE pc \in {"phi", "place", "rename", "run"}
    BY <1>5, <2>1, <2>2
  <2>3. /\ jump' = jump /\ ip_labels' = ip_labels /\ arr' = arr /\ dfnum' = dfnum /\ dfparent' = dfparent
        /\ idom' = idom /\ dfchildren' = dfchildren /\ df' = df /\ semi' = semi
        /\ ancestor' = ancestor /\ samedom' = samedom /\ bucket' = bucket /\ h' = h
    BY <2>1 DEF domvars
  <2>4. CASE pc = "dfs"
    <3>1. Fresh
      BY <2>4 DEF DomInv
    <3>2. Fresh'
      BY <2>3, <3>1 DEF Fresh, JumpsRight
    <3>3. QED
      BY <2>1, <2>4, <3>2 DEF DomInv
  <2>5. CASE pc = "semi"
    <3>1. PICK A : SemiInv(A)
      BY <2>5 DEF DomInv
    <3>2. Tree(A)
      BY <3>1 DEF SemiInv
    <3>3. Tree(A)' /\ Size' = Size /\ Parent' = Parent /\ NumEdges(arr)' = NumEdges(arr)
      BY <2>3, <3>2, TreeLater
    <3>4. Arrays' /\ (h \in 1 .. Size)'
      BY <2>3, <3>1, <3>3 DEF SemiInv, Arrays
    <3>5. LinkedFrom(h + 1, ancestor)'
      BY <2>3, <3>1, <3>3 DEF SemiInv, LinkedFrom
    <3>6. /\ ByNumber(semi)' = ByNumber(semi) /\ ByNumber(idom)' = ByNumber(idom)
          /\ ByNumber(samedom)' = ByNumber(samedom) /\ ByNumber(bucket)' = ByNumber(bucket)
      BY <2>3, <3>3 DEF ByNumber
    <3>7. Semis(Size, NumEdges(arr), Parent, A, ByNumber(semi), h + 1)'
      BY <2>3, <3>1, <3>3, <3>6 DEF SemiInv
    <3>8. Buckets(Size, Parent, A, ByNumber(semi), h, ByNumber(idom), ByNumber(samedom),
                  ByNumber(bucket))'
      BY <2>3, <3>1, <3>3, <3>6 DEF SemiInv
    <3>9. SemiInv(A)'
      BY <3>3, <3>4, <3>5, <3>7, <3>8 DEF SemiInv
    <3>10. QED
      BY <2>1, <2>5, <3>9 DEF DomInv
  <2>6. CASE pc = "df"
    <3>1. PICK A : DfInv(A)
      BY <2>6 DEF DomInv
    <3>2. Tree(A) /\ IdomTree /\ Children /\ NoFrontier
      BY <3>1 DEF DfInv
    <3>3. Tree(A)' /\ Reachable' = Reachable
      BY <2>3, <3>2, TreeLater
    <3>4. (IdomTree /\ Children)'
      BY <2>3, <3>2, <3>3, IdomLater
    <3>5. NoFrontier'
      BY <2>3, <3>2 DEF NoFrontier
    <3>6. DfInv(A)'
      BY <3>3, <3>4, <3>5 DEF DfInv
    <3>7. QED
      BY <2>1, <2>6, <3>6 DEF DomInv
  <2>7. QED
    BY <2>2, <2>4, <2>5, <2>6 DEF DomInv
<1>7. CASE liveanal
  BY <1>5, <1>7 DEF liveanal
<1>8. CASE placePhiFunctions
  BY <1>5, <1>8 DEF placePhiFunctions
<1>9. CASE renamevar
  BY <1>5, <1>9 DEF renamevar
<1>10. CASE removephi
  BY <1>5, <1>10 DEF removephi
<1>11. CASE Run
  BY <1>5, <1>11 DEF Run
<1>12. CASE Returned
  BY <1>6, <1>12 DEF Returned
<1>13. QED
  BY <1>1, <1>2, <1>3, <1>4, <1>6, <1>7, <1>8, <1>9, <1>10, <1>11, <1>12
     DEF Next, Dominate, DomNext

(* In every state of dominators and computeDF what they have found so far  *)
(* is right: the depth-first tree, the semi-dominators of the blocks done, *)
(* then the dominator tree and the frontiers, which nothing changes later. *)
THEOREM DomAlways == Spec => []DomInv
<1>1. QED
  BY DomStart, DomStep, PTL DEF Spec

(* What dominators leaves in idom is the immediate dominator of each       *)
(* reachable block by its definition: among the blocks on every way from   *)
(* the first to it, other than itself, the one the others dominate.        *)
THEOREM IdomAlwaysRight == Spec => []IdomRight
<1>1. ASSUME DomInv PROVE IdomRight
  <2>1. CASE pc = "df"
    <3>1. PICK A : DfInv(A)
      BY <1>1, <2>1 DEF DomInv
    <3>2. Tree(A) /\ IdomTree
      BY <3>1 DEF DfInv
    <3>3. QED
      BY <3>2, IdomRightIs
  <2>2. CASE pc # "df"
    BY <2>2 DEF IdomRight
  <2>3. QED
    BY <2>1, <2>2
<1>2. QED
  BY <1>1, DomAlways, PTL

(* What computeDF leaves in df is the dominance frontier by its            *)
(* definition: of a reachable block, the blocks it does not strictly       *)
(* dominate although it dominates one of their parents.                    *)
THEOREM FrontierAlwaysRight == Spec => []FrontierRight
<1>1. ASSUME DomInv PROVE FrontierRight
  <2>1. CASE pc = "phi"
    <3>1. PICK A : Complete(A)
      BY <1>1, <2>1 DEF DomInv
    <3>2. Tree(A) /\ Frontiers(df)
      BY <3>1 DEF Complete
    <3>3. QED
      BY <3>2, FrontierRightIs
  <2>2. CASE pc # "phi"
    BY <2>2 DEF FrontierRight
  <2>3. QED
    BY <2>1, <2>2
<1>2. QED
  BY <1>1, DomAlways, PTL

-----------------------------------------------------------------------------
(* A variable's way: S are the blocks that give it another version, by an  *)
(* assignment or a phi function, V[x] its version at the end of block x.   *)
(* The edges into a block without a phi function all bring the version of  *)
(* the immediate dominator.                                                *)
LEMMA SameVersion ==
  ASSUME NEW A, Complete(A), NEW V, NEW S,
         \A n \in S : \A i \in df[n] : arr[i] \in in => arr[i] \in phi,
         \A x \in Reachable \ S : x # 1 => V[x] = V[arr[idom[x]]],
         NEW a \in Reachable, NEW b \in in, b \notin phi, Edge(a, b)
  PROVE  V[a] = V[arr[idom[b]]]
<1>1. Tree(A) /\ IdomTree /\ Frontiers(df)
  BY DEF Complete
<1>2. a \in Block /\ b \in Block /\ b # 1 /\ b \in Reachable
  <2>1. a \in Block
    BY ReachableIs
  <2>2. b \in Block /\ b # 1
    BY <1>1, <2>1, EdgeInto DEF Tree
  <2>3. QED
    BY <2>1, <2>2, ReachableIs
<1>3. PICK d : d = arr[idom[b]]
  OBVIOUS
<1>4. Doms(d, b) /\ d # b /\ \A x : Doms(x, b) /\ x # b => Doms(x, d)
  BY <1>1, <1>2, <1>3 DEF IdomTree, Immediate
<1>5. Doms(d, a)
  BY <1>4, DomOverEdge
<1>6. \A x \in Reachable : dfnum[x] \in 1 .. Size /\ arr[dfnum[x]] = x /\ dfnum[x] \in Nat /\ dfnum[x] > 0
  <2>1. \A x \in Reachable : dfnum[x] \in 1 .. Size /\ arr[dfnum[x]] = x
    BY <1>1, TreeIs
  <2>2. \A k \in 1 .. Size : k \in Nat /\ k > 0
    OBVIOUS
  <2>3. QED
    BY <2>1, <2>2
<1>7. ASSUME NEW x \in Reachable, Doms(d, x), Doms(x, a), x # d PROVE x # 1 /\ x \notin S
  <2>1. x # 1
    BY <1>7, DomReflexive, DomAntisymmetric DEF Doms
  <2>2. x = b \/ ~Doms(x, b)
    BY <1>4, <1>7, DomAntisymmetric
  <2>3. dfnum[b] \in Verge(x)
    BY <1>2, <1>6, <1>7, <2>2 DEF Verge
  <2>4. dfnum[b] \in df[x] /\ arr[dfnum[b]] = b
    BY <1>1, <1>2, <1>6, <2>3 DEF Frontiers
  <2>5. QED
    BY <2>1, <2>4
<1> DEFINE T == {m \in Nat : \A x \in Reachable :
                   dfnum[x] <= m /\ Doms(d, x) /\ Doms(x, a) => V[x] = V[d]}
<1>8. 0 \in T
  BY <1>6
<1>9. ASSUME NEW m \in Nat, m \in T PROVE m + 1 \in T
  <2>1. SUFFICES ASSUME NEW x \in Reachable, dfnum[x] <= m + 1, Doms(d, x), Doms(x, a), x # d
                 PROVE  V[x] = V[d]
    OBVIOUS
  <2>2. x # 1 /\ x \notin S
    BY <1>7, <2>1
  <2>3. PICK y : y = arr[idom[x]]
    OBVIOUS
  <2>4. /\ idom[x] \in 1 .. dfnum[x] - 1 /\ idom[x] \in 1 .. Size /\ Doms(y, x)
        /\ \A z : Doms(z, x) /\ z # x => Doms(z, y)
    BY <1>1, <2>2, <2>3 DEF IdomTree, Immediate
  <2>5. dfnum[y] = idom[x] /\ y \in Reachable
    BY <1>1, <2>3, <2>4, TreeIs
  <2>6. dfnum[y] <= m
    BY <1>6, <2>1, <2>4, <2>5
  <2>7. Doms(d, y)
    BY <2>1, <2>4
  <2>8. Doms(y, a)
    BY <2>1, <2>4, DomTransitive
  <2>9. V[y] = V[d]
    BY <1>9, <2>5, <2>6, <2>7, <2>8
  <2>10. QED
    BY <2>2, <2>3, <2>9
<1> HIDE DEF T
<1>10. dfnum[a] \in T
  BY <1>6, <1>8, <1>9, SetInduction
<1>11. Doms(a, a) /\ dfnum[a] <= dfnum[a]
  BY <1>6, DomReflexive
<1>12. QED
  BY <1>3, <1>5, <1>10, <1>11 DEF T

-----------------------------------------------------------------------------
(* The blocks a variable is live into: those that read it first, and those *)
(* that lead to one without assigning it.                                  *)
Live == /\ \A b \in Block : reads(b) => b \in in
        /\ \A a, b \in Block : b \in in /\ Edge(a, b) => a \in in \/ writes(a)

(* What liveanal makes of a program that is given.                         *)
LEMMA LiveInIs ==
  ASSUME NEW f, NEW gen, gen = {b \in Block : f[b] \in {"read", "update"}}
  PROVE  /\ gen \subseteq LiveIn(f)
         /\ \A a, b \in Block : b \in LiveIn(f) /\ Edge(a, b) /\ f[a] = "none" => a \in LiveIn(f)
<1> DEFINE T == SUBSET Block
           To(X) == gen \cup {b \in Block : f[b] = "none" /\ \E c \in X : Edge(b, c)}
           D == [X \in T |-> To(X)]
           G == [q \in (1 .. NBlocks) \X T |-> To(q[2])]
           F(g) == [k \in Order |-> IF k = 0 THEN gen ELSE To(g[k - 1])]
           l == CHOOSE g : g = F(g)
<1>1. NBlocks \in Nat /\ 1 \in Block /\ IsFiniteSet(Block) /\ Cardinality(Block) <= NBlocks
  BY BlockIs
<1>2. \A X \in T : To(X) \in T
  OBVIOUS
<1>3. gen \in T
  BY <1>1
<1>4. G \in [(1 .. NBlocks) \X T -> T] /\ D \in [T -> T]
  <2> HIDE DEF To, T
  <2>1. QED
    BY <1>2
<1>5. \A k \in 1 .. NBlocks, X \in T : G[<<k, X>>] = To(X) /\ D[X] = To(X)
  <2> HIDE DEF To, T
  <2>1. QED
    OBVIOUS
<1>6. LiveIn(f) = l[NBlocks]
  BY DEF LiveIn
<1>7. \A X, Y \in T : X \subseteq Y => To(X) \subseteq To(Y)
  OBVIOUS
<1>8. \A X \in T : gen \subseteq To(X)
  OBVIOUS
<1> HIDE DEF G, D, To, T
<1>9. PICK g : Solves(g, T, gen, G, NBlocks)
  BY <1>1, <1>3, <1>4, FunctionExists
<1>10. \A k \in 0 .. NBlocks : k = 0 \/ k \in 1 .. NBlocks
  BY <1>1
<1>11. \A k \in Order : g[k] = F(g)[k]
  <2>1. /\ g[0] = gen
        /\ \A k \in 1 .. NBlocks : g[k - 1] \in T /\ g[k] = G[<<k, g[k - 1]>>]
    BY <1>9 DEF Solves
  <2>2. \A k \in 1 .. NBlocks : g[k] = To(g[k - 1])
    BY <1>5, <2>1
  <2>3. QED
    BY <1>10, <2>1, <2>2 DEF Order
<1>12. g = F(g)
  <2>1. g = [k \in Order |-> g[k]]
    BY <1>9 DEF Order, Solves
  <2>2. QED
    BY <1>11, <2>1
<1>13. l = F(l)
  <2> HIDE DEF F
  <2>1. QED
    BY <1>12
<1> HIDE DEF l
<1>14. Solves(l, T, gen, G, NBlocks)
  <2>1. \A k \in Order : l[k] = IF k = 0 THEN gen ELSE To(l[k - 1])
    BY <1>13
  <2>2. l = [k \in 0 .. NBlocks |-> l[k]]
    BY <1>13 DEF Order
  <2> HIDE DEF F
  <2>3. 0 \in Order /\ \A k \in 1 .. NBlocks : k \in Order /\ k # 0
    BY <1>1 DEF Order
  <2>4. l[0] = gen /\ \A k \in 1 .. NBlocks : l[k] = To(l[k - 1])
    BY <2>1, <2>3
  <2>5. \A k \in 1 .. NBlocks : l[k - 1] \in T => l[k] = G[<<k, l[k - 1]>>]
    BY <1>5, <2>4
  <2>6. QED
    BY <1>1, <1>3, <1>4, <2>2, <2>4, <2>5, FunctionSolves
<1>15. \A X, Y \in T : X \subseteq Y => D[X] \subseteq D[Y]
  BY <1>1, <1>5, <1>7 DEF D
<1>16. l[0] = gen /\ l[0] \subseteq D[l[0]] /\ \A k \in 1 .. NBlocks : l[k] = D[l[k - 1]]
  <2>1. \A X \in T : D[X] = To(X) /\ gen \subseteq To(X)
    BY <1>8 DEF D
  <2>2. /\ l[0] = gen
        /\ \A k \in 1 .. NBlocks : l[k - 1] \in T /\ l[k] = G[<<k, l[k - 1]>>]
    BY <1>14 DEF Solves
  <2>3. \A k \in 1 .. NBlocks : l[k] = To(l[k - 1])
    BY <1>5, <2>2
  <2>4. \A k \in 1 .. NBlocks : l[k] = D[l[k - 1]]
    BY <2>1, <2>2, <2>3
  <2>5. QED
    BY <1>3, <2>1, <2>2, <2>4
<1>17. Settles(l[NBlocks], l[0], D, Block)
  <2>1. D \in [SUBSET Block -> SUBSET Block] /\ l \in [0 .. NBlocks -> SUBSET Block]
    BY <1>4, <1>14 DEF T, Solves
  <2>2. \A X, Y \in SUBSET Block : X \subseteq Y => D[X] \subseteq D[Y]
    BY <1>15 DEF T
  <2>3. QED
    BY <1>1, <1>16, <2>1, <2>2, GrowthSettles
<1>18. PICK R : R = l[NBlocks]
  OBVIOUS
<1>19. R \in T /\ To(R) = R
  <2>1. R \in T
    <3>1. NBlocks \in 0 .. NBlocks
      BY <1>1
    <3>2. QED
      BY <1>14, <1>18, <3>1 DEF Solves
  <2>2. QED
    BY <1>17, <1>18, <2>1 DEF D, Settles
<1>20. gen \subseteq R
  BY <1>8, <1>19
<1>21. \A a, b \in Block : b \in R /\ Edge(a, b) /\ f[a] = "none" => a \in R
  BY <1>19 DEF To
<1>22. QED
  BY <1>6, <1>18, <1>20, <1>21

-----------------------------------------------------------------------------
(* A round of placePhiFunctions: the blocks in W are still to be looked    *)
(* at, of those that ever were in it.                                      *)
Ends(n) == {arr[i] : i \in df[n]}

PlaceRound(s) ==
  LET n == CHOOSE b \in s.W : TRUE
      y == Ends(n) \ s.Aphi
  IN IF s.W = {} THEN s
     ELSE [W |-> (s.W \ {n}) \cup ((y \cap in) \ Aorig),
           Aphi |-> s.Aphi \cup y,
           phi |-> s.phi \cup (y \cap in)]

PlaceState == [W : SUBSET Block, Aphi : SUBSET Block, phi : SUBSET Block]

Placing(s) ==
  /\ s \in PlaceState /\ s.phi = s.Aphi \cap in /\ 1 \notin s.Aphi
  /\ \A n \in (Aorig \cup s.phi) \ s.W : Ends(n) \subseteq s.Aphi

Work(s) == Cardinality(s.W) + NBlocks - Cardinality(s.Aphi)

(* A frontier has no block outside the graph, and never the first.         *)
LEMMA EndsAre ==
  ASSUME NEW A, Complete(A), NEW n \in Block
  PROVE  Ends(n) \subseteq Block \ {1}
<1>1. Tree(A) /\ Frontiers(df)
  BY DEF Complete
<1>2. CASE n \notin Reachable
  <2>1. df[n] = {}
    BY <1>1, <1>2 DEF Frontiers
  <2>2. QED
    BY <2>1 DEF Ends
<1>3. CASE n \in Reachable
  <2>1. df[n] = Verge(n)
    BY <1>1, <1>3 DEF Frontiers
  <2>2. ASSUME NEW i \in Verge(n) PROVE arr[i] \in Block \ {1}
    <3>1. i \in 1 .. Size /\ \E c \in Block : Edge(c, arr[i])
      BY DEF Verge
    <3>2. QED
      BY <1>1, <3>1, EdgeInto DEF Tree
  <2>3. QED
    BY <2>1, <2>2 DEF Ends
<1>4. QED
  BY <1>2, <1>3

(* A round keeps Placing and brings the end nearer: a block leaves W, or   *)
(* blocks join Aphi that were not in it.                                   *)
LEMMA PlaceStep ==
  ASSUME NEW A, Complete(A), NEW s, Placing(s), s.W # {}
  PROVE  Placing(PlaceRound(s)) /\ Work(PlaceRound(s)) + 1 <= Work(s)
<1>1. PICK n : n = CHOOSE b \in s.W : TRUE
  OBVIOUS
<1>2. PICK y : y = Ends(n) \ s.Aphi
  OBVIOUS
<1>3. PICK r : r = [W |-> (s.W \ {n}) \cup ((y \cap in) \ Aorig),
                    Aphi |-> s.Aphi \cup y,
                    phi |-> s.phi \cup (y \cap in)]
  OBVIOUS
<1>4. PlaceRound(s) = r
  BY <1>1, <1>2, <1>3 DEF PlaceRound
<1>5. /\ s.W \subseteq Block /\ s.Aphi \subseteq Block /\ s.phi \subseteq Block
      /\ s.phi = s.Aphi \cap in /\ 1 \notin s.Aphi
      /\ \A m \in (Aorig \cup s.phi) \ s.W : Ends(m) \subseteq s.Aphi
  BY DEF Placing, PlaceState
<1>6. n \in s.W /\ n \in Block
  BY <1>1, <1>5
<1>7. y \subseteq Block \ {1} /\ y \cap s.Aphi = {} /\ Ends(n) \subseteq s.Aphi \cup y
  BY <1>2, <1>6, EndsAre
<1>8. r.W = (s.W \ {n}) \cup ((y \cap in) \ Aorig) /\ r.Aphi = s.Aphi \cup y
      /\ r.phi = s.phi \cup (y \cap in)
  BY <1>3
<1>9. r \in PlaceState
  <2>1. (s.W \ {n}) \cup ((y \cap in) \ Aorig) \in SUBSET Block
    BY <1>5, <1>7
  <2>2. s.Aphi \cup y \in SUBSET Block /\ s.phi \cup (y \cap in) \in SUBSET Block
    BY <1>5, <1>7
  <2>3. QED
    BY <1>3, <2>1, <2>2 DEF PlaceState
<1>10. r.phi = r.Aphi \cap in /\ 1 \notin r.Aphi
  BY <1>5, <1>7, <1>8
<1>11. \A m \in (Aorig \cup r.phi) \ r.W : Ends(m) \subseteq r.Aphi
  <2> TAKE m \in (Aorig \cup r.phi) \ r.W
  <2>1. CASE m = n
    BY <1>7, <1>8, <2>1
  <2>2. CASE m # n
    <3>1. m \in (Aorig \cup s.phi) \ s.W
      BY <1>8, <2>2
    <3>2. QED
      BY <1>5, <1>8, <3>1
  <2>3. QED
    BY <2>1, <2>2
<1>12. Placing(r)
  BY <1>9, <1>10, <1>11 DEF Placing
<1>13. Work(r) + 1 <= Work(s)
  <2>1. /\ IsFiniteSet(s.W) /\ IsFiniteSet(s.Aphi) /\ IsFiniteSet(y)
        /\ IsFiniteSet((y \cap in) \ Aorig) /\ Cardinality((y \cap in) \ Aorig) <= Cardinality(y)
    <3>1. IsFiniteSet(Block)
      BY BlockIs
    <3>2. IsFiniteSet(s.W) /\ IsFiniteSet(s.Aphi) /\ IsFiniteSet(y)
      BY <1>5, <1>7, <3>1, FS_Subset
    <3>3. (y \cap in) \ Aorig \in SUBSET y
      OBVIOUS
    <3>4. QED
      BY <3>2, <3>3, FS_Subset
  <2>2. IsFiniteSet(s.W \ {n}) /\ Cardinality(s.W \ {n}) = Cardinality(s.W) - 1
    BY <1>6, <2>1, FS_RemoveElement
  <2>3. PICK U : U = s.W \ {n}
    OBVIOUS
  <2>4. PICK Z : Z = (y \cap in) \ Aorig
    OBVIOUS
  <2>5. IsFiniteSet(U) /\ IsFiniteSet(Z) /\ IsFiniteSet(U \cap Z)
    <3>1. IsFiniteSet(U) /\ IsFiniteSet(Z) /\ U \cap Z \in SUBSET U
      BY <2>1, <2>2, <2>3, <2>4
    <3>2. QED
      BY <3>1, FS_Subset
  <2>6. /\ IsFiniteSet(U \cup Z)
        /\ Cardinality(U \cup Z) = Cardinality(U) + Cardinality(Z) - Cardinality(U \cap Z)
    BY <2>5, FS_Union
  <2>7. /\ IsFiniteSet(s.Aphi \cup y)
        /\ Cardinality(s.Aphi \cup y) = Cardinality(s.Aphi) + Cardinality(y) - Cardinality(s.Aphi \cap y)
    BY <2>1, FS_Union
  <2>8. Cardinality(s.Aphi \cap y) = 0
    BY <1>7, FS_EmptySet
  <2>9. PICK w, z, c, ph, v : /\ w = Cardinality(s.W) /\ z = Cardinality(Z) /\ c = Cardinality(y)
                             /\ ph = Cardinality(s.Aphi) /\ v = Cardinality(U \cap Z)
    OBVIOUS
  <2>10. w \in Nat /\ z \in Nat /\ c \in Nat /\ ph \in Nat /\ v \in Nat /\ z <= c
    BY <2>1, <2>4, <2>5, <2>9, FS_CardinalityType
  <2>11. Cardinality(r.W) = (w - 1) + z - v /\ Cardinality(r.Aphi) = ph + c - 0
    BY <1>8, <2>2, <2>3, <2>4, <2>6, <2>7, <2>8, <2>9
  <2>12. NBlocks \in Nat
    BY BlockIs
  <2>13. ((w - 1) + z - v) + NBlocks - (ph + c - 0) + 1 <= w + NBlocks - ph
    BY <2>10, <2>12
  <2>14. QED
    BY <2>9, <2>11, <2>13 DEF Work
<1>14. QED
  BY <1>4, <1>12, <1>13

(* What is placed is closed: where the frontier of a block that assigns or *)
(* has a phi function is live, there is a phi function.                    *)
Closed == /\ phi \subseteq Block /\ phi \subseteq in /\ 1 \notin phi
          /\ \A n \in Aorig \cup phi : \A b \in Ends(n) : b \in in => b \in phi

(* The rounds end with W empty, so what is placed is closed.               *)
LEMMA PlacedIs ==
  ASSUME NEW A, Complete(A), NEW p, p = placed
  PROVE  /\ p \subseteq Block /\ p \subseteq in /\ 1 \notin p
         /\ \A n \in Aorig \cup p : \A b \in Ends(n) : b \in in => b \in p
<1> DEFINE N == 2 * NBlocks
           T == {s \in PlaceState : Placing(s)}
           base == [W |-> Aorig, Aphi |-> {}, phi |-> {}]
           G == [q \in (1 .. N) \X T |-> PlaceRound(q[2])]
           F(g) == [k \in 0 .. 2 * NBlocks |-> IF k = 0 THEN base ELSE PlaceRound(g[k - 1])]
           f == CHOOSE g : g = F(g)
<1>1. N \in Nat /\ NBlocks \in Nat
  BY BlockIs
<1>2. base \in T /\ base.W = Aorig /\ base.Aphi = {}
  <2>1. Aorig \subseteq Block
    BY DEF Aorig
  <2>2. base \in PlaceState
    BY <2>1 DEF PlaceState
  <2>3. Placing(base)
    BY <2>2 DEF Placing
  <2>4. QED
    BY <2>2, <2>3
<1>3. \A s \in T : PlaceRound(s) \in T
  <2> TAKE s \in T
  <2>1. CASE s.W = {}
    BY <2>1 DEF PlaceRound
  <2>2. CASE s.W # {}
    <3>1. Placing(s)
      OBVIOUS
    <3>2. Placing(PlaceRound(s))
      BY <2>2, <3>1, PlaceStep
    <3>3. PlaceRound(s) \in PlaceState
      BY <3>2 DEF Placing
    <3>4. QED
      BY <3>2, <3>3
  <2>3. QED
    BY <2>1, <2>2
<1>4. placed = f[N].phi
  BY DEF placed, PlaceRound, Ends
<1>5. \A s \in T : Placing(s)
  OBVIOUS
<1> HIDE DEF T, base
<1>6. G \in [(1 .. N) \X T -> T]
  BY <1>3
<1>7. \A k \in 1 .. N, s \in T : G[<<k, s>>] = PlaceRound(s)
  OBVIOUS
<1> HIDE DEF G
<1>8. PICK g : Solves(g, T, base, G, N)
  <2> HIDE DEF N
  <2>1. QED
    BY <1>1, <1>2, <1>6, FunctionExists
<1>9. \A k \in 0 .. N : k = 0 \/ k \in 1 .. N
  <2> HIDE DEF N
  <2>1. QED
    BY <1>1
<1>10. \A k \in 0 .. N : g[k] = F(g)[k]
  <2>1. /\ g[0] = base
        /\ \A k \in 1 .. N : g[k - 1] \in T /\ g[k] = G[<<k, g[k - 1]>>]
    BY <1>8 DEF Solves
  <2>2. \A k \in 1 .. N : g[k] = PlaceRound(g[k - 1])
    BY <1>7, <2>1
  <2>3. \A k \in 0 .. N : g[k] = IF k = 0 THEN base ELSE PlaceRound(g[k - 1])
    BY <1>9, <2>1, <2>2
  <2>4. QED
    BY <2>3
<1>11. g = F(g)
  <2>1. g = [k \in 0 .. N |-> g[k]]
    BY <1>8 DEF Solves
  <2>2. QED
    BY <1>10, <2>1
<1>12. f = F(f)
  <2> HIDE DEF F
  <2>1. QED
    BY <1>11
<1> HIDE DEF f
<1>13. Solves(f, T, base, G, N)
  <2>1. \A k \in 0 .. N : f[k] = IF k = 0 THEN base ELSE PlaceRound(f[k - 1])
    BY <1>12
  <2>2. f = [k \in 0 .. N |-> f[k]]
    BY <1>12
  <2> HIDE DEF F
  <2>3. 0 \in 0 .. N /\ \A k \in 1 .. N : k \in 0 .. N /\ k # 0
    <3> HIDE DEF N
    <3>1. QED
      BY <1>1
  <2>4. f[0] = base /\ \A k \in 1 .. N : f[k] = PlaceRound(f[k - 1])
    BY <2>1, <2>3
  <2>5. \A k \in 1 .. N : f[k - 1] \in T => f[k] = G[<<k, f[k - 1]>>]
    BY <1>7, <2>4
  <2> HIDE DEF N
  <2>6. QED
    BY <1>1, <1>2, <1>6, <2>2, <2>4, <2>5, FunctionSolves
<1> HIDE DEF F
<1>14. /\ f[0] = base
       /\ \A k \in 1 .. N : f[k - 1] \in T /\ f[k] = PlaceRound(f[k - 1])
       /\ \A k \in 0 .. N : f[k] \in T
  <2>1. /\ f[0] = base
        /\ \A k \in 1 .. N : f[k - 1] \in T /\ f[k] = G[<<k, f[k - 1]>>]
        /\ \A k \in 0 .. N : f[k] \in T
    BY <1>13 DEF Solves
  <2>2. QED
    BY <1>7, <2>1
<1> DEFINE S == {k \in Nat : k <= N => f[k].W = {} \/ Work(f[k]) + k <= N}
<1>15. 0 \in S
  <2>1. Work(base) <= N /\ Work(base) \in Int
    <3>1. IsFiniteSet(Block) /\ Cardinality(Block) = NBlocks /\ Aorig \in SUBSET Block
      BY BlockIs DEF Aorig
    <3>2. Cardinality(Aorig) <= NBlocks /\ Cardinality({}) = 0 /\ Cardinality(Aorig) \in Nat
      BY <3>1, FS_Subset, FS_EmptySet, FS_CardinalityType
    <3>3. PICK c : c = Cardinality(Aorig)
      OBVIOUS
    <3>4. Work(base) = c + NBlocks - 0
      BY <1>2, <3>2, <3>3 DEF Work
    <3>5. c + NBlocks - 0 <= 2 * NBlocks /\ c + NBlocks - 0 \in Int
      BY <1>1, <3>2, <3>3
    <3>6. QED
      BY <3>4, <3>5
  <2>2. Work(base) + 0 <= N
    BY <1>1, <2>1
  <2>3. QED
    BY <1>14, <2>2
<1>16. ASSUME NEW k \in Nat, k \in S PROVE k + 1 \in S
  <2>1. SUFFICES ASSUME k + 1 <= N, f[k + 1].W # {} PROVE Work(f[k + 1]) + (k + 1) <= N
    OBVIOUS
  <2>2. k + 1 \in 1 .. N /\ (k + 1) - 1 = k /\ k <= N /\ k + 1 \in 0 .. N
    <3> HIDE DEF N
    <3>1. QED
      BY <1>1, <2>1
  <2>3. PICK s, r : s = f[k] /\ r = f[k + 1]
    OBVIOUS
  <2>4. s \in T /\ r = PlaceRound(s) /\ Placing(s)
    BY <1>5, <1>14, <2>2, <2>3
  <2>5. s.W # {}
    BY <2>1, <2>3, <2>4 DEF PlaceRound
  <2>6. Work(r) + 1 <= Work(s) /\ Placing(r)
    BY <2>4, <2>5, PlaceStep
  <2>7. Work(s) + k <= N
    BY <1>16, <2>2, <2>3, <2>5
  <2>8. \A t : Placing(t) => Work(t) \in Int
    <3> SUFFICES ASSUME NEW t, Placing(t) PROVE Work(t) \in Int
      OBVIOUS
    <3>1. t.W \in SUBSET Block /\ t.Aphi \in SUBSET Block /\ IsFiniteSet(Block)
      BY BlockIs DEF Placing, PlaceState
    <3>2. Cardinality(t.W) \in Nat /\ Cardinality(t.Aphi) \in Nat
      BY <3>1, FS_Subset, FS_CardinalityType
    <3>3. QED
      BY <1>1, <3>2 DEF Work
  <2>9. Work(r) \in Int /\ Work(s) \in Int
    BY <2>4, <2>6, <2>8
  <2>10. \A a, b, m \in Int : a + 1 <= b /\ b + k <= m => a + (k + 1) <= m
    OBVIOUS
  <2>11. Work(r) + (k + 1) <= N
    <3> HIDE DEF N
    <3>1. QED
      BY <1>1, <2>6, <2>7, <2>9, <2>10
  <2>12. QED
    BY <2>3, <2>11
<1> HIDE DEF S
<1>17. N \in S
  <2> HIDE DEF N
  <2>1. QED
    BY <1>1, <1>15, <1>16, SetInduction
<1>18. PICK s : s = f[N]
  OBVIOUS
<1>19. s \in T /\ Placing(s) /\ p = s.phi
  <2>1. N \in 0 .. N
    <3> HIDE DEF N
    <3>1. QED
      BY <1>1
  <2>2. QED
    BY <1>4, <1>5, <1>14, <1>18, <2>1
<1>20. s.W = {}
  <2>1. SUFFICES ASSUME s.W # {} PROVE FALSE
    OBVIOUS
  <2>2. Work(s) + N <= N
    <3>1. N <= N
      BY <1>1
    <3>2. QED
      BY <1>17, <1>18, <2>1, <3>1 DEF S
  <2>3. s.W \in SUBSET Block /\ s.Aphi \in SUBSET Block /\ IsFiniteSet(Block) /\ Cardinality(Block) = NBlocks
    BY <1>19, BlockIs DEF Placing, PlaceState
  <2>4. /\ Cardinality(s.W) \in Nat /\ Cardinality(s.Aphi) \in Nat
        /\ Cardinality(s.Aphi) <= NBlocks /\ IsFiniteSet(s.W)
    BY <2>3, FS_Subset, FS_CardinalityType
  <2>5. Cardinality(s.W) = 0
    <3>1. PICK w, c : w = Cardinality(s.W) /\ c = Cardinality(s.Aphi)
      OBVIOUS
    <3>2. (w + NBlocks - c) + 2 * NBlocks <= 2 * NBlocks /\ w \in Nat /\ c \in Nat /\ c <= NBlocks
      BY <2>2, <2>4, <3>1 DEF Work
    <3>3. w = 0
      BY <1>1, <3>2
    <3>4. QED
      BY <3>1, <3>3
  <2>6. QED
    BY <2>1, <2>4, <2>5, FS_EmptySet
<1>21. /\ s.phi \subseteq Block /\ s.phi = s.Aphi \cap in /\ 1 \notin s.Aphi
       /\ \A n \in (Aorig \cup s.phi) \ s.W : Ends(n) \subseteq s.Aphi
  BY <1>19 DEF Placing, PlaceState
<1>22. QED
  BY <1>19, <1>20, <1>21

-----------------------------------------------------------------------------
(* The entry of the parents of c for b is one of b's.                      *)
LEMMA EntryIs ==
  ASSUME JumpsRight, NEW b \in Block, NEW c \in Block, Edge(b, c)
  PROVE  EntryOf(b, c) \in DOMAIN parents(c) /\ parents(c)[EntryOf(b, c)] = b
<1>1. PICK p : p = parents(c)
  OBVIOUS
<1>2. p \in Seq(Block) /\ DOMAIN p = 1 .. Len(p) /\ b \in ToSet(p)
  BY <1>1, ParentsAre
<1> DEFINE S == {j \in DOMAIN p : p[j] = b}
<1>3. S # {}
  BY <1>2 DEF ToSet
<1>4. S \subseteq Nat
  BY <1>2
<1>5. PICK j \in S : \A i \in S : j <= i
  BY <1>3, <1>4, LeastNat
<1>6. \A i \in 1 .. j - 1 : p[i] # b
  <2> TAKE i \in 1 .. j - 1
  <2>1. j \in 1 .. Len(p) /\ Len(p) \in Nat
    BY <1>2
  <2>2. i \in 1 .. Len(p) /\ ~(j <= i)
    BY <2>1
  <2>3. QED
    BY <1>2, <1>5, <2>2
<1>7. EntryOf(b, c) = CHOOSE k \in DOMAIN p : p[k] = b /\ \A i \in 1 .. k - 1 : p[i] # b
  BY <1>1 DEF EntryOf
<1>8. EntryOf(b, c) \in DOMAIN p /\ p[EntryOf(b, c)] = b
  BY <1>5, <1>6, <1>7
<1>9. QED
  BY <1>1, <1>8

-----------------------------------------------------------------------------
(* Ascending lists each element once.                                      *)
Listed(S, n, s) ==
  /\ s \in Seq(Nat) /\ DOMAIN s = 1 .. Len(s) /\ Len(s) \in Nat
  /\ \A x : x \in ToSet(s) <=> x \in S /\ x \in 1 .. n
  /\ \A i, j \in 1 .. Len(s) : s[i] = s[j] => i = j

List(S, n, s) == IF n \in S THEN Append(s, n) ELSE s

LEMMA ListStep ==
  ASSUME NEW S, NEW n \in Nat, NEW m, m = n + 1, NEW s, Listed(S, n, s)
  PROVE  Listed(S, m, List(S, m, s))
<1>1. /\ s \in Seq(Nat) /\ DOMAIN s = 1 .. Len(s) /\ Len(s) \in Nat
      /\ \A x : x \in ToSet(s) <=> x \in S /\ x \in 1 .. n
      /\ \A i, j \in 1 .. Len(s) : s[i] = s[j] => i = j
  BY DEF Listed
<1>2. m \in Nat /\ m \notin 1 .. n /\ \A x : x \in 1 .. m <=> x \in 1 .. n \/ x = m
  OBVIOUS
<1>3. CASE m \notin S
  <2>1. List(S, m, s) = s
    BY <1>3 DEF List
  <2>2. \A x : x \in ToSet(s) <=> x \in S /\ x \in 1 .. m
    BY <1>1, <1>2, <1>3
  <2>3. QED
    BY <1>1, <2>1, <2>2 DEF Listed
<1>4. CASE m \in S
  <2>1. PICK t : t = Append(s, m)
    OBVIOUS
  <2>2. List(S, m, s) = t
    BY <1>4, <2>1 DEF List
  <2>3. ToSet(t) = ToSet(s) \cup {m}
    BY <1>1, <1>2, <2>1, ToSetAppend
  <2>4. \A x : x \in ToSet(t) <=> x \in S /\ x \in 1 .. m
    BY <1>1, <1>2, <1>4, <2>3
  <2>5. /\ t \in Seq(Nat) /\ Len(t) = Len(s) + 1 /\ t[Len(s) + 1] = m
        /\ \A i \in 1 .. Len(s) : t[i] = s[i]
    BY <1>1, <1>2, <2>1
  <2>6. DOMAIN t = 1 .. Len(t) /\ Len(t) \in Nat
    BY <2>5
  <2>7. \A i \in 1 .. Len(s) : s[i] # m
    <3> TAKE i \in 1 .. Len(s)
    <3>1. s[i] \in ToSet(s)
      BY <1>1 DEF ToSet
    <3>2. QED
      BY <1>1, <1>2, <3>1
  <2>8. \A i \in 1 .. Len(t) : i \in 1 .. Len(s) \/ i = Len(s) + 1
    BY <1>1, <2>5
  <2>9. \A i, j \in 1 .. Len(t) : t[i] = t[j] => i = j
    <3> TAKE i, j \in 1 .. Len(t)
    <3>1. CASE i \in 1 .. Len(s) /\ j \in 1 .. Len(s)
      BY <1>1, <2>5, <3>1
    <3>2. CASE i \in 1 .. Len(s) /\ j = Len(s) + 1
      BY <2>5, <2>7, <3>2
    <3>3. CASE i = Len(s) + 1 /\ j \in 1 .. Len(s)
      BY <2>5, <2>7, <3>3
    <3>4. QED
      BY <2>8, <3>1, <3>2, <3>3
  <2>10. QED
    BY <2>2, <2>4, <2>5, <2>6, <2>9 DEF Listed
<1>5. QED
  BY <1>3, <1>4

LEMMA AscendingIs ==
  ASSUME NEW S
  PROVE  Listed(S, NBlocks, Ascending(S))
<1> DEFINE N == NBlocks
           T == Seq(Nat)
           G == [q \in (1 .. N) \X T |-> List(S, q[1], q[2])]
           F(g) == [k \in Order |-> IF k = 0 THEN <<>> ELSE List(S, k, g[k - 1])]
           f == CHOOSE g : g = F(g)
<1>1. N \in Nat /\ Order = 0 .. N
  BY BlockIs DEF Order
<1>2. <<>> \in T
  OBVIOUS
<1>3. \A k \in 1 .. N, s \in T : List(S, k, s) \in T
  <2> TAKE k \in 1 .. N, s \in T
  <2>1. k \in Nat
    OBVIOUS
  <2>2. Append(s, k) \in T
    BY <2>1
  <2>3. QED
    BY <2>2 DEF List
<1>4. Ascending(S) = f[N]
  BY DEF Ascending, List
<1> HIDE DEF T, N
<1>5. G \in [(1 .. N) \X T -> T]
  BY <1>3
<1>6. \A k \in 1 .. N, s \in T : G[<<k, s>>] = List(S, k, s)
  OBVIOUS
<1> HIDE DEF G
<1>7. PICK g : Solves(g, T, <<>>, G, N)
  BY <1>1, <1>2, <1>5, FunctionExists
<1>8. \A k \in 0 .. N : k = 0 \/ k \in 1 .. N
  BY <1>1
<1>9. \A k \in 0 .. N : g[k] = IF k = 0 THEN <<>> ELSE List(S, k, g[k - 1])
  <2>1. /\ g[0] = <<>>
        /\ \A k \in 1 .. N : g[k - 1] \in T /\ g[k] = G[<<k, g[k - 1]>>]
    BY <1>7 DEF Solves
  <2>2. \A k \in 1 .. N : g[k] = List(S, k, g[k - 1])
    BY <1>6, <2>1
  <2>3. QED
    BY <1>8, <2>1, <2>2
<1>10. g = F(g)
  <2>1. g = [k \in 0 .. N |-> g[k]]
    BY <1>7 DEF Solves
  <2>2. QED
    BY <1>1, <1>9, <2>1
<1>11. f = F(f)
  <2> HIDE DEF F
  <2>1. QED
    BY <1>10
<1> HIDE DEF f
<1>12. Solves(f, T, <<>>, G, N)
  <2>1. \A k \in 0 .. N : f[k] = IF k = 0 THEN <<>> ELSE List(S, k, f[k - 1])
    BY <1>1, <1>11
  <2>2. f = [k \in 0 .. N |-> f[k]]
    BY <1>1, <1>11
  <2> HIDE DEF F
  <2>3. 0 \in 0 .. N /\ \A k \in 1 .. N : k \in 0 .. N /\ k # 0
    BY <1>1
  <2>4. f[0] = <<>> /\ \A k \in 1 .. N : f[k] = List(S, k, f[k - 1])
    BY <2>1, <2>3
  <2>5. \A k \in 1 .. N : f[k - 1] \in T => f[k] = G[<<k, f[k - 1]>>]
    BY <1>6, <2>4
  <2>6. QED
    BY <1>1, <1>2, <1>5, <2>2, <2>4, <2>5, FunctionSolves
<1>13. f[0] = <<>> /\ \A k \in 1 .. N : f[k] = List(S, k, f[k - 1])
  <2>1. f[0] = <<>> /\ \A k \in 1 .. N : f[k - 1] \in T /\ f[k] = G[<<k, f[k - 1]>>]
    BY <1>12 DEF Solves
  <2>2. QED
    BY <1>6, <2>1
<1> DEFINE U == {k \in Nat : k <= N => Listed(S, k, f[k])}
<1>14. 0 \in U
  <2>1. ToSet(<<>>) = {} /\ <<>> \in Seq(Nat) /\ Len(<<>>) = 0 /\ DOMAIN <<>> = 1 .. 0
    BY DEF ToSet
  <2>2. Listed(S, 0, <<>>)
    BY <2>1 DEF Listed
  <2>3. QED
    BY <1>13, <2>2
<1>15. ASSUME NEW k \in Nat, k \in U PROVE k + 1 \in U
  <2>1. SUFFICES ASSUME k + 1 <= N PROVE Listed(S, k + 1, f[k + 1])
    OBVIOUS
  <2>2. PICK m : m = k + 1
    OBVIOUS
  <2>3. m \in 1 .. N /\ m - 1 = k /\ k <= N
    BY <1>1, <2>1, <2>2
  <2>4. PICK s : s = f[k]
    OBVIOUS
  <2>5. Listed(S, k, s) /\ f[m] = List(S, m, s)
    BY <1>13, <1>15, <2>3, <2>4
  <2>6. Listed(S, m, List(S, m, s))
    BY <2>2, <2>5, ListStep
  <2>7. QED
    BY <2>2, <2>5, <2>6
<1> HIDE DEF U
<1>16. N \in U
  BY <1>1, <1>14, <1>15, SetInduction
<1>17. N <= N
  BY <1>1
<1>18. QED
  BY <1>4, <1>16, <1>17 DEF U, N

-----------------------------------------------------------------------------
(* What is pushed is on top, and popping leaves what was there.            *)
LEMMA PushPop ==
  ASSUME NEW s \in Seq(Nat), NEW x \in Nat, NEW n \in Nat
  PROVE  LET t == <<x>> \o s
         IN /\ t \in Seq(Nat) /\ Top(t) = x
            /\ SubSeq(t, 1 + (n + 1), Len(t)) = SubSeq(s, 1 + n, Len(s))
            /\ SubSeq(s, 1, Len(s)) = s
<1>1. PICK t : t = <<x>> \o s
  OBVIOUS
<1>2. /\ t \in Seq(Nat) /\ Len(t) = Len(s) + 1 /\ t[1] = x /\ Len(s) \in Nat
      /\ \A i \in 1 .. Len(s) : t[i + 1] = s[i]
  BY <1>1
<1>3. Top(t) = x
  <2>1. t # <<>>
    BY <1>2
  <2>2. QED
    BY <1>2, <2>1 DEF Top
<1>4. PICK l : l = Len(s)
  OBVIOUS
<1>5. l \in Nat /\ Len(t) = l + 1
  BY <1>2, <1>4
<1>6. SubSeq(s, 1, l) = s
  BY <1>4
<1>7. SubSeq(t, 1 + (n + 1), l + 1) = SubSeq(s, 1 + n, l)
  <2>1. SubSeq(t, 1 + (n + 1), l + 1) = [i \in 1 .. (l + 1) - (1 + (n + 1)) + 1 |-> t[(1 + (n + 1)) + i - 1]]
    BY <1>5
  <2>2. SubSeq(s, 1 + n, l) = [i \in 1 .. l - (1 + n) + 1 |-> s[(1 + n) + i - 1]]
    BY <1>5
  <2>3. (l + 1) - (1 + (n + 1)) + 1 = l - (1 + n) + 1
    BY <1>5
  <2>4. ASSUME NEW i \in 1 .. l - (1 + n) + 1
        PROVE  t[(1 + (n + 1)) + i - 1] = s[(1 + n) + i - 1]
    <3>1. (1 + n) + i - 1 \in 1 .. l /\ ((1 + n) + i - 1) + 1 = (1 + (n + 1)) + i - 1
      BY <1>5
    <3>2. QED
      BY <1>2, <1>4, <3>1
  <2>5. QED
    BY <2>1, <2>2, <2>3, <2>4
<1>8. QED
  BY <1>1, <1>2, <1>3, <1>4, <1>5, <1>6, <1>7

-----------------------------------------------------------------------------
(* The renaming.  V[b] is the version at the end of block b; Up the one at *)
(* the end of the block above it in the dominator tree, 0 for the first.   *)
Up(V, b) == IF b = 1 THEN 0 ELSE V[arr[idom[b]]]

Arrives(V, b) == IF b \in phi THEN newtmpregno[b] ELSE Up(V, b)

Recorded(V, b) ==
  /\ b \in phi => newtmpregno[b] \in 1 .. ip_tmpnum - 1
  /\ writes(b) => made[b] \in 1 .. ip_tmpnum - 1
  /\ V[b] = IF writes(b) THEN made[b] ELSE Arrives(V, b)
  /\ reads(b) => used[b] = Arrives(V, b)
  /\ \A c \in phi : Edge(b, c) => intmpregno[c][EntryOf(b, c)] = V[b]

Versions ==
  /\ newtmpregno \in [Block -> Nat] /\ used \in [Block -> Nat] /\ made \in [Block -> Nat]
  /\ ip_tmpnum \in Nat /\ ip_tmpnum > 0 /\ phi \subseteq Block
  /\ intmpregno = [c \in Block |-> intmpregno[c]]
  /\ \A c \in Block : DOMAIN intmpregno[c] = DOMAIN parents(c)

(* What the renaming reads and does not change stays as it is.             *)
LEMMA RenameLater ==
  ASSUME UNCHANGED <<domvars, body, phi>>
  PROVE  /\ \A b : (reads(b)' <=> reads(b)) /\ (writes(b)' <=> writes(b)) /\ poplist(b)' = poplist(b)
         /\ \A V, b : Up(V, b)' = Up(V, b)
         /\ \A a, b : (Edge(a, b)' <=> Edge(a, b)) /\ EntryOf(a, b)' = EntryOf(a, b)
         /\ \A b : parents(b)' = parents(b)
         /\ Reachable' = Reachable /\ phi' = phi /\ arr' = arr /\ idom' = idom /\ dfchildren' = dfchildren
<1>1. jump' = jump /\ ip_labels' = ip_labels /\ body' = body /\ phi' = phi /\ arr' = arr /\ idom' = idom /\ dfchildren' = dfchildren
  BY DEF domvars
<1>2. \A b : (reads(b)' <=> reads(b)) /\ (writes(b)' <=> writes(b)) /\ poplist(b)' = poplist(b)
  BY <1>1 DEF reads, writes, poplist
<1>3. \A V, b : Up(V, b)' = Up(V, b)
  BY <1>1 DEF Up
<1>4. \A b : child(b)' = child(b)
  BY <1>1 DEF child, kind
<1>5. \A b : parents(b)' = parents(b)
  BY <1>4 DEF parents
<1>6. \A a, b : EntryOf(a, b)' = EntryOf(a, b)
  BY <1>5 DEF EntryOf
<1>7. \A a, b : Edge(a, b)' <=> Edge(a, b)
  BY <1>1, EdgeLater
<1>8. Reachable' = Reachable
  BY <1>1, ReachableLater
<1>9. QED
  BY <1>1, <1>2, <1>3, <1>5, <1>6, <1>7, <1>8

(* What entering a block does; q is the stack then.                        *)
EnterDone(b, q) ==
  /\ stack' = q /\ q \in Seq(Nat) /\ SubSeq(q, 1 + poplist(b), Len(q)) = stack
  /\ ip_tmpnum' \in Nat /\ ip_tmpnum <= ip_tmpnum'
  /\ b \in phi => newtmpregno'[b] \in 1 .. ip_tmpnum' - 1
  /\ writes(b) => made'[b] \in 1 .. ip_tmpnum' - 1
  /\ Top(q) = IF writes(b) THEN made'[b] ELSE IF b \in phi THEN newtmpregno'[b] ELSE Top(stack)
  /\ reads(b) => used'[b] = IF b \in phi THEN newtmpregno'[b] ELSE Top(stack)
  /\ \A x \in Block \ {b} : newtmpregno'[x] = newtmpregno[x] /\ used'[x] = used[x] /\ made'[x] = made[x]
  /\ newtmpregno' \in [Block -> Nat] /\ used' \in [Block -> Nat] /\ made' \in [Block -> Nat]
  /\ intmpregno' = [c \in Block |-> [i \in DOMAIN intmpregno[c] |->
       IF c \in ToSet(child(b)) \cap phi /\ i = EntryOf(b, c) THEN Top(q) ELSE intmpregno[c][i]]]

LEMMA TopType ==
  ASSUME NEW s \in Seq(Nat)
  PROVE  Top(s) \in Nat
<1>1. CASE s = <<>>
  BY <1>1 DEF Top
<1>2. CASE s # <<>>
  <2>1. s[1] \in Nat
    BY <1>2
  <2>2. QED
    BY <1>2, <2>1 DEF Top
<1>3. QED
  BY <1>1, <1>2

(* Enter does that.                                                        *)
LEMMA EnterDoes ==
  ASSUME Versions, stack \in Seq(Nat), NEW b \in Block, Enter(b)
  PROVE  \E q : EnterDone(b, q)
<1>1. PICK p : p = IF b \in phi THEN 1 ELSE 0
  OBVIOUS
<1>2. PICK w : w = IF writes(b) THEN 1 ELSE 0
  OBVIOUS
<1>3. PICK r : r = IF p = 1 THEN <<ip_tmpnum>> \o stack ELSE stack
  OBVIOUS
<1>4. PICK q : q = IF w = 1 THEN <<ip_tmpnum + p>> \o r ELSE r
  OBVIOUS
<1>5. /\ newtmpregno' = [newtmpregno EXCEPT ![b] = p * ip_tmpnum]
      /\ used' = [used EXCEPT ![b] = IF reads(b) THEN Top(r) ELSE 0]
      /\ made' = [made EXCEPT ![b] = w * (ip_tmpnum + p)]
      /\ ip_tmpnum' = ip_tmpnum + p + w
      /\ stack' = q
      /\ intmpregno' = [c \in Block |-> [i \in DOMAIN intmpregno[c] |->
           IF c \in ToSet(child(b)) \cap phi /\ i = EntryOf(b, c) THEN Top(q) ELSE intmpregno[c][i]]]
  BY <1>1, <1>2, <1>3, <1>4 DEF Enter
<1>6. /\ newtmpregno \in [Block -> Nat] /\ used \in [Block -> Nat] /\ made \in [Block -> Nat]
      /\ ip_tmpnum \in Nat /\ ip_tmpnum > 0
  BY DEF Versions
<1>7. p \in {0, 1} /\ w \in {0, 1} /\ (p = 1 <=> b \in phi) /\ (w = 1 <=> writes(b)) /\ poplist(b) = p + w
  BY <1>1, <1>2 DEF poplist
<1>8. PICK n : n = ip_tmpnum
  OBVIOUS
<1>9. /\ n \in Nat /\ n > 0 /\ n + p \in Nat /\ p * n \in Nat /\ w * (n + p) \in Nat /\ n + p + w \in Nat
      /\ n <= n + p + w /\ (p = 1 => p * n = n /\ n \in 1 .. n + p + w - 1)
      /\ (w = 1 => w * (n + p) = n + p /\ n + p \in 1 .. n + p + w - 1)
  <2>1. n \in Nat /\ n > 0
    BY <1>6, <1>8
  <2>2. CASE p = 0 /\ w = 0
    BY <2>1, <2>2
  <2>3. CASE p = 0 /\ w = 1
    BY <2>1, <2>3
  <2>4. CASE p = 1 /\ w = 0
    BY <2>1, <2>4
  <2>5. CASE p = 1 /\ w = 1
    BY <2>1, <2>5
  <2>6. QED
    BY <1>7, <2>2, <2>3, <2>4, <2>5
<1>10. /\ r \in Seq(Nat) /\ Top(r) = (IF p = 1 THEN n ELSE Top(stack)) /\ Top(r) \in Nat
       /\ SubSeq(r, 1 + p, Len(r)) = stack
  <2>1. CASE p = 1
    <3>1. r = <<n>> \o stack
      BY <1>3, <1>8, <2>1
    <3> DEFINE z == 0
    <3>2. /\ r \in Seq(Nat) /\ Top(r) = n
          /\ SubSeq(r, 1 + (z + 1), Len(r)) = SubSeq(stack, 1 + z, Len(stack))
          /\ SubSeq(stack, 1, Len(stack)) = stack
      <4>1. z \in Nat
        OBVIOUS
      <4> HIDE DEF z
      <4>2. QED
        BY <1>9, <3>1, <4>1, PushPop
    <3>3. 1 + (0 + 1) = 1 + 1 /\ 1 + 0 = 1
      OBVIOUS
    <3>4. QED
      BY <1>9, <2>1, <3>2, <3>3
  <2>2. CASE p = 0
    <3>1. r = stack /\ p # 1
      BY <1>3, <2>2
    <3>2. SubSeq(stack, 1, Len(stack)) = stack
      BY <1>9, PushPop
    <3>3. 1 + 0 = 1
      OBVIOUS
    <3>4. QED
      BY <2>2, <3>1, <3>2, <3>3, TopType
  <2>3. QED
    BY <1>7, <2>1, <2>2
<1>11. /\ q \in Seq(Nat) /\ Top(q) = (IF w = 1 THEN n + p ELSE Top(r))
       /\ SubSeq(q, 1 + (p + w), Len(q)) = stack
  <2>1. CASE w = 1
    <3>1. q = <<n + p>> \o r
      BY <1>4, <1>8, <2>1
    <3>2. p \in Nat
      BY <1>7
    <3>3. /\ q \in Seq(Nat) /\ Top(q) = n + p
          /\ SubSeq(q, 1 + (p + 1), Len(q)) = SubSeq(r, 1 + p, Len(r))
      BY <1>9, <1>10, <3>1, <3>2, PushPop
    <3>4. QED
      BY <1>10, <2>1, <3>3
  <2>2. CASE w = 0
    <3>1. q = r /\ w # 1
      BY <1>4, <2>2
    <3>2. p + w = p
      BY <1>7, <2>2
    <3>3. QED
      BY <1>10, <3>1, <3>2
  <2>3. QED
    BY <1>7, <2>1, <2>2
<1>12. SubSeq(q, 1 + poplist(b), Len(q)) = stack
  BY <1>7, <1>11
<1>13. /\ newtmpregno'[b] = p * n /\ made'[b] = w * (n + p)
       /\ used'[b] = (IF reads(b) THEN Top(r) ELSE 0)
       /\ \A x \in Block \ {b} : newtmpregno'[x] = newtmpregno[x] /\ used'[x] = used[x] /\ made'[x] = made[x]
  BY <1>5, <1>6, <1>8
<1>14. newtmpregno' \in [Block -> Nat] /\ used' \in [Block -> Nat] /\ made' \in [Block -> Nat]
  <2>1. (IF reads(b) THEN Top(r) ELSE 0) \in Nat
    BY <1>10
  <2>2. p * ip_tmpnum \in Nat /\ w * (ip_tmpnum + p) \in Nat
    BY <1>8, <1>9
  <2>3. QED
    BY <1>5, <1>6, <2>1, <2>2
<1>15. ip_tmpnum' = n + p + w
  BY <1>5, <1>8
<1>16. /\ b \in phi => newtmpregno'[b] \in 1 .. ip_tmpnum' - 1
       /\ writes(b) => made'[b] \in 1 .. ip_tmpnum' - 1
       /\ ip_tmpnum' \in Nat /\ ip_tmpnum <= ip_tmpnum'
  BY <1>7, <1>8, <1>9, <1>13, <1>15
<1>17. Top(q) = IF writes(b) THEN made'[b] ELSE IF b \in phi THEN newtmpregno'[b] ELSE Top(stack)
  BY <1>7, <1>9, <1>10, <1>11, <1>13
<1>18. reads(b) => used'[b] = IF b \in phi THEN newtmpregno'[b] ELSE Top(stack)
  BY <1>7, <1>9, <1>10, <1>13
<1>19. EnterDone(b, q)
  BY <1>5, <1>11, <1>12, <1>13, <1>14, <1>16, <1>17, <1>18 DEF EnterDone
<1>20. QED
  BY <1>19

(* The blocks entered so far, which the tree leads to from the first.      *)
Entered(V, E) ==
  /\ V \in [Block -> Nat] /\ E \subseteq Reachable
  /\ \A b \in E : Recorded(V, b) /\ (b # 1 => arr[idom[b]] \in E)

(* Entering a block whose parent in the tree has been entered, with the    *)
(* parent's version on top of the stack, records the block and keeps what  *)
(* is recorded of the others.                                              *)
LEMMA EnterRecords ==
  ASSUME JumpsRight, Versions, NEW V, NEW E, Entered(V, E),
         NEW b \in Reachable \ E, b # 1 => arr[idom[b]] \in E,
         NEW q, EnterDone(b, q), Top(stack) = Up(V, b), UNCHANGED <<domvars, body, phi>>,
         NEW U, U = [V EXCEPT ![b] = Top(q)]
  PROVE  Entered(U, E \cup {b})' /\ Versions'
<1>1. /\ \A x : (reads(x)' <=> reads(x)) /\ (writes(x)' <=> writes(x))
      /\ \A W, x : Up(W, x)' = Up(W, x)
      /\ \A x, y : (Edge(x, y)' <=> Edge(x, y)) /\ EntryOf(x, y)' = EntryOf(x, y)
      /\ \A x : parents(x)' = parents(x)
      /\ Reachable' = Reachable /\ phi' = phi /\ arr' = arr /\ idom' = idom
  BY RenameLater
<1>2. /\ ip_tmpnum' \in Nat /\ ip_tmpnum <= ip_tmpnum'
      /\ b \in phi => newtmpregno'[b] \in 1 .. ip_tmpnum' - 1
      /\ writes(b) => made'[b] \in 1 .. ip_tmpnum' - 1
      /\ Top(q) = IF writes(b) THEN made'[b] ELSE IF b \in phi THEN newtmpregno'[b] ELSE Up(V, b)
      /\ reads(b) => used'[b] = IF b \in phi THEN newtmpregno'[b] ELSE Up(V, b)
      /\ \A x \in Block \ {b} : newtmpregno'[x] = newtmpregno[x] /\ used'[x] = used[x] /\ made'[x] = made[x]
      /\ newtmpregno' \in [Block -> Nat] /\ used' \in [Block -> Nat] /\ made' \in [Block -> Nat]
      /\ q \in Seq(Nat)
  BY DEF EnterDone
<1>3. intmpregno' = [c \in Block |-> [i \in DOMAIN intmpregno[c] |->
         IF c \in ToSet(child(b)) \cap phi /\ i = EntryOf(b, c) THEN Top(q) ELSE intmpregno[c][i]]]
  BY DEF EnterDone
<1>4. /\ ip_tmpnum \in Nat /\ ip_tmpnum > 0 /\ phi \subseteq Block
      /\ \A c \in Block : DOMAIN intmpregno[c] = DOMAIN parents(c)
  BY DEF Versions
<1>5. /\ V \in [Block -> Nat] /\ E \subseteq Reachable /\ Reachable \subseteq Block /\ b \in Block
      /\ \A x \in E : Recorded(V, x) /\ (x # 1 => arr[idom[x]] \in E)
  BY ReachableIs DEF Entered
<1>6. U \in [Block -> Nat] /\ U[b] = Top(q) /\ \A x \in Block \ {b} : U[x] = V[x]
  BY <1>2, <1>5, TopType
<1>7. \A x \in E \cup {b} : Up(U, x) = Up(V, x)
  BY <1>5, <1>6 DEF Up
<1>8. \A x, c \in Block : Edge(x, c) => /\ EntryOf(x, c) \in DOMAIN intmpregno[c]
                                        /\ parents(c)[EntryOf(x, c)] = x
  BY <1>4, EntryIs
<1>9. \A c \in Block : Edge(b, c) <=> c \in ToSet(child(b))
  BY DEF Edge, ToSet
<1>10. ASSUME NEW c \in phi, Edge(b, c) PROVE intmpregno'[c][EntryOf(b, c)] = U[b]
  <2>1. c \in Block /\ c \in ToSet(child(b)) \cap phi
    BY <1>4, <1>9, <1>10
  <2>2. QED
    BY <1>3, <1>5, <1>6, <1>8, <1>10, <2>1
<1>11. ASSUME NEW x \in E, NEW c \in phi, Edge(x, c)
       PROVE  intmpregno'[c][EntryOf(x, c)] = intmpregno[c][EntryOf(x, c)]
  <2>1. c \in Block /\ x \in Block /\ x # b
    BY <1>4, <1>5
  <2>2. PICK e : e = EntryOf(x, c)
    OBVIOUS
  <2>3. e \in DOMAIN intmpregno[c] /\ parents(c)[e] = x
    BY <1>8, <1>11, <2>1, <2>2
  <2>4. ~(c \in ToSet(child(b)) \cap phi /\ e = EntryOf(b, c))
    BY <1>5, <1>8, <1>9, <2>1, <2>3
  <2>5. intmpregno'[c][e] = intmpregno[c][e]
    BY <1>3, <2>1, <2>3, <2>4
  <2>6. QED
    BY <2>2, <2>5
<1>12. \A n \in 1 .. ip_tmpnum - 1 : n \in 1 .. ip_tmpnum' - 1
  <2>1. \A k, l \in Nat : k <= l => \A n \in 1 .. k - 1 : n \in 1 .. l - 1
    OBVIOUS
  <2>2. QED
    BY <1>2, <1>4, <2>1
<1>13. ASSUME NEW x \in E PROVE Recorded(U, x)'
  <2>1. x \in Block /\ x # b /\ x \in Block \ {b}
    BY <1>5
  <2>2. newtmpregno'[x] = newtmpregno[x] /\ used'[x] = used[x] /\ made'[x] = made[x]
    BY <1>2, <2>1
  <2>3. Arrives(U, x)' = Arrives(V, x)
    BY <1>1, <1>7, <2>2 DEF Arrives
  <2>4. /\ x \in phi => newtmpregno[x] \in 1 .. ip_tmpnum - 1
        /\ writes(x) => made[x] \in 1 .. ip_tmpnum - 1
        /\ V[x] = IF writes(x) THEN made[x] ELSE Arrives(V, x)
        /\ reads(x) => used[x] = Arrives(V, x)
        /\ \A c \in phi : Edge(x, c) => intmpregno[c][EntryOf(x, c)] = V[x]
    BY <1>5 DEF Recorded
  <2>5. U[x] = V[x]
    BY <1>6, <2>1
  <2>6. (x \in phi => newtmpregno[x] \in 1 .. ip_tmpnum - 1)'
    BY <1>1, <1>12, <2>2, <2>4
  <2>7. (writes(x) => made[x] \in 1 .. ip_tmpnum - 1)'
    BY <1>1, <1>12, <2>2, <2>4
  <2>8. (U[x] = IF writes(x) THEN made[x] ELSE Arrives(U, x))'
    BY <1>1, <2>2, <2>3, <2>4, <2>5
  <2>9. (reads(x) => used[x] = Arrives(U, x))'
    BY <1>1, <2>2, <2>3, <2>4
  <2>10. (\A c \in phi : Edge(x, c) => intmpregno[c][EntryOf(x, c)] = U[x])'
    BY <1>1, <1>11, <2>4, <2>5
  <2>11. QED
    BY <2>6, <2>7, <2>8, <2>9, <2>10 DEF Recorded
<1>14. Recorded(U, b)'
  <2>1. Arrives(U, b)' = IF b \in phi THEN newtmpregno'[b] ELSE Up(V, b)
    BY <1>1, <1>7 DEF Arrives
  <2>2. (U[b] = IF writes(b) THEN made[b] ELSE Arrives(U, b))'
    BY <1>1, <1>2, <1>6, <2>1
  <2>3. (reads(b) => used[b] = Arrives(U, b))'
    BY <1>1, <1>2, <2>1
  <2>4. (\A c \in phi : Edge(b, c) => intmpregno[c][EntryOf(b, c)] = U[b])'
    BY <1>1, <1>10
  <2>5. (b \in phi => newtmpregno[b] \in 1 .. ip_tmpnum - 1)' /\ (writes(b) => made[b] \in 1 .. ip_tmpnum - 1)'
    BY <1>1, <1>2
  <2>6. QED
    BY <2>2, <2>3, <2>4, <2>5 DEF Recorded
<1>15. Entered(U, E \cup {b})'
  <2>1. (U \in [Block -> Nat])' /\ (E \cup {b} \subseteq Reachable)'
    BY <1>1, <1>5, <1>6
  <2>2. \A x \in E \cup {b} : Recorded(U, x)' /\ (x # 1 => arr[idom[x]] \in E \cup {b})'
    BY <1>1, <1>5, <1>13, <1>14
  <2>3. QED
    BY <2>1, <2>2 DEF Entered
<1>16. Versions'
  <2>1. \A c \in Block : DOMAIN intmpregno'[c] = DOMAIN parents(c)
    BY <1>3, <1>4
  <2>2. intmpregno' = [c \in Block |-> intmpregno'[c]]
    BY <1>3
  <2>3. ip_tmpnum' > 0
    BY <1>2, <1>4
  <2>4. QED
    BY <1>1, <1>2, <1>4, <2>1, <2>2, <2>3 DEF Versions
<1>17. QED
  BY <1>15, <1>16

(* The children in the dominator tree are the reachable blocks with the    *)
(* block as immediate dominator.                                           *)
LEMMA TreeChildren ==
  ASSUME NEW A, Complete(A), NEW b \in Reachable
  PROVE  /\ \A i \in dfchildren[b] : /\ i \in 1 .. Size /\ arr[i] \in Reachable /\ arr[i] # 1
                                     /\ arr[i] # b /\ arr[idom[arr[i]]] = b
         /\ \A c \in Reachable : c # 1 /\ arr[idom[c]] = b =>
              arr[dfnum[c]] = c /\ dfnum[c] \in dfchildren[b] /\ dfnum[c] \in 1 .. NBlocks
<1>1. Tree(A) /\ IdomTree /\ Children
  BY DEF Complete
<1>2. /\ \A i \in 1 .. Size : arr[i] \in Block /\ arr[i] \in Reachable /\ dfnum[arr[i]] = i
      /\ \A c \in Reachable : c \in Block /\ dfnum[c] \in 1 .. Size /\ arr[dfnum[c]] = c
      /\ DOMAIN arr = 1 .. Size /\ Size \in Nat /\ NBlocks \in Nat /\ Size <= NBlocks
  BY <1>1, TreeIs
<1>3. b \in Block /\ dfnum[b] \in 1 .. Size /\ dfnum[b] # 0 /\ arr[dfnum[b]] = b
  <2>1. dfnum[b] \in 1 .. Size
    BY <1>2
  <2>2. QED
    BY <1>2, <2>1
<1>4. \A i : i \in dfchildren[b] <=> i \in 1 .. Size /\ idom[arr[i]] = dfnum[b] /\ arr[i] # b
  BY <1>1, <1>2, <1>3 DEF Children
<1>5. ASSUME NEW i \in dfchildren[b]
      PROVE  /\ i \in 1 .. Size /\ arr[i] \in Reachable /\ arr[i] # 1
             /\ arr[i] # b /\ arr[idom[arr[i]]] = b
  BY <1>1, <1>2, <1>3, <1>4 DEF IdomTree
<1>6. ASSUME NEW c \in Reachable, c # 1, arr[idom[c]] = b
      PROVE  arr[dfnum[c]] = c /\ dfnum[c] \in dfchildren[b] /\ dfnum[c] \in 1 .. NBlocks
  <2>1. dfnum[c] \in 1 .. Size /\ arr[dfnum[c]] = c
    BY <1>2
  <2>2. idom[c] \in 1 .. Size /\ arr[idom[c]] # c
    BY <1>1, <1>6 DEF IdomTree, Immediate
  <2>3. idom[c] = dfnum[b] /\ c # b
    BY <1>2, <1>6, <2>2
  <2>4. \A k \in 1 .. Size : k \in 1 .. NBlocks
    BY <1>2
  <2>5. QED
    BY <1>4, <2>1, <2>3, <2>4
<1>7. QED
  BY <1>5, <1>6

(* What Enter puts in the place of the call: r is s, x and the rest of c.  *)
Replaced(r, s, x, c) ==
  /\ DOMAIN r = 1 .. Len(r) /\ Len(r) = Len(s) + Len(c)
  /\ \A k \in 1 .. Len(s) : r[k] = s[k]
  /\ r[Len(s) + 1] = x
  /\ \A k \in 2 .. Len(c) : r[k + Len(s)] = c[k]
  /\ \A k \in 1 .. Len(r) : \/ k \in 1 .. Len(s)
                            \/ k = Len(s) + 1
                            \/ k - Len(s) \in 2 .. Len(c) /\ k = (k - Len(s)) + Len(s)

LEMMA ReplaceFirst ==
  ASSUME NEW T, NEW s \in Seq(T), NEW x \in T, NEW c \in Seq(T), c # <<>>,
         NEW r, r = s \o <<x>> \o Tail(c)
  PROVE  r \in Seq(T) /\ Replaced(r, s, x, c)
<1>1. PICK t : t = Tail(c)
  OBVIOUS
<1>2. /\ Len(c) \in Nat /\ Len(c) >= 1 /\ t \in Seq(T) /\ Len(t) = Len(c) - 1
      /\ \A k \in 1 .. Len(c) - 1 : t[k] = c[k + 1]
  BY <1>1
<1>3. PICK u : u = s \o <<x>>
  OBVIOUS
<1>4. /\ Len(s) \in Nat /\ u \in Seq(T) /\ Len(u) = Len(s) + 1
      /\ \A k \in 1 .. Len(s) : u[k] = s[k]
      /\ u[Len(s) + 1] = x
  BY <1>3
<1>5. /\ r \in Seq(T) /\ Len(r) = Len(u) + Len(t) /\ DOMAIN r = 1 .. Len(r)
      /\ \A k \in 1 .. Len(u) : r[k] = u[k]
      /\ \A k \in 1 .. Len(t) : r[k + Len(u)] = t[k]
  <2>1. r = u \o t
    BY <1>1, <1>3
  <2>2. r \in Seq(T) /\ Len(r) = Len(u) + Len(t) /\ DOMAIN r = 1 .. Len(r)
    BY <1>2, <1>4, <2>1
  <2>3. Len(u) \in Nat /\ Len(t) \in Nat
    BY <1>2, <1>4
  <2>4. ASSUME NEW k \in 1 .. Len(u) PROVE r[k] = u[k]
    BY <1>2, <1>4, <2>1
  <2>5. ASSUME NEW k \in 1 .. Len(t) PROVE r[k + Len(u)] = t[k]
    <3>1. k + Len(u) \in 1 .. Len(u) + Len(t) /\ ~(k + Len(u) <= Len(u)) /\ (k + Len(u)) - Len(u) = k
      BY <2>3
    <3>2. QED
      BY <1>2, <1>4, <2>1, <3>1
  <2>6. QED
    BY <2>2, <2>4, <2>5
<1>6. PICK m, n : m = Len(s) /\ n = Len(c)
  OBVIOUS
<1>7. m \in Nat /\ n \in Nat /\ n >= 1 /\ Len(u) = m + 1 /\ Len(t) = n - 1
  BY <1>2, <1>4, <1>6
<1>8. Len(r) = m + n
  BY <1>5, <1>7
<1>9. \A k \in 1 .. m : k \in 1 .. m + 1
  BY <1>7
<1>10. \A k \in 2 .. n : k - 1 \in 1 .. n - 1 /\ (k - 1) + 1 = k /\ (k - 1) + (m + 1) = k + m
  BY <1>7
<1>11. m + 1 \in 1 .. m + 1
  BY <1>7
<1>12. \A k \in 1 .. m : r[k] = s[k]
  BY <1>4, <1>5, <1>6, <1>7, <1>9
<1>13. r[m + 1] = x
  BY <1>4, <1>5, <1>6, <1>7, <1>11
<1>14. \A k \in 2 .. n : r[k + m] = c[k]
  <2> TAKE k \in 2 .. n
  <2>1. r[(k - 1) + (m + 1)] = t[k - 1]
    BY <1>5, <1>7, <1>10
  <2>2. t[k - 1] = c[(k - 1) + 1]
    BY <1>2, <1>6, <1>10
  <2>3. QED
    BY <1>10, <2>1, <2>2
<1>15. \A k \in 1 .. m + n : k \in 1 .. m \/ k = m + 1 \/ (k - m \in 2 .. n /\ k = (k - m) + m)
  BY <1>7
<1>16. Replaced(r, s, x, c)
  BY <1>5, <1>6, <1>8, <1>12, <1>13, <1>14, <1>15 DEF Replaced
<1>17. QED
  BY <1>5, <1>16

-----------------------------------------------------------------------------
(* The calls still to come: each block not entered whose parent in the     *)
(* tree has been is called once.                                           *)
Call == {"enter", "leave"} \X Block

Awaited(E) ==
  /\ calls \in Seq(Call)
  /\ \A k \in 1 .. Len(calls) : calls[k][1] = "enter" =>
       calls[k][2] \in Reachable \ E /\ (calls[k][2] # 1 => arr[idom[calls[k][2]]] \in E)
  /\ \A j, k \in 1 .. Len(calls) :
       calls[j][1] = "enter" /\ calls[k][1] = "enter" /\ calls[j][2] = calls[k][2] => j = k
  /\ \A b \in Reachable \ E : b = 1 \/ arr[idom[b]] \in E =>
       \E k \in 1 .. Len(calls) : calls[k] = <<"enter", b>>

(* St[k] is the stack before the k-th call: what a call to enter a block   *)
(* pushes has been popped again before the next.                           *)
Stacks(V, St) ==
  /\ \A k \in 1 .. Len(calls) + 1 : St[k] \in Seq(Nat)
  /\ St[1] = stack
  /\ \A k \in 1 .. Len(calls) :
       /\ calls[k][1] = "enter" => St[k + 1] = St[k] /\ Top(St[k]) = Up(V, calls[k][2])
       /\ calls[k][1] = "leave" => St[k + 1] = SubSeq(St[k], 1 + poplist(calls[k][2]), Len(St[k]))

(* The calls Enter makes. *)
Called(b, n) ==
  /\ calls' \in Seq(Call) /\ n \in Seq(Nat)
  /\ \A x : x \in dfchildren[b] <=> \E k \in 1 .. Len(n) : n[k] = x
  /\ \A j, k \in 1 .. Len(n) : n[j] = n[k] => j = k
  /\ Len(calls') = Len(n) + Len(calls)
  /\ \A k \in 1 .. Len(n) : calls'[k] = <<"enter", arr[n[k]]>>
  /\ calls'[Len(n) + 1] = <<"leave", b>>
  /\ \A k \in 2 .. Len(calls) : calls'[k + Len(n)] = calls[k]
  /\ \A k \in 1 .. Len(calls') : \/ k \in 1 .. Len(n)
                                 \/ k = Len(n) + 1
                                 \/ k - Len(n) \in 2 .. Len(calls) /\ k = (k - Len(n)) + Len(n)

(* Enter makes these calls.                                                *)
LEMMA EnterCalls ==
  ASSUME NEW A, Complete(A), calls \in Seq(Call), calls # <<>>, NEW b \in Reachable, Enter(b)
  PROVE  \E n : Called(b, n)
<1>1. PICK n : n = Ascending(dfchildren[b])
  OBVIOUS
<1>2. Listed(dfchildren[b], NBlocks, n)
  BY <1>1, AscendingIs
<1>3. /\ n \in Seq(Nat) /\ DOMAIN n = 1 .. Len(n) /\ Len(n) \in Nat
      /\ \A x : x \in ToSet(n) <=> x \in dfchildren[b] /\ x \in 1 .. NBlocks
      /\ \A i, j \in 1 .. Len(n) : n[i] = n[j] => i = j
  BY <1>2 DEF Listed
<1>4. /\ \A i \in dfchildren[b] : i \in 1 .. Size /\ i \in 1 .. NBlocks /\ arr[i] \in Reachable
      /\ b \in Block /\ Reachable \subseteq Block
  <2>1. Size \in Nat /\ NBlocks \in Nat /\ Size <= NBlocks
    BY TreeIs DEF Complete
  <2>2. \A i \in 1 .. Size : i \in 1 .. NBlocks
    BY <2>1
  <2>3. QED
    BY <2>2, TreeChildren, ReachableIs
<1>5. \A x : x \in dfchildren[b] <=> \E k \in 1 .. Len(n) : n[k] = x
  BY <1>3, <1>4 DEF ToSet
<1>6. PICK s : s = [k \in DOMAIN n |-> <<"enter", arr[n[k]]>>]
  OBVIOUS
<1>7. s \in Seq(Call) /\ Len(s) = Len(n) /\ \A k \in 1 .. Len(n) : s[k] = <<"enter", arr[n[k]]>>
  <2>1. \A k \in 1 .. Len(n) : <<"enter", arr[n[k]]>> \in Call
    BY <1>4, <1>5 DEF Call
  <2>2. s = [k \in 1 .. Len(n) |-> <<"enter", arr[n[k]]>>]
    BY <1>3, <1>6
  <2>3. QED
    BY <1>3, <2>1, <2>2
<1>8. PICK x \in Call : x = <<"leave", b>>
  BY <1>4 DEF Call
<1>9. PICK r : r = calls'
  OBVIOUS
<1>10. r = s \o <<x>> \o Tail(calls)
  BY <1>1, <1>6, <1>8, <1>9 DEF Enter
<1>11. r \in Seq(Call) /\ Replaced(r, s, x, calls)
  BY <1>7, <1>10, ReplaceFirst
<1>12. Called(b, n)
  BY <1>3, <1>5, <1>7, <1>8, <1>9, <1>11 DEF Replaced, Called
<1>13. QED
  BY <1>12

(* Entering a block keeps Awaited: its children take its place.            *)
LEMMA EnterAwaits ==
  ASSUME NEW A, Complete(A), NEW E, E \subseteq Reachable, Awaited(E), calls # <<>>,
         \A x \in E : x # 1 => arr[idom[x]] \in E,
         NEW b, calls[1][1] = "enter", b = calls[1][2], NEW n, Called(b, n),
         UNCHANGED <<domvars, body, phi>>
  PROVE  Awaited(E \cup {b})'
<1>1. /\ calls \in Seq(Call) /\ Len(calls) \in Nat /\ 1 \in 1 .. Len(calls)
      /\ \A k \in 1 .. Len(calls) : calls[k][1] = "enter" =>
           calls[k][2] \in Reachable \ E /\ (calls[k][2] # 1 => arr[idom[calls[k][2]]] \in E)
      /\ \A j, k \in 1 .. Len(calls) :
           calls[j][1] = "enter" /\ calls[k][1] = "enter" /\ calls[j][2] = calls[k][2] => j = k
      /\ \A c \in Reachable \ E : c = 1 \/ arr[idom[c]] \in E =>
           \E k \in 1 .. Len(calls) : calls[k] = <<"enter", c>>
  <2>1. calls \in Seq(Call)
    BY DEF Awaited
  <2>2. Len(calls) \in Nat /\ 1 \in 1 .. Len(calls)
    BY <2>1
  <2>3. QED
    BY <2>1, <2>2 DEF Awaited
<1>2. b \in Reachable /\ b \notin E /\ (b # 1 => arr[idom[b]] \in E)
  BY <1>1
<1>3. PICK r, m : r = calls' /\ m = Len(n)
  OBVIOUS
<1>4. /\ r \in Seq(Call) /\ n \in Seq(Nat) /\ m \in Nat
      /\ \A x : x \in dfchildren[b] <=> \E k \in 1 .. m : n[k] = x
      /\ \A j, k \in 1 .. m : n[j] = n[k] => j = k
      /\ Len(r) = m + Len(calls)
      /\ \A k \in 1 .. m : r[k] = <<"enter", arr[n[k]]>>
      /\ r[m + 1] = <<"leave", b>>
      /\ \A k \in 2 .. Len(calls) : r[k + m] = calls[k]
      /\ \A k \in 1 .. Len(r) : \/ k \in 1 .. m
                                \/ k = m + 1
                                \/ k - m \in 2 .. Len(calls) /\ k = (k - m) + m
  BY <1>3 DEF Called
<1>5. /\ \A i \in dfchildren[b] : /\ i \in 1 .. Size /\ arr[i] \in Reachable /\ arr[i] # 1
                                  /\ arr[i] # b /\ arr[idom[arr[i]]] = b
      /\ \A c \in Reachable : c # 1 /\ arr[idom[c]] = b =>
           arr[dfnum[c]] = c /\ dfnum[c] \in dfchildren[b]
  BY <1>2, TreeChildren
<1>6. \A i, j \in 1 .. Size : arr[i] = arr[j] => i = j
  BY TreeIs DEF Complete
<1>7. \A k \in 1 .. m : /\ arr[n[k]] \in Reachable /\ arr[n[k]] # 1 /\ arr[n[k]] # b
                        /\ arr[idom[arr[n[k]]]] = b /\ arr[n[k]] \notin E
                        /\ n[k] \in 1 .. Size
  BY <1>2, <1>4, <1>5
<1>8. \A k \in 2 .. Len(calls) : k \in 1 .. Len(calls) /\ k # 1
  BY <1>1
<1>9. \A k \in 2 .. Len(calls) : calls[k][1] = "enter" =>
        /\ calls[k][2] \in Reachable /\ calls[k][2] \notin E /\ calls[k][2] # b
        /\ calls[k][2] # 1 => arr[idom[calls[k][2]]] \in E
  BY <1>1, <1>8
<1>10. \A k \in 1 .. Len(r) : r[k][1] = "enter" => \/ k \in 1 .. m
                                                   \/ k - m \in 2 .. Len(calls) /\ k = (k - m) + m
  BY <1>4
<1>11. ASSUME NEW k \in 1 .. Len(r), r[k][1] = "enter"
       PROVE  /\ r[k][2] \in Reachable \ (E \cup {b})
              /\ r[k][2] # 1 => arr[idom[r[k][2]]] \in E \cup {b}
  <2>1. CASE k \in 1 .. m
    <3>1. r[k][2] = arr[n[k]]
      BY <1>4, <2>1
    <3>2. QED
      BY <1>7, <2>1, <3>1
  <2>2. CASE k - m \in 2 .. Len(calls) /\ k = (k - m) + m
    <3>1. r[k] = calls[k - m]
      BY <1>4, <2>2
    <3>2. QED
      BY <1>9, <1>11, <2>2, <3>1
  <2>3. QED
    BY <1>10, <1>11, <2>1, <2>2
<1>12. ASSUME NEW j \in 1 .. Len(r), NEW k \in 1 .. Len(r), r[j][1] = "enter", r[k][1] = "enter",
              r[j][2] = r[k][2]
       PROVE  j = k
  <2>1. \A i \in 1 .. m : r[i][2] = arr[n[i]] /\ arr[idom[r[i][2]]] = b /\ r[i][2] # 1
    BY <1>4, <1>7
  <2>2. \A i \in 1 .. Len(r) : i - m \in 2 .. Len(calls) /\ i = (i - m) + m =>
          r[i] = calls[i - m]
    BY <1>4
  <2>3. \A i \in 1 .. Len(r) : i - m \in 2 .. Len(calls) /\ i = (i - m) + m /\ r[i][1] = "enter" =>
          ~(r[i][2] # 1 /\ arr[idom[r[i][2]]] = b)
    BY <1>2, <1>9, <2>2
  <2>4. CASE j \in 1 .. m /\ k \in 1 .. m
    <3>1. n[j] = n[k]
      BY <1>6, <1>7, <1>12, <2>1, <2>4
    <3>2. QED
      BY <1>4, <2>4, <3>1
  <2>5. CASE j \in 1 .. m /\ k - m \in 2 .. Len(calls) /\ k = (k - m) + m
    BY <1>12, <2>1, <2>3, <2>5
  <2>6. CASE k \in 1 .. m /\ j - m \in 2 .. Len(calls) /\ j = (j - m) + m
    BY <1>12, <2>1, <2>3, <2>6
  <2>7. CASE /\ j - m \in 2 .. Len(calls) /\ j = (j - m) + m
             /\ k - m \in 2 .. Len(calls) /\ k = (k - m) + m
    <3>1. r[j] = calls[j - m] /\ r[k] = calls[k - m]
      BY <2>2, <2>7
    <3>2. j - m = k - m
      BY <1>1, <1>8, <1>12, <2>7, <3>1
    <3>3. QED
      BY <2>7, <3>2
  <2>8. QED
    BY <1>10, <1>12, <2>4, <2>5, <2>6, <2>7
<1>13. \A k \in 1 .. m : k \in 1 .. Len(r)
  BY <1>1, <1>4
<1>14. \A k \in 2 .. Len(calls) : k + m \in 1 .. Len(r)
  BY <1>1, <1>4
<1>15. ASSUME NEW c \in Reachable \ (E \cup {b}), c = 1 \/ arr[idom[c]] \in E \cup {b}
       PROVE  \E k \in 1 .. Len(r) : r[k] = <<"enter", c>>
  <2>1. CASE c # 1 /\ arr[idom[c]] = b
    <3>1. arr[dfnum[c]] = c /\ dfnum[c] \in dfchildren[b]
      BY <1>5, <2>1
    <3>2. PICK k \in 1 .. m : n[k] = dfnum[c]
      BY <1>4, <3>1
    <3>3. r[k] = <<"enter", c>> /\ k \in 1 .. Len(r)
      <4>1. arr[n[k]] = c
        BY <3>1, <3>2
      <4>2. r[k] = <<"enter", arr[n[k]]>>
        BY <1>4
      <4>3. QED
        BY <1>13, <4>1, <4>2
    <3>4. QED
      BY <3>3
  <2>2. CASE c = 1 \/ arr[idom[c]] \in E
    <3>1. PICK k \in 1 .. Len(calls) : calls[k] = <<"enter", c>>
      BY <1>1, <2>2
    <3>2. k # 1
      BY <3>1
    <3>3. k \in 2 .. Len(calls)
      BY <1>1, <3>2
    <3>4. r[k + m] = <<"enter", c>>
      BY <1>4, <3>1, <3>3
    <3>5. QED
      BY <1>14, <3>3, <3>4
  <2>3. QED
    BY <1>15, <2>1, <2>2
<1>16. Reachable' = Reachable /\ arr' = arr /\ idom' = idom
  BY RenameLater
<1>17. (calls \in Seq(Call))'
  BY <1>3, <1>4 DEF Call
<1>18. (\A k \in 1 .. Len(calls) : calls[k][1] = "enter" =>
           /\ calls[k][2] \in Reachable \ (E \cup {b})
           /\ calls[k][2] # 1 => arr[idom[calls[k][2]]] \in E \cup {b})'
  BY <1>3, <1>11, <1>16
<1>19. (\A j, k \in 1 .. Len(calls) :
          calls[j][1] = "enter" /\ calls[k][1] = "enter" /\ calls[j][2] = calls[k][2] => j = k)'
  BY <1>3, <1>12
<1>20. (\A c \in Reachable \ (E \cup {b}) : c = 1 \/ arr[idom[c]] \in E \cup {b} =>
          \E k \in 1 .. Len(calls) : calls[k] = <<"enter", c>>)'
  BY <1>3, <1>15, <1>16
<1>21. QED
  BY <1>17, <1>18, <1>19, <1>20 DEF Awaited

(* Entering a block keeps Stacks: its children find its version on top,    *)
(* and its leave brings back the stack the calls behind it expect.         *)
LEMMA EnterStacks ==
  ASSUME NEW A, Complete(A), NEW V, NEW E, E \subseteq Reachable, Awaited(E), calls # <<>>,
         V \in [Block -> Nat],
         NEW b, calls[1][1] = "enter", b = calls[1][2], NEW n, Called(b, n), NEW q, EnterDone(b, q),
         UNCHANGED <<domvars, body, phi>>, NEW U, U = [V EXCEPT ![b] = Top(q)],
         NEW St, Stacks(V, St)
  PROVE  \E Su : Stacks(U, Su)'
<1>1. /\ calls \in Seq(Call) /\ Len(calls) \in Nat /\ 1 \in 1 .. Len(calls) /\ Len(calls) >= 1
      /\ \A k \in 1 .. Len(calls) : calls[k][1] = "enter" =>
           calls[k][2] \in Reachable \ E /\ (calls[k][2] # 1 => arr[idom[calls[k][2]]] \in E)
  BY DEF Awaited
<1>2. b \in Reachable /\ b \notin E /\ b \in Block
  BY <1>1, ReachableIs
<1>3. PICK r, m : r = calls' /\ m = Len(n)
  OBVIOUS
<1>4. /\ r \in Seq(Call) /\ n \in Seq(Nat) /\ m \in Nat
      /\ \A x : x \in dfchildren[b] <=> \E k \in 1 .. m : n[k] = x
      /\ Len(r) = m + Len(calls)
      /\ \A k \in 1 .. m : r[k] = <<"enter", arr[n[k]]>>
      /\ r[m + 1] = <<"leave", b>>
      /\ \A k \in 2 .. Len(calls) : r[k + m] = calls[k]
      /\ \A k \in 1 .. Len(r) : \/ k \in 1 .. m
                                \/ k = m + 1
                                \/ k - m \in 2 .. Len(calls) /\ k = (k - m) + m
  BY <1>3 DEF Called
<1>5. /\ \A k \in 1 .. Len(calls) + 1 : St[k] \in Seq(Nat)
      /\ St[1] = stack
      /\ \A k \in 1 .. Len(calls) :
           /\ calls[k][1] = "enter" => St[k + 1] = St[k] /\ Top(St[k]) = Up(V, calls[k][2])
           /\ calls[k][1] = "leave" => St[k + 1] = SubSeq(St[k], 1 + poplist(calls[k][2]), Len(St[k]))
  BY DEF Stacks
<1>6. stack' = q /\ q \in Seq(Nat) /\ SubSeq(q, 1 + poplist(b), Len(q)) = stack
  BY DEF EnterDone
<1>7. PICK l : l = Len(calls)
  OBVIOUS
<1>8. l \in Nat /\ l >= 1 /\ m \in Nat /\ Len(r) = m + l
  BY <1>1, <1>4, <1>7
<1>9. PICK Su : Su = [k \in 1 .. m + l + 1 |-> IF k <= m + 1 THEN q ELSE St[k - m]]
  OBVIOUS
<1>10. /\ \A k \in 1 .. m + 1 : Su[k] = q
       /\ \A k \in 2 .. l + 1 : Su[k + m] = St[k]
       /\ \A k \in 1 .. m + l + 1 : k \in 1 .. m + 1 \/ (k - m \in 2 .. l + 1 /\ k = (k - m) + m)
  <2>1. \A k \in 1 .. m + 1 : k \in 1 .. m + l + 1 /\ k <= m + 1
    BY <1>8
  <2>2. \A k \in 2 .. l + 1 : k + m \in 1 .. m + l + 1 /\ ~(k + m <= m + 1) /\ (k + m) - m = k
    BY <1>8
  <2>3. \A k \in 1 .. m + l + 1 : k \in 1 .. m + 1 \/ (k - m \in 2 .. l + 1 /\ k = (k - m) + m)
    BY <1>8
  <2>4. QED
    BY <1>9, <2>1, <2>2, <2>3
<1>11. \A k \in 1 .. m + l + 1 : Su[k] \in Seq(Nat)
  <2>1. \A k \in 2 .. l + 1 : k \in 1 .. Len(calls) + 1
    BY <1>7, <1>8
  <2>2. TAKE k \in 1 .. m + l + 1
  <2>3. CASE k \in 1 .. m + 1
    BY <1>6, <1>10, <2>3
  <2>4. CASE k - m \in 2 .. l + 1 /\ k = (k - m) + m
    <3>1. PICK j \in 2 .. l + 1 : j = k - m
      BY <2>4
    <3>2. Su[j + m] = St[j] /\ St[j] \in Seq(Nat) /\ k = j + m
      BY <1>5, <1>10, <2>1, <2>4, <3>1
    <3>3. QED
      BY <3>2
  <2>5. QED
    BY <1>10, <2>3, <2>4
<1>12. Su[1] = q
  <2>1. 1 \in 1 .. m + 1
    BY <1>8
  <2>2. QED
    BY <1>10, <2>1
<1>13. U[b] = Top(q) /\ \A x \in Block \ {b} : U[x] = V[x]
  BY <1>2
<1>14. /\ \A i \in dfchildren[b] : arr[i] # 1 /\ arr[idom[arr[i]]] = b
  BY <1>2, TreeChildren
<1>15. /\ \A W, x : Up(W, x)' = Up(W, x)
       /\ \A x : poplist(x)' = poplist(x)
  BY RenameLater
<1>16. ASSUME NEW k \in 1 .. m
       PROVE  r[k][1] = "enter" /\ Su[k + 1] = Su[k] /\ Top(Su[k]) = Up(U, r[k][2])
  <2>1. k \in 1 .. m + 1 /\ k + 1 \in 1 .. m + 1
    BY <1>8
  <2>2. r[k] = <<"enter", arr[n[k]]>> /\ n[k] \in dfchildren[b]
    BY <1>4
  <2>3. Up(U, arr[n[k]]) = Top(q)
    BY <1>13, <1>14, <2>2 DEF Up
  <2>4. QED
    BY <1>10, <2>1, <2>2, <2>3
<1>17. /\ r[m + 1] = <<"leave", b>>
       /\ Su[(m + 1) + 1] = SubSeq(Su[m + 1], 1 + poplist(b), Len(Su[m + 1]))
  <2>1. m + 1 \in 1 .. m + 1 /\ 2 \in 2 .. l + 1 /\ 2 + m = (m + 1) + 1 /\ 1 + 1 = 2 /\ 1 \in 1 .. l
    BY <1>8
  <2>2. Su[m + 1] = q /\ Su[(m + 1) + 1] = St[2]
    BY <1>10, <2>1
  <2>3. St[2] = stack
    BY <1>1, <1>5, <2>1
  <2>4. QED
    BY <1>4, <1>6, <2>2, <2>3
<1>18. ASSUME NEW j \in 2 .. l
       PROVE  /\ r[j + m] = calls[j]
              /\ calls[j][1] = "enter" => Su[(j + m) + 1] = Su[j + m] /\ Top(Su[j + m]) = Up(U, calls[j][2])
              /\ calls[j][1] = "leave" =>
                   Su[(j + m) + 1] = SubSeq(Su[j + m], 1 + poplist(calls[j][2]), Len(Su[j + m]))
  <2>1. j \in 1 .. Len(calls) /\ j \in 2 .. l + 1 /\ j + 1 \in 2 .. l + 1 /\ (j + 1) + m = (j + m) + 1
    BY <1>7, <1>8
  <2>2. Su[j + m] = St[j] /\ Su[(j + m) + 1] = St[j + 1]
    BY <1>10, <2>1
  <2>3. r[j + m] = calls[j]
    BY <1>4, <1>7
  <2>4. calls[j][1] = "enter" => Up(U, calls[j][2]) = Up(V, calls[j][2])
    <3>1. SUFFICES ASSUME calls[j][1] = "enter", calls[j][2] # 1
                   PROVE  U[arr[idom[calls[j][2]]]] = V[arr[idom[calls[j][2]]]]
      BY DEF Up
    <3>2. arr[idom[calls[j][2]]] \in E
      BY <1>1, <2>1, <3>1
    <3>3. QED
      BY <1>2, <1>13, <3>2, ReachableIs
  <2>5. QED
    BY <1>5, <2>1, <2>2, <2>3, <2>4
<1>19. ASSUME NEW k \in 1 .. m + l
       PROVE  /\ r[k][1] = "enter" => Su[k + 1] = Su[k] /\ Top(Su[k]) = Up(U, r[k][2])
              /\ r[k][1] = "leave" => Su[k + 1] = SubSeq(Su[k], 1 + poplist(r[k][2]), Len(Su[k]))
  <2>1. CASE k \in 1 .. m
    BY <1>16, <2>1
  <2>2. CASE k = m + 1
    BY <1>17, <2>2
  <2>3. CASE k - m \in 2 .. l /\ k = (k - m) + m
    <3>1. PICK j \in 2 .. l : j = k - m
      BY <2>3
    <3>2. k = j + m
      BY <2>3, <3>1
    <3>3. QED
      BY <1>18, <3>2
  <2>4. QED
    BY <1>4, <1>7, <1>8, <2>1, <2>2, <2>3
<1>20. (Len(calls))' = m + l
  BY <1>3, <1>8
<1>21. Stacks(U, Su)'
  BY <1>3, <1>6, <1>11, <1>12, <1>15, <1>19, <1>20 DEF Stacks
<1>22. QED
  BY <1>21

(* Dropping the first call.                                                *)
Dropped(r, c) ==
  /\ r \in Seq(Call) /\ Len(r) \in Nat /\ Len(c) = Len(r) + 1
  /\ \A k \in 1 .. Len(r) : r[k] = c[k + 1] /\ k + 1 \in 1 .. Len(c)
  /\ \A k \in 2 .. Len(c) : k - 1 \in 1 .. Len(r) /\ k = (k - 1) + 1

LEMMA DropFirst ==
  ASSUME NEW c \in Seq(Call), c # <<>>, NEW r, r = Tail(c)
  PROVE  Dropped(r, c)
<1>1. /\ r \in Seq(Call) /\ Len(c) \in Nat /\ Len(c) >= 1 /\ Len(r) = Len(c) - 1
      /\ \A k \in 1 .. Len(r) : r[k] = c[k + 1]
  OBVIOUS
<1>2. \A l \in Nat : l >= 1 => /\ l - 1 \in Nat /\ l = (l - 1) + 1
                               /\ \A k \in 1 .. l - 1 : k + 1 \in 1 .. l
                               /\ \A k \in 2 .. l : k - 1 \in 1 .. l - 1 /\ k = (k - 1) + 1
  OBVIOUS
<1>3. PICK l : l = Len(c)
  OBVIOUS
<1>4. QED
  BY <1>1, <1>2, <1>3 DEF Dropped

(* Leaving a block keeps Awaited.                                          *)
LEMMA LeaveAwaits ==
  ASSUME NEW E, Awaited(E), calls # <<>>, calls[1][1] = "leave", calls' = Tail(calls),
         UNCHANGED <<domvars, body, phi>>
  PROVE  Awaited(E)'
<1>1. /\ calls \in Seq(Call) /\ Len(calls) \in Nat /\ 1 \in 1 .. Len(calls)
      /\ \A k \in 1 .. Len(calls) : calls[k][1] = "enter" =>
           calls[k][2] \in Reachable \ E /\ (calls[k][2] # 1 => arr[idom[calls[k][2]]] \in E)
      /\ \A j, k \in 1 .. Len(calls) :
           calls[j][1] = "enter" /\ calls[k][1] = "enter" /\ calls[j][2] = calls[k][2] => j = k
      /\ \A c \in Reachable \ E : c = 1 \/ arr[idom[c]] \in E =>
           \E k \in 1 .. Len(calls) : calls[k] = <<"enter", c>>
  <2>1. calls \in Seq(Call)
    BY DEF Awaited
  <2>2. Len(calls) \in Nat /\ 1 \in 1 .. Len(calls)
    BY <2>1
  <2>3. QED
    BY <2>1, <2>2 DEF Awaited
<1>2. PICK r : r = calls'
  OBVIOUS
<1>3. Dropped(r, calls)
  BY <1>1, <1>2, DropFirst
<1>4. /\ r \in Seq(Call) /\ Len(r) \in Nat
      /\ \A k \in 1 .. Len(r) : r[k] = calls[k + 1] /\ k + 1 \in 1 .. Len(calls)
      /\ \A k \in 2 .. Len(calls) : k - 1 \in 1 .. Len(r) /\ k = (k - 1) + 1
  BY <1>3 DEF Dropped
<1>5. Reachable' = Reachable /\ arr' = arr /\ idom' = idom
  BY RenameLater
<1>6. ASSUME NEW k \in 1 .. Len(r), r[k][1] = "enter"
      PROVE  r[k][2] \in Reachable \ E /\ (r[k][2] # 1 => arr[idom[r[k][2]]] \in E)
  BY <1>1, <1>4, <1>6
<1>7. ASSUME NEW j \in 1 .. Len(r), NEW k \in 1 .. Len(r), r[j][1] = "enter", r[k][1] = "enter",
             r[j][2] = r[k][2]
      PROVE  j = k
  <2>1. j + 1 = k + 1
    BY <1>1, <1>4, <1>7
  <2>2. j \in Nat /\ k \in Nat
    BY <1>4
  <2>3. QED
    BY <2>1, <2>2
<1>8. ASSUME NEW c \in Reachable \ E, c = 1 \/ arr[idom[c]] \in E
      PROVE  \E k \in 1 .. Len(r) : r[k] = <<"enter", c>>
  <2>1. PICK k \in 1 .. Len(calls) : calls[k] = <<"enter", c>>
    BY <1>1, <1>8
  <2>2. k # 1
    BY <1>1, <2>1
  <2>3. k \in 2 .. Len(calls)
    BY <1>1, <2>2
  <2>4. PICK j \in 1 .. Len(r) : k = j + 1
    BY <1>4, <2>3
  <2>5. r[j] = <<"enter", c>>
    BY <1>4, <2>1, <2>4
  <2>6. QED
    BY <2>5
<1>9. (calls \in Seq(Call))'
  BY <1>2, <1>4 DEF Call
<1>10. (\A k \in 1 .. Len(calls) : calls[k][1] = "enter" =>
           /\ calls[k][2] \in Reachable \ E
           /\ calls[k][2] # 1 => arr[idom[calls[k][2]]] \in E)'
  BY <1>2, <1>5, <1>6
<1>11. (\A j, k \in 1 .. Len(calls) :
          calls[j][1] = "enter" /\ calls[k][1] = "enter" /\ calls[j][2] = calls[k][2] => j = k)'
  BY <1>2, <1>7
<1>12. (\A c \in Reachable \ E : c = 1 \/ arr[idom[c]] \in E =>
          \E k \in 1 .. Len(calls) : calls[k] = <<"enter", c>>)'
  BY <1>2, <1>5, <1>8
<1>13. QED
  BY <1>9, <1>10, <1>11, <1>12 DEF Awaited

(* Leaving a block keeps Stacks: the stack is the one before the next      *)
(* call.                                                                   *)
LEMMA LeaveStacks ==
  ASSUME NEW V, NEW E, Awaited(E), calls # <<>>, calls[1][1] = "leave", Leave(calls[1][2]),
         UNCHANGED <<domvars, body, phi>>, NEW St, Stacks(V, St)
  PROVE  \E Su : Stacks(V, Su)'
<1>1. calls \in Seq(Call)
  BY DEF Awaited
<1>2. PICK r : r = calls'
  OBVIOUS
<1>3. Dropped(r, calls)
  BY <1>1, <1>2, DropFirst DEF Leave
<1>4. /\ r \in Seq(Call) /\ Len(r) \in Nat /\ Len(calls) = Len(r) + 1
      /\ \A k \in 1 .. Len(r) : r[k] = calls[k + 1] /\ k + 1 \in 1 .. Len(calls)
  BY <1>3 DEF Dropped
<1>5. /\ \A k \in 1 .. Len(calls) + 1 : St[k] \in Seq(Nat)
      /\ St[1] = stack
      /\ \A k \in 1 .. Len(calls) :
           /\ calls[k][1] = "enter" => St[k + 1] = St[k] /\ Top(St[k]) = Up(V, calls[k][2])
           /\ calls[k][1] = "leave" => St[k + 1] = SubSeq(St[k], 1 + poplist(calls[k][2]), Len(St[k]))
  BY DEF Stacks
<1>6. PICK l : l = Len(r)
  OBVIOUS
<1>7. l \in Nat /\ Len(calls) = l + 1
  BY <1>4, <1>6
<1>8. PICK Su : Su = [k \in 1 .. l + 1 |-> St[k + 1]]
  OBVIOUS
<1>9. /\ \A k \in 1 .. l + 1 : k + 1 \in 1 .. (l + 1) + 1
      /\ \A k \in 1 .. l : k \in 1 .. l + 1 /\ k + 1 \in 1 .. l + 1
      /\ 1 \in 1 .. l + 1 /\ 1 + 1 = 2
  BY <1>7
<1>10. /\ \A k \in 1 .. l + 1 : Su[k] \in Seq(Nat)
  BY <1>5, <1>7, <1>8, <1>9
<1>11. Su[1] = stack'
  <2>1. Su[1] = St[2]
    BY <1>8, <1>9
  <2>2. St[2] = SubSeq(stack, 1 + poplist(calls[1][2]), Len(stack))
    BY <1>5, <1>7, <1>9
  <2>3. QED
    BY <2>1, <2>2 DEF Leave
<1>12. /\ \A W, x : Up(W, x)' = Up(W, x)
       /\ \A x : poplist(x)' = poplist(x)
  BY RenameLater
<1>13. ASSUME NEW k \in 1 .. l
       PROVE  /\ r[k][1] = "enter" => Su[k + 1] = Su[k] /\ Top(Su[k]) = Up(V, r[k][2])
              /\ r[k][1] = "leave" => Su[k + 1] = SubSeq(Su[k], 1 + poplist(r[k][2]), Len(Su[k]))
  <2>1. Su[k] = St[k + 1] /\ Su[k + 1] = St[(k + 1) + 1] /\ r[k] = calls[k + 1] /\ k + 1 \in 1 .. Len(calls)
    BY <1>4, <1>6, <1>8, <1>9
  <2>2. QED
    BY <1>5, <2>1
<1>14. (Len(calls))' = l
  BY <1>2, <1>6
<1>15. Stacks(V, Su)'
  BY <1>2, <1>10, <1>11, <1>12, <1>13, <1>14 DEF Stacks
<1>16. QED
  BY <1>15

(* Nothing a finished call has recorded changes.                           *)
LEMMA RecordedLater ==
  ASSUME UNCHANGED <<domvars, body, phi, newtmpregno, used, made, ip_tmpnum, intmpregno>>
  PROVE  \A V, b : Recorded(V, b)' <=> Recorded(V, b)
<1>1. /\ newtmpregno' = newtmpregno /\ used' = used /\ made' = made /\ ip_tmpnum' = ip_tmpnum
      /\ intmpregno' = intmpregno
  OBVIOUS
<1>2. /\ \A x : (reads(x)' <=> reads(x)) /\ (writes(x)' <=> writes(x))
      /\ \A W, x : Up(W, x)' = Up(W, x)
      /\ \A x, y : (Edge(x, y)' <=> Edge(x, y)) /\ EntryOf(x, y)' = EntryOf(x, y)
      /\ phi' = phi
  BY RenameLater
<1>3. \A V, b : Arrives(V, b)' = Arrives(V, b)
  BY <1>1, <1>2 DEF Arrives
<1>4. QED
  BY <1>1, <1>2, <1>3 DEF Recorded

LEMMA VersionsLater ==
  ASSUME Versions, UNCHANGED <<domvars, body, phi>>,
         UNCHANGED <<newtmpregno, used, made, ip_tmpnum, intmpregno>>
  PROVE  Versions'
<1>1. \A b : parents(b)' = parents(b)
  BY RenameLater
<1>2. QED
  BY <1>1 DEF Versions

LEMMA RecordsLater ==
  ASSUME NEW V, NEW E, Entered(V, E), Versions, UNCHANGED <<domvars, body, phi>>,
         UNCHANGED <<newtmpregno, used, made, ip_tmpnum, intmpregno>>
  PROVE  Entered(V, E)' /\ Versions'
<1>1. Reachable' = Reachable /\ arr' = arr /\ idom' = idom
  BY RenameLater
<1>2. \A b : Recorded(V, b)' <=> Recorded(V, b)
  BY RecordedLater
<1>3. Entered(V, E)'
  BY <1>1, <1>2 DEF Entered
<1>4. QED
  BY <1>3, VersionsLater

-----------------------------------------------------------------------------
(* The renaming, between two calls: the blocks of E have been entered, and *)
(* those still to be entered will find the right version on the stack.     *)
Renaming == \E V, E, St : Entered(V, E) /\ Awaited(E) /\ Stacks(V, St)

(* A call of renamevar, or its return, keeps the renaming right.           *)
LEMMA RenameKeeps ==
  ASSUME JumpsRight, NEW A, Complete(A), Versions, Renaming, renamevar
  PROVE  Versions' /\ Renaming'
<1>1. PICK V, E, St : Entered(V, E) /\ Awaited(E) /\ Stacks(V, St)
  BY DEF Renaming
<1>2. calls # <<>> /\ UNCHANGED <<domvars, body, phi>>
  BY DEF renamevar
<1>3. V \in [Block -> Nat] /\ E \subseteq Reachable /\ \A x \in E : x # 1 => arr[idom[x]] \in E
  BY <1>1 DEF Entered
<1>4. calls \in Seq(Call) /\ Len(calls) \in Nat /\ 1 \in 1 .. Len(calls) /\ 1 \in 1 .. Len(calls) + 1
  <2>1. calls \in Seq(Call)
    BY <1>1 DEF Awaited
  <2>2. QED
    BY <1>2, <2>1
<1>5. calls[1] \in Call
  BY <1>4
<1>6. CASE calls[1][1] = "enter" /\ Enter(calls[1][2])
  <2>1. PICK b : b = calls[1][2]
    OBVIOUS
  <2>2. b \in Reachable \ E /\ (b # 1 => arr[idom[b]] \in E) /\ b \in Block
    BY <1>1, <1>4, <1>6, <2>1, ReachableIs DEF Awaited
  <2>3. stack \in Seq(Nat) /\ Top(stack) = Up(V, b)
    BY <1>1, <1>4, <1>6, <2>1 DEF Stacks
  <2>4. PICK q : EnterDone(b, q)
    BY <1>6, <2>1, <2>2, <2>3, EnterDoes
  <2>5. PICK n : Called(b, n)
    BY <1>2, <1>4, <1>6, <2>1, <2>2, EnterCalls
  <2>6. PICK U : U = [V EXCEPT ![b] = Top(q)]
    OBVIOUS
  <2>7. Entered(U, E \cup {b})' /\ Versions'
    BY <1>1, <1>2, <2>2, <2>3, <2>4, <2>6, EnterRecords
  <2>8. Awaited(E \cup {b})'
    BY <1>1, <1>2, <1>3, <1>6, <2>1, <2>5, EnterAwaits
  <2>9. \E Su : Stacks(U, Su)'
    BY <1>1, <1>2, <1>3, <1>6, <2>1, <2>4, <2>5, <2>6, EnterStacks
  <2>10. QED
    BY <2>7, <2>8, <2>9 DEF Renaming
<1>7. CASE calls[1][1] = "leave" /\ Leave(calls[1][2])
  <2>1. Awaited(E)'
    BY <1>1, <1>2, <1>7, LeaveAwaits DEF Leave
  <2>2. \E Su : Stacks(V, Su)'
    BY <1>1, <1>2, <1>7, LeaveStacks
  <2>3. Entered(V, E)' /\ Versions'
    BY <1>1, <1>2, <1>7, RecordsLater DEF Leave
  <2>4. QED
    BY <2>1, <2>2, <2>3 DEF Renaming
<1>8. QED
  BY <1>6, <1>7 DEF renamevar

(* liveanal finds the blocks the variable is live into.                    *)
LEMMA LiveStart ==
  ASSUME liveanal
  PROVE  Live'
<1>1. PICK first \in {"none", "write"}, last \in {"none", "read"},
           f \in [2 .. NBlocks - 1 -> IF ip_labels = <<>> THEN Inner ELSE InnerTaken] :
        body' = [b \in Block |-> IF b = 1 THEN first ELSE IF b = NBlocks THEN last ELSE f[b]]
  BY DEF liveanal
<1>2. in' = LiveIn(body') /\ jump' = jump /\ ip_labels' = ip_labels
  BY DEF liveanal, domvars
<1>3. ASSUME NEW b \in Block PROVE body'[b] \in Body
  <2>1. CASE b = 1 \/ b = NBlocks
    BY <1>1, <2>1 DEF Body
  <2>2. CASE b # 1 /\ b # NBlocks
    <3>1. b \in 2 .. NBlocks - 1
      BY <2>2, BlockIs DEF Block
    <3>2. f[b] \in Inner \cup InnerTaken
      BY <1>1, <3>1
    <3>3. QED
      BY <1>1, <2>2, <3>2, SsaAssumption
  <2>3. QED
    BY <2>1, <2>2
<1>4. PICK g : g = body'
  OBVIOUS
<1>5. PICK gen : gen = {b \in Block : g[b] \in {"read", "update"}}
  OBVIOUS
<1>6. /\ gen \subseteq LiveIn(g)
      /\ \A a, b \in Block : b \in LiveIn(g) /\ Edge(a, b) /\ g[a] = "none" => a \in LiveIn(g)
  BY <1>5, LiveInIs
<1>7. \A a, b : Edge(a, b)' <=> Edge(a, b)
  BY <1>2, EdgeLater
<1>8. (\A b \in Block : reads(b) => b \in in)'
  BY <1>2, <1>4, <1>5, <1>6 DEF reads
<1>9. (\A a, b \in Block : b \in in /\ Edge(a, b) => a \in in \/ writes(a))'
  <2>1. \A b \in Block : g[b] = "read" => b \in LiveIn(g)
    BY <1>5, <1>6
  <2>2. \A b \in Block : g[b] \in {"none", "read"} \/ writes(b)'
    BY <1>3, <1>4 DEF writes, Body
  <2>3. QED
    BY <1>2, <1>4, <1>6, <1>7, <2>1, <2>2
<1>10. QED
  BY <1>8, <1>9 DEF Live

LEMMA LiveLater ==
  ASSUME Live, UNCHANGED <<domvars, body, in>>
  PROVE  Live'
<1>1. jump' = jump /\ ip_labels' = ip_labels /\ body' = body /\ in' = in
  BY DEF domvars
<1>2. \A a, b : Edge(a, b)' <=> Edge(a, b)
  BY <1>1, EdgeLater
<1>3. \A b : (reads(b)' <=> reads(b)) /\ (writes(b)' <=> writes(b))
  BY <1>1 DEF reads, writes
<1>4. QED
  BY <1>1, <1>2, <1>3 DEF Live

LEMMA ClosedLater ==
  ASSUME Closed, UNCHANGED <<domvars, body, in, phi>>
  PROVE  Closed'
<1>1. arr' = arr /\ df' = df /\ body' = body /\ in' = in /\ phi' = phi
  BY DEF domvars
<1>2. \A n : Ends(n)' = Ends(n)
  BY <1>1 DEF Ends
<1>3. Aorig' = Aorig
  BY <1>1 DEF Aorig, writes
<1>4. QED
  BY <1>1, <1>2, <1>3 DEF Closed

-----------------------------------------------------------------------------
(* Before the renaming no version exists but the old name.                 *)
Unnamed == newtmpregno = Zero /\ used = Zero /\ made = Zero /\ ip_tmpnum = 1

(* placePhiFunctions places a closed set, and renamevar starts right.      *)
LEMMA RenameStart ==
  ASSUME NEW A, Complete(A), Unnamed, placePhiFunctions
  PROVE  Closed' /\ Versions' /\ Renaming'
<1>1. /\ UNCHANGED <<domvars, body, in, newtmpregno, used, made, ip_tmpnum>>
      /\ phi' = placed
      /\ intmpregno' = [b \in Block |-> [i \in DOMAIN parents(b) |-> 0]]
      /\ stack' = IF Aorig = {} THEN <<>> ELSE <<0>>
      /\ calls' = <<<<"enter", 1>>>>
  BY DEF placePhiFunctions
<1>2. /\ jump' = jump /\ ip_labels' = ip_labels /\ arr' = arr /\ df' = df /\ idom' = idom /\ body' = body /\ in' = in
      /\ newtmpregno' = newtmpregno /\ used' = used /\ made' = made /\ ip_tmpnum' = ip_tmpnum
  BY <1>1 DEF domvars
<1>3. PICK p : p = placed
  OBVIOUS
<1>4. /\ p \subseteq Block /\ p \subseteq in /\ 1 \notin p
      /\ \A n \in Aorig \cup p : \A b \in Ends(n) : b \in in => b \in p
  BY <1>3, PlacedIs
<1>5. phi' = p
  BY <1>1, <1>3
<1>6. \A n : Ends(n)' = Ends(n)
  BY <1>2 DEF Ends
<1>7. Aorig' = Aorig
  BY <1>2 DEF Aorig, writes
<1>8. Closed'
  BY <1>2, <1>4, <1>5, <1>6, <1>7 DEF Closed
<1>9. \A b : parents(b)' = parents(b)
  <2>1. \A b : child(b)' = child(b)
    BY <1>2 DEF child, kind
  <2>2. QED
    BY <2>1 DEF parents
<1>10. Zero \in [Block -> Nat]
  BY DEF Zero
<1>11. Versions'
  <2>1. (newtmpregno \in [Block -> Nat] /\ used \in [Block -> Nat] /\ made \in [Block -> Nat])'
    BY <1>2, <1>10 DEF Unnamed
  <2>2. (ip_tmpnum \in Nat /\ ip_tmpnum > 0)'
    BY <1>2 DEF Unnamed
  <2>3. (phi \subseteq Block)'
    BY <1>4, <1>5
  <2>4. (\A c \in Block : DOMAIN intmpregno[c] = DOMAIN parents(c))'
    BY <1>1, <1>9
  <2>5. (intmpregno = [c \in Block |-> intmpregno[c]])'
    BY <1>1
  <2>6. QED
    BY <2>1, <2>2, <2>3, <2>4, <2>5 DEF Versions
<1>12. PICK s : s = stack'
  OBVIOUS
<1>13. s \in Seq(Nat) /\ Top(s) = 0
  <2>1. CASE s = <<>>
    BY <2>1 DEF Top
  <2>2. CASE s = <<0>>
    BY <2>2 DEF Top
  <2>3. QED
    BY <1>1, <1>12, <2>1, <2>2
<1>14. PICK V : V = Zero
  OBVIOUS
<1>15. PICK St : St = [k \in 1 .. 2 |-> s]
  OBVIOUS
<1>16. Reachable' = Reachable /\ 1 \in Reachable /\ 1 \in Block
  BY <1>2, ReachableLater, ReachableIs
<1>17. Entered(V, {})'
  BY <1>10, <1>14 DEF Entered
<1>18. PICK c : c = calls'
  OBVIOUS
<1>19. /\ c \in Seq(Call) /\ Len(c) = 1 /\ c[1] = <<"enter", 1>>
       /\ \A k \in 1 .. Len(c) : k = 1
       /\ 1 \in 1 .. Len(c)
  <2>1. <<"enter", 1>> \in Call
    BY <1>16 DEF Call
  <2>2. c = <<<<"enter", 1>>>>
    BY <1>1, <1>18
  <2>3. c \in Seq(Call) /\ Len(c) = 1 /\ c[1] = <<"enter", 1>>
    BY <2>1, <2>2
  <2>4. QED
    BY <2>3
<1>20. Awaited({})'
  <2>1. (calls \in Seq(Call))'
    BY <1>18, <1>19 DEF Call
  <2>2. (\A k \in 1 .. Len(calls) : calls[k][1] = "enter" =>
           /\ calls[k][2] \in Reachable \ {}
           /\ calls[k][2] # 1 => arr[idom[calls[k][2]]] \in {})'
    BY <1>16, <1>18, <1>19
  <2>3. (\A j, k \in 1 .. Len(calls) :
          calls[j][1] = "enter" /\ calls[k][1] = "enter" /\ calls[j][2] = calls[k][2] => j = k)'
    BY <1>18, <1>19
  <2>4. (\A b \in Reachable \ {} : b = 1 \/ arr[idom[b]] \in {} =>
          \E k \in 1 .. Len(calls) : calls[k] = <<"enter", b>>)'
    BY <1>18, <1>19
  <2>5. QED
    BY <2>1, <2>2, <2>3, <2>4 DEF Awaited
<1>21. Stacks(V, St)'
  <2>1. St[1] = s /\ St[2] = s /\ 1 + 1 = 2 /\ \A k \in 1 .. 1 + 1 : St[k] = s
    BY <1>15
  <2>2. Up(V, 1)' = 0
    BY DEF Up
  <2>3. (\A k \in 1 .. Len(calls) + 1 : St[k] \in Seq(Nat))'
    BY <1>13, <1>18, <1>19, <2>1
  <2>4. (St[1] = stack)'
    BY <1>12, <2>1
  <2>5. (\A k \in 1 .. Len(calls) :
           /\ calls[k][1] = "enter" => St[k + 1] = St[k] /\ Top(St[k]) = Up(V, calls[k][2])
           /\ calls[k][1] = "leave" => St[k + 1] = SubSeq(St[k], 1 + poplist(calls[k][2]), Len(St[k])))'
    <3>1. c[1][1] = "enter" /\ c[1][2] = 1
      BY <1>19
    <3>2. St[1 + 1] = St[1] /\ Top(St[1])' = 0
      BY <1>13, <2>1 DEF Top
    <3>3. QED
      BY <1>18, <1>19, <2>2, <3>1, <3>2
  <2>6. QED
    BY <2>3, <2>4, <2>5 DEF Stacks
<1>22. Renaming'
  BY <1>17, <1>20, <1>21 DEF Renaming
<1>23. QED
  BY <1>8, <1>11, <1>22

(* When the calls are used up every block has been entered.                *)
Renamed == \E V \in [Block -> Nat] : \A b \in Reachable : Recorded(V, b)

LEMMA RenameEnds ==
  ASSUME NEW A, Complete(A), Renaming, calls = <<>>
  PROVE  Renamed
<1>1. PICK V, E, St : Entered(V, E) /\ Awaited(E) /\ Stacks(V, St)
  BY DEF Renaming
<1>2. \A b \in Reachable \ E : ~(b = 1 \/ arr[idom[b]] \in E)
  <2>1. \A k \in 1 .. Len(calls) : FALSE
    OBVIOUS
  <2>2. QED
    BY <1>1, <2>1 DEF Awaited
<1>3. /\ Size \in Nat /\ \A i \in 1 .. Size : arr[i] \in Reachable /\ dfnum[arr[i]] = i
      /\ \A b \in Reachable : dfnum[b] \in 1 .. Size /\ arr[dfnum[b]] = b
  BY TreeIs DEF Complete
<1>4. \A b \in Reachable \ {1} : idom[b] \in 1 .. Size /\ idom[b] \in 1 .. dfnum[b] - 1
  BY DEF Complete, IdomTree, Immediate
<1> DEFINE S == {n \in Nat : \A i \in 1 .. n : i \in 1 .. Size => arr[i] \in E}
<1>5. 0 \in S
  OBVIOUS
<1>6. ASSUME NEW n \in Nat, n \in S PROVE n + 1 \in S
  <2>1. SUFFICES ASSUME n + 1 \in 1 .. Size, arr[n + 1] \notin E PROVE FALSE
    <3>1. \A i \in 1 .. n + 1 : i \in 1 .. n \/ i = n + 1
      OBVIOUS
    <3>2. QED
      BY <1>6, <3>1
  <2>2. PICK b : b = arr[n + 1]
    OBVIOUS
  <2>3. b \in Reachable \ E /\ dfnum[b] = n + 1 /\ b # 1
    BY <1>2, <1>3, <2>1, <2>2
  <2>4. PICK i \in 1 .. Size : i = idom[b] /\ i \in 1 .. (n + 1) - 1
    BY <1>4, <2>3
  <2>5. i \in 1 .. n
    BY <2>4
  <2>6. arr[i] \in E
    BY <1>6, <2>4, <2>5
  <2>7. QED
    BY <1>2, <2>3, <2>4, <2>6
<1>7. Size \in S
  <2> HIDE DEF S
  <2>1. Nat \subseteq S
    BY <1>5, <1>6, SetInduction
  <2>2. QED
    BY <1>3, <2>1
<1>8. \A b \in Reachable : b \in E
  BY <1>3, <1>7
<1>9. QED
  BY <1>1, <1>8 DEF Entered, Renamed

(* The copies removephi has put on the ways out of a block.                *)
OnWay(a, b) == IF b \in phi THEN Copy(b, EntryOf(a, b)) ELSE <<>>

Copies ==
  \A b \in Block : b # NBlocks =>
    /\ \A c \in Block : onjump[b][c] = IF c \in targets(b) THEN OnWay(b, c) ELSE <<>>
    /\ Through(b) => onfall[b] = OnWay(b, b + 1)

LEMMA WaysLater ==
  ASSUME jump' = jump, ip_labels' = ip_labels
  PROVE  \A b : /\ kind(b)' = kind(b)
                /\ targets(b)' = targets(b)
                /\ Through(b)' <=> Through(b)
BY DEF kind, targets, Through

(* The blocks a block can go on to are its children.                       *)
LEMMA WaysAre ==
  ASSUME JumpsRight, NEW b \in Block, b # NBlocks
  PROVE  /\ \A c \in targets(b) : Edge(b, c) /\ c \in Block
         /\ Through(b) => Edge(b, b + 1) /\ b + 1 \in Block
<1>1. jump[b] \in Jump
  BY DEF JumpsRight
<1>2. kind(b) \in {"fall", "goto", "cbranch", "computed"}
  BY <1>1 DEF Jump, kind
<1>3. \A c : Edge(b, c) => c \in Block
  BY EdgeInto
<1>4. CASE kind(b) = "fall"
  <2>1. child(b) = <<b + 1>> /\ targets(b) = {}
    BY <1>4, ChildIs DEF targets
  <2>2. Edge(b, b + 1)
    BY <2>1 DEF Edge
  <2>3. QED
    BY <1>3, <2>1, <2>2
<1>5. CASE kind(b) = "goto"
  <2>1. child(b) = <<jump[b][2]>> /\ targets(b) = {jump[b][2]} /\ ~Through(b)
    BY <1>5, ChildIs DEF targets, Through
  <2>2. Edge(b, jump[b][2])
    BY <2>1 DEF Edge
  <2>3. QED
    BY <1>3, <2>1, <2>2
<1>6. CASE kind(b) = "cbranch"
  <2>1. child(b) = <<jump[b][2], b + 1>> /\ targets(b) = {jump[b][2]}
    BY <1>6, ChildIs DEF targets
  <2>2. Edge(b, jump[b][2]) /\ Edge(b, b + 1)
    BY <2>1 DEF Edge
  <2>3. QED
    BY <1>3, <2>1, <2>2
<1>7. CASE kind(b) = "computed"
  <2>1. child(b) = ip_labels /\ targets(b) = ToSet(ip_labels) /\ ~Through(b)
    BY <1>7, ChildIs DEF targets, Through
  <2>2. \A c \in targets(b) : Edge(b, c)
    BY <2>1 DEF Edge, ToSet
  <2>3. QED
    BY <1>3, <2>1, <2>2
<1>8. QED
  BY <1>2, <1>4, <1>5, <1>6, <1>7

(* H are the versions with the value of the variable, all of them as long  *)
(* as it was not assigned, at the start of a block.                        *)
Held(V, a, H) ==
  /\ a \in Reachable
  /\ a \in in => Arrives(V, a) \in H
  /\ 0 \in H => \A n \in 0 .. ip_tmpnum - 1 : n \in H

Running ==
  /\ Copies
  /\ \E V \in [Block -> Nat] : (\A b \in Reachable : Recorded(V, b)) /\ Held(V, bb, holds)

(* The versions with the value at the end of a block.                      *)
AtEnd(a, H) == IF writes(a) THEN {made[a]} ELSE H

LEMMA LastHeld ==
  ASSUME NEW A, Complete(A), Live,
         NEW V \in [Block -> Nat], \A b \in Reachable : Recorded(V, b),
         NEW a, NEW H, Held(V, a, H), NEW b, Edge(a, b), b \in in
  PROVE  V[a] \in AtEnd(a, H)
<1>1. a \in Reachable /\ (a \in in => Arrives(V, a) \in H) /\ a \in Block
  BY ReachableIs DEF Held
<1>2. b \in Block
  BY <1>1, EdgeInto DEF Complete, Tree
<1>3. V[a] = IF writes(a) THEN made[a] ELSE Arrives(V, a)
  BY <1>1 DEF Recorded
<1>4. a \in in \/ writes(a)
  BY <1>1, <1>2 DEF Live
<1>5. QED
  BY <1>1, <1>3, <1>4 DEF AtEnd

(* A copy on a way takes the last version of the block the way leaves.     *)
LEMMA OnWayIs ==
  ASSUME NEW A, Complete(A), NEW V \in [Block -> Nat], NEW a \in Reachable, Recorded(V, a),
         NEW b, Edge(a, b)
  PROVE  OnWay(a, b) = IF b \in phi /\ V[a] > 0 THEN <<newtmpregno[b], V[a]>> ELSE <<>>
<1>1. b \in Block
  BY ReachableIs, EdgeInto DEF Complete, Tree
<1>2. b \in phi => intmpregno[b][EntryOf(a, b)] = V[a]
  BY <1>1 DEF Recorded
<1>3. QED
  BY <1>2 DEF OnWay, Copy

(* Taking the way from a to b keeps Held when the copies on it, which may  *)
(* be for other blocks too, are all of the last version: without a phi     *)
(* function at b all ways into it bring the version of its immediate       *)
(* dominator, with one the copy brings it.                                 *)
LEMMA WayHolds ==
  ASSUME NEW A, Complete(A), Live, Closed, Versions,
         NEW V \in [Block -> Nat], \A b \in Reachable : Recorded(V, b),
         NEW a, NEW H, Held(V, a, H), NEW b, Edge(a, b),
         NEW X, \A c \in X : c \in phi /\ c \in Reachable,
         b \in phi /\ V[a] > 0 => b \in X,
         NEW K, K = AtEnd(a, H) \cup {newtmpregno[c] : c \in X}
  PROVE  Held(V, b, K)
<1>1. /\ a \in Reachable /\ (a \in in => Arrives(V, a) \in H)
      /\ 0 \in H => \A n \in 0 .. ip_tmpnum - 1 : n \in H
  BY DEF Held
<1>2. a \in Block /\ b \in Block /\ b # 1 /\ b \in Reachable
  <2>1. a \in Block
    BY <1>1, ReachableIs
  <2>2. b \in Block /\ b # 1
    BY <2>1, EdgeInto DEF Complete, Tree
  <2>3. QED
    BY <1>1, <2>1, <2>2, ReachableIs
<1>3. /\ \A c \in X : newtmpregno[c] \in 1 .. ip_tmpnum - 1
      /\ b \in phi => newtmpregno[b] \in 1 .. ip_tmpnum - 1
      /\ writes(a) => made[a] \in 1 .. ip_tmpnum - 1
  BY <1>1, <1>2 DEF Recorded
<1>5. phi \subseteq in /\ \A n \in Aorig \cup phi : \A x \in Ends(n) : x \in in => x \in phi
  BY DEF Closed
<1>6. PICK S : S = AtEnd(a, H)
  OBVIOUS
<1>7. b \in in => V[a] \in S
  BY <1>6, LastHeld
<1>8. \A n \in 1 .. ip_tmpnum - 1 : n \in Nat /\ n # 0 /\ n > 0 /\ n \in 0 .. ip_tmpnum - 1
  BY DEF Versions
<1>9. 0 \in K => \A n \in 0 .. ip_tmpnum - 1 : n \in K
  <2>1. \A c \in X : newtmpregno[c] # 0
    BY <1>3, <1>8
  <2>2. 0 \in K => 0 \in S
    BY <1>6, <2>1
  <2>3. 0 \in S => \A n \in 0 .. ip_tmpnum - 1 : n \in S
    BY <1>1, <1>3, <1>6, <1>8 DEF AtEnd
  <2>4. QED
    BY <1>6, <2>2, <2>3
<1>10. CASE b \in phi
  <2>1. b \in in /\ V[a] \in K /\ Arrives(V, b) = newtmpregno[b]
    BY <1>5, <1>6, <1>7, <1>10 DEF Arrives
  <2>2. CASE V[a] > 0
    <3>1. newtmpregno[b] \in K
      BY <1>10, <2>2
    <3>2. QED
      BY <1>2, <1>9, <2>1, <3>1 DEF Held
  <2>3. CASE ~(V[a] > 0)
    <3>1. V[a] \in Nat
      BY <1>2
    <3>2. V[a] = 0
      BY <2>3, <3>1
    <3>3. newtmpregno[b] \in K
      BY <1>3, <1>8, <1>9, <1>10, <2>1, <3>2
    <3>4. QED
      BY <1>2, <1>9, <2>1, <3>3 DEF Held
  <2>4. QED
    BY <2>2, <2>3
<1>11. CASE b \notin phi
  <2>2. ASSUME b \in in PROVE Arrives(V, b) = V[a]
    <3>1. PICK P : P = Aorig \cup phi
      OBVIOUS
    <3>2. \A n \in P : \A i \in df[n] : arr[i] \in in => arr[i] \in phi
      BY <1>5, <3>1 DEF Ends
    <3>3. \A x \in Reachable \ P : x # 1 => V[x] = V[arr[idom[x]]]
      <4>1. TAKE x \in Reachable \ P
      <4>2. x \in Block /\ ~writes(x) /\ x \notin phi
        BY <3>1, ReachableIs DEF Aorig
      <4>3. V[x] = Arrives(V, x)
        BY <4>2 DEF Recorded
      <4>4. QED
        BY <4>2, <4>3 DEF Arrives, Up
    <3>4. V[a] = V[arr[idom[b]]]
      BY <1>1, <1>11, <2>2, <3>2, <3>3, SameVersion
    <3>5. QED
      BY <1>2, <1>11, <3>4 DEF Arrives, Up
  <2>3. QED
    BY <1>2, <1>6, <1>7, <1>9, <2>2 DEF Held
<1>12. QED
  BY <1>10, <1>11

(* The copies of a jump, one after the other.                              *)
LEMMA AfterJumpIs ==
  ASSUME NEW a, NEW v, NEW X, X \subseteq Block,
         \A c \in Block : onjump[a][c] = IF c \in X THEN <<newtmpregno[c], v>> ELSE <<>>,
         X # {} => v \in Value
  PROVE  AfterJump(a) = Value \cup {newtmpregno[c] : c \in X}
<1> DEFINE Part(n) == Value \cup {newtmpregno[c] : c \in X \cap (1 .. n)}
           F(g) == [c \in Order |-> IF c = 0 THEN Value ELSE Done(g[c - 1], onjump[a][c])]
           g == [n \in Order |-> Part(n)]
           f == CHOOSE x : x = F(x)
<1>1. NBlocks \in Nat /\ Block = 1 .. NBlocks /\ Order = 0 .. NBlocks
  BY BlockIs DEF Block, Order
<1>2. \A c \in Order : c = 0 \/ (c \in Block /\ c - 1 \in Order)
  BY <1>1
<1>3. Part(0) = Value
  OBVIOUS
<1>4. ASSUME NEW c \in Block PROVE Part(c) = Done(Part(c - 1), onjump[a][c])
  <2>1. 1 .. c = (1 .. c - 1) \cup {c}
    BY <1>1
  <2>2. CASE c \in X
    <3>1. onjump[a][c] = <<newtmpregno[c], v>> /\ v \in Part(c - 1)
      BY <2>2
    <3>2. Done(Part(c - 1), onjump[a][c]) = Part(c - 1) \cup {newtmpregno[c]}
      BY <3>1 DEF Done
    <3>3. Part(c) = Part(c - 1) \cup {newtmpregno[c]}
      BY <2>1, <2>2
    <3>4. QED
      BY <3>2, <3>3
  <2>3. CASE c \notin X
    <3>1. onjump[a][c] = <<>>
      BY <2>3
    <3>2. Part(c) = Part(c - 1)
      BY <2>1, <2>3
    <3>3. QED
      BY <3>1, <3>2 DEF Done
  <2>4. QED
    BY <2>2, <2>3
<1>5. g = F(g)
  <2> HIDE DEF Part
  <2>1. \A c \in Order : Part(c) = IF c = 0 THEN Value ELSE Done(g[c - 1], onjump[a][c])
    BY <1>2, <1>3, <1>4
  <2>2. QED
    BY <2>1
<1>6. f = F(f)
  <2> HIDE DEF F, g
  <2>1. QED
    BY <1>5
<1>7. AfterJump(a) = f[NBlocks]
  BY DEF AfterJump
<1> HIDE DEF f, Part, g
<1>8. f[0] = Value /\ \A c \in Block : f[c] = Done(f[c - 1], onjump[a][c])
  BY <1>1, <1>6
<1> HIDE DEF F
<1> DEFINE T == {n \in Nat : n <= NBlocks => f[n] = Part(n)}
<1>9. 0 \in T
  BY <1>3, <1>8
<1>10. ASSUME NEW n \in Nat, n \in T PROVE n + 1 \in T
  <2>1. SUFFICES ASSUME n + 1 <= NBlocks PROVE f[n + 1] = Part(n + 1)
    OBVIOUS
  <2>2. n <= NBlocks /\ n + 1 \in Block /\ (n + 1) - 1 = n
    BY <1>1, <2>1
  <2>3. f[n] = Part(n)
    BY <1>10, <2>2
  <2>4. QED
    BY <1>4, <1>8, <2>2, <2>3
<1>11. NBlocks \in T
  <2> HIDE DEF T
  <2>1. QED
    BY <1>1, <1>9, <1>10, SetInduction
<1>12. f[NBlocks] = Part(NBlocks)
  BY <1>1, <1>11
<1>13. X \cap (1 .. NBlocks) = X
  BY <1>1
<1>14. QED
  BY <1>7, <1>12, <1>13 DEF Part

(* removephi puts the right copies on the ways: no block is the parent of  *)
(* the next one twice.                                                     *)
LEMMA RunStart ==
  ASSUME NEW A, Complete(A), Graph, ~BranchOn, Closed, Versions, Renamed, removephi
  PROVE  Running'
<1>1. /\ UNCHANGED <<domvars, body, in, phi, newtmpregno, intmpregno, used, made, ip_tmpnum>>
      /\ bb' = 1 /\ holds' = 0 .. ip_tmpnum - 1
      /\ onjump' = [b \in Block |-> JumpCopies(b)]
      /\ onfall' = [b \in Block |->
           IF b # NBlocks /\ Through(b) /\ b + 1 \in phi
           THEN Copy(b + 1, EntryOf(b, b + 1) + IF Twice(b, b + 1) THEN 1 ELSE 0)
           ELSE <<>>]
  BY DEF removephi
<1>2. PICK V \in [Block -> Nat] : \A b \in Reachable : Recorded(V, b)
  BY DEF Renamed
<1>3. JumpsRight
  BY DEF Complete, Tree
<1>4. ASSUME NEW b \in Block, b # NBlocks, Through(b), b + 1 \in phi
      PROVE  ~Twice(b, b + 1)
  <2>1. SUFFICES ASSUME child(b) = <<b + 1, b + 1>> PROVE FALSE
    BY DEF Twice
  <2>2. jump[b] \in Jump /\ kind(b) \in {"fall", "cbranch"}
    BY <1>3, <1>4 DEF JumpsRight, Through
  <2>3. CASE kind(b) = "fall"
    <3>1. child(b) = <<b + 1>>
      BY <1>3, <1>4, <2>3, ChildIs
    <3>2. QED
      BY <2>1, <3>1
  <2>4. CASE kind(b) = "cbranch"
    <3>1. child(b) = <<jump[b][2], b + 1>>
      BY <1>3, <1>4, <2>4, ChildIs
    <3>2. jump[b][2] = b + 1
      BY <2>1, <3>1
    <3>3. jump[b] = <<"cbranch", b + 1>>
      BY <2>2, <2>4, <3>2 DEF Jump, kind
    <3>4. b # 1
      BY <2>4 DEF Graph, kind
    <3>5. b \in 2 .. NBlocks - 1
      BY <1>4, <3>4, BlockIs DEF Block
    <3>6. QED
      BY <3>3, <3>5 DEF Graph
  <2>5. QED
    BY <1>4, <2>2, <2>3, <2>4
<1>5. /\ jump' = jump /\ ip_labels' = ip_labels /\ phi' = phi /\ in' = in /\ newtmpregno' = newtmpregno
      /\ intmpregno' = intmpregno /\ ip_tmpnum' = ip_tmpnum
  BY <1>1 DEF domvars
<1>6. /\ \A x, y : EntryOf(x, y)' = EntryOf(x, y)
      /\ Reachable' = Reachable
      /\ \A x : Up(V, x)' = Up(V, x)
      /\ \A b : targets(b)' = targets(b) /\ (Through(b)' <=> Through(b))
  BY <1>1, <1>5, RenameLater, WaysLater
<1>7. \A a, b : OnWay(a, b)' = OnWay(a, b)
  BY <1>5, <1>6 DEF OnWay, Copy
<1>8. ASSUME NEW b \in Block, b # NBlocks
      PROVE  /\ \A c \in Block : onjump'[b][c] = IF c \in targets(b) THEN OnWay(b, c) ELSE <<>>
             /\ Through(b) => onfall'[b] = OnWay(b, b + 1)
  <2>1. \A c \in Block : onjump'[b][c] = IF c \in targets(b) THEN OnWay(b, c) ELSE <<>>
    BY <1>1, <1>8 DEF OnWay, JumpCopies
  <2>2. ASSUME Through(b) PROVE onfall'[b] = OnWay(b, b + 1)
    <3>1. CASE b + 1 \in phi
      <4>1. onfall'[b] = Copy(b + 1, EntryOf(b, b + 1) + 0)
        BY <1>1, <1>4, <1>8, <2>2, <3>1
      <4>2. EntryOf(b, b + 1) \in Nat
        <5>1. phi \subseteq Block
          BY DEF Versions
        <5>2. Edge(b, b + 1)
          BY <1>3, <1>8, <2>2, WaysAre
        <5>3. EntryOf(b, b + 1) \in DOMAIN parents(b + 1)
          BY <1>3, <3>1, <5>1, <5>2, EntryIs
        <5>4. parents(b + 1) \in Seq(Block)
          BY <1>3, <3>1, <5>1, ParentsAre
        <5>5. QED
          BY <5>3, <5>4
      <4>3. EntryOf(b, b + 1) + 0 = EntryOf(b, b + 1)
        BY <4>2
      <4>4. QED
        BY <3>1, <4>1, <4>3 DEF OnWay
    <3>2. CASE b + 1 \notin phi
      BY <1>1, <3>2 DEF OnWay
    <3>3. QED
      BY <3>1, <3>2
  <2>3. QED
    BY <2>1, <2>2
<1>9. Copies'
  BY <1>5, <1>6, <1>7, <1>8 DEF Copies
<1>10. \A b \in Reachable : Recorded(V, b)'
  <2>1. Reachable \subseteq Block
    BY ReachableIs
  <2>2. \A b : Recorded(V, b)' <=> Recorded(V, b)
    BY <1>1, RecordedLater
  <2>3. QED
    BY <1>2, <2>2
<1>11. Held(V, bb, holds)'
  <2>1. bb' \in Reachable
    BY <1>1, ReachableIs
  <2>2. Arrives(V, 1)' = 0
    BY <1>5 DEF Arrives, Up, Closed
  <2>3. 0 \in 0 .. ip_tmpnum - 1
    BY DEF Versions
  <2>4. QED
    BY <1>1, <1>5, <1>6, <2>1, <2>2, <2>3 DEF Held
<1>12. QED
  BY <1>2, <1>6, <1>9, <1>10, <1>11 DEF Running

(* Each step of the program keeps the versions that a block expects.       *)
LEMMA RunStep ==
  ASSUME NEW A, Complete(A), Live, Closed, Versions, Running, Run
  PROVE  Running'
<1>1. /\ UNCHANGED <<domvars, body, in, phi, newtmpregno, intmpregno, used, made, ip_tmpnum, onjump, onfall>>
      /\ bb # NBlocks
      /\ \/ \E c \in targets(bb) : Goes(c, AfterJump(bb))
         \/ Through(bb) /\ Goes(bb + 1, Done(Value, onfall[bb]))
  BY DEF Run
<1>2. PICK V \in [Block -> Nat] : (\A b \in Reachable : Recorded(V, b)) /\ Held(V, bb, holds)
  BY DEF Running
<1>3. JumpsRight
  BY DEF Complete, Tree
<1>4. bb \in Block
  BY <1>2, ReachableIs DEF Held
<1>5. /\ jump' = jump /\ ip_labels' = ip_labels /\ phi' = phi /\ in' = in /\ newtmpregno' = newtmpregno /\ made' = made
      /\ intmpregno' = intmpregno /\ ip_tmpnum' = ip_tmpnum /\ onjump' = onjump /\ onfall' = onfall
  BY <1>1 DEF domvars
<1>6. /\ \A x, y : EntryOf(x, y)' = EntryOf(x, y)
      /\ Reachable' = Reachable
      /\ \A x : Up(V, x)' = Up(V, x)
      /\ \A b : targets(b)' = targets(b) /\ (Through(b)' <=> Through(b))
  BY <1>1, <1>5, RenameLater, WaysLater
<1>7. \A a, b : OnWay(a, b)' = OnWay(a, b)
  BY <1>5, <1>6 DEF OnWay, Copy
<1>8. Copies'
  BY <1>5, <1>6, <1>7 DEF Copies, Running
<1>9. \A b \in Reachable : Recorded(V, b)'
  <2>1. \A b : Recorded(V, b)' <=> Recorded(V, b)
    BY <1>1, RecordedLater
  <2>2. QED
    BY <1>2, <2>1
<1>a. Value = AtEnd(bb, holds)
  BY DEF Value, AtEnd
<1>b. bb \in Reachable /\ Recorded(V, bb) /\ phi \subseteq in
  BY <1>2 DEF Held, Closed
<1> DEFINE X(T) == {c \in T : c \in phi /\ V[bb] > 0}
<1>c. ASSUME NEW T, \A c \in T : Edge(bb, c) /\ c \in Block
      PROVE  /\ \A c \in T : OnWay(bb, c) = IF c \in X(T) THEN <<newtmpregno[c], V[bb]>> ELSE <<>>
             /\ X(T) # {} => V[bb] \in Value
             /\ \A c \in X(T) : c \in phi /\ c \in Reachable
  <2>1. \A c \in T : OnWay(bb, c) = IF c \in X(T) THEN <<newtmpregno[c], V[bb]>> ELSE <<>>
    BY <1>b, <1>c, OnWayIs
  <2>2. ASSUME NEW c \in X(T) PROVE V[bb] \in Value /\ c \in phi /\ c \in Reachable
    <3>1. c \in phi /\ c \in in /\ Edge(bb, c) /\ c \in Block
      BY <1>b, <1>c, <2>2
    <3>2. V[bb] \in AtEnd(bb, holds)
      BY <1>2, <3>1, LastHeld
    <3>3. QED
      BY <1>4, <1>a, <1>b, <3>1, <3>2, ReachableIs
  <2>3. QED
    BY <2>1, <2>2
<1> DEFINE Goal == \E b, T : /\ Edge(bb, b) /\ bb' = b /\ b \in T
                             /\ \A c \in T : Edge(bb, c) /\ c \in Block
                             /\ holds' = Value \cup {newtmpregno[c] : c \in X(T)}
<1>d. Goal
  <2>1. ASSUME NEW c \in targets(bb), Goes(c, AfterJump(bb))
        PROVE  Goal
    <3>1. PICK T : T = targets(bb)
      OBVIOUS
    <3>2. \A d \in T : Edge(bb, d) /\ d \in Block
      BY <1>1, <1>3, <1>4, <3>1, WaysAre
    <3>3. X(T) \subseteq Block
      BY <3>2
    <3>4. \A d \in Block : onjump[bb][d] = IF d \in T THEN OnWay(bb, d) ELSE <<>>
      BY <1>1, <1>4, <3>1 DEF Running, Copies
    <3>5. \A d \in Block : onjump[bb][d] = IF d \in X(T) THEN <<newtmpregno[d], V[bb]>> ELSE <<>>
      BY <1>c, <3>2, <3>4
    <3>6. X(T) # {} => V[bb] \in Value
      BY <1>c, <3>2
    <3> HIDE DEF X
    <3>7. AfterJump(bb) = Value \cup {newtmpregno[d] : d \in X(T)}
      BY <3>3, <3>5, <3>6, AfterJumpIs
    <3>8. Edge(bb, c) /\ bb' = c /\ c \in T
      BY <2>1, <3>1, <3>2 DEF Goes
    <3>9. holds' = Value \cup {newtmpregno[d] : d \in X(T)}
      BY <2>1, <3>7 DEF Goes
    <3>10. QED
      BY <3>2, <3>8, <3>9
  <2>2. ASSUME Through(bb), Goes(bb + 1, Done(Value, onfall[bb]))
        PROVE  Goal
    <3>1. PICK c : c = bb + 1
      OBVIOUS
    <3>2. Edge(bb, c) /\ c \in Block
      BY <1>1, <1>3, <1>4, <2>2, <3>1, WaysAre
    <3>3. onfall[bb] = OnWay(bb, c)
      BY <1>1, <1>4, <2>2, <3>1 DEF Running, Copies
    <3>4. PICK T : T = {c}
      OBVIOUS
    <3>5. \A d \in T : Edge(bb, d) /\ d \in Block
      BY <3>2, <3>4
    <3>6. /\ onfall[bb] = IF c \in X(T) THEN <<newtmpregno[c], V[bb]>> ELSE <<>>
          /\ X(T) # {} => V[bb] \in Value
      BY <1>c, <3>3, <3>4, <3>5
    <3>7. X(T) \subseteq {c}
      BY <3>4
    <3> HIDE DEF X
    <3>8. Done(Value, onfall[bb]) = Value \cup {newtmpregno[d] : d \in X(T)}
      <4>1. CASE c \in X(T)
        <5>1. X(T) = {c} /\ onfall[bb] = <<newtmpregno[c], V[bb]>> /\ V[bb] \in Value
          BY <3>6, <3>7, <4>1
        <5>2. QED
          BY <5>1 DEF Done
      <4>2. CASE c \notin X(T)
        <5>1. X(T) = {} /\ onfall[bb] = <<>>
          BY <3>6, <3>7, <4>2
        <5>2. QED
          BY <5>1 DEF Done
      <4>3. QED
        BY <4>1, <4>2
    <3>9. holds' = Value \cup {newtmpregno[d] : d \in X(T)} /\ bb' = c
      BY <2>2, <3>1, <3>8 DEF Goes
    <3>10. QED
      BY <3>2, <3>4, <3>5, <3>9
  <2> HIDE DEF Goal
  <2>3. QED
    BY <1>1, <2>1, <2>2
<1>10. PICK b, T : /\ Edge(bb, b) /\ bb' = b /\ b \in T
                   /\ \A c \in T : Edge(bb, c) /\ c \in Block
                   /\ holds' = Value \cup {newtmpregno[c] : c \in X(T)}
  <2> HIDE DEF X
  <2>1. QED
    BY <1>d
<1>11. PICK K : K = holds'
  OBVIOUS
<1>12. Held(V, b, K)
  <2>1. \A c \in X(T) : c \in phi /\ c \in Reachable
    BY <1>c, <1>10
  <2>2. b \in phi /\ V[bb] > 0 => b \in X(T)
    BY <1>10
  <2> HIDE DEF X
  <2>3. K = AtEnd(bb, holds) \cup {newtmpregno[c] : c \in X(T)}
    BY <1>a, <1>10, <1>11
  <2>4. QED
    BY <1>2, <1>10, <2>1, <2>2, <2>3, WayHolds
<1>13. \A x : Arrives(V, x)' = Arrives(V, x)
  BY <1>5, <1>6 DEF Arrives
<1>14. Held(V, bb, holds)'
  BY <1>5, <1>6, <1>10, <1>11, <1>12, <1>13 DEF Held
<1>15. QED
  BY <1>2, <1>6, <1>8, <1>9, <1>14 DEF Running

-----------------------------------------------------------------------------
(* The inductive invariant of the whole way.                               *)
Named ==
  /\ pc \in {"dfs", "semi", "df", "phi", "place"} => Unnamed
  /\ pc \in {"place", "rename", "run"} => Live
  /\ pc \in {"rename", "run"} => Closed /\ Versions
  /\ pc = "rename" => Renaming
  /\ pc = "run" => Running

SsaInv == DomInv /\ Graph /\ Named

(* The graph never changes.                                                *)
LEMMA GraphLater ==
  ASSUME Graph, [Next]_vars
  PROVE  Graph'
<1>1. jump' = jump /\ ip_labels' = ip_labels
  <2>1. CASE UNCHANGED vars
    BY <2>1 DEF vars, domvars
  <2>2. CASE Dominate
    BY <2>2 DEF Dominate, DomNext, cfg_dfs, Semi, SameDom, computeDF
  <2>3. CASE liveanal \/ placePhiFunctions \/ renamevar \/ removephi \/ Run
    BY <2>3 DEF liveanal, placePhiFunctions, renamevar, removephi, Run, domvars
  <2>4. CASE Returned
    BY <2>4 DEF Returned, vars, domvars
  <2>5. QED
    BY <2>1, <2>2, <2>3, <2>4 DEF Next
<1>2. \A b : (kind(b)' = kind(b)) /\ (Labelled(b)' <=> Labelled(b))
  BY <1>1 DEF kind, Labelled
<1>3. QED
  BY <1>1, <1>2 DEF Graph

LEMMA RunningLater ==
  ASSUME Running, UNCHANGED <<domvars, ssavars>>
  PROVE  Running'
<1>1. UNCHANGED <<domvars, body, phi, newtmpregno, used, made, ip_tmpnum, intmpregno>>
  BY DEF ssavars
<1>2. /\ jump' = jump /\ ip_labels' = ip_labels /\ phi' = phi /\ in' = in /\ newtmpregno' = newtmpregno
      /\ intmpregno' = intmpregno /\ ip_tmpnum' = ip_tmpnum /\ onjump' = onjump /\ onfall' = onfall
      /\ bb' = bb /\ holds' = holds
  BY DEF domvars, ssavars
<1>3. /\ \A x, y : EntryOf(x, y)' = EntryOf(x, y)
      /\ Reachable' = Reachable
      /\ \A V, x : Up(V, x)' = Up(V, x)
  BY <1>1, RenameLater
<1>4. \A b : targets(b)' = targets(b) /\ (Through(b)' <=> Through(b))
  BY <1>2, WaysLater
<1>5. \A a, b : OnWay(a, b)' = OnWay(a, b)
  BY <1>2, <1>3 DEF OnWay, Copy
<1>6. Copies'
  BY <1>2, <1>4, <1>5 DEF Running, Copies
<1>7. \A V, x : Arrives(V, x)' = Arrives(V, x)
  BY <1>2, <1>3 DEF Arrives
<1>8. \A V : Held(V, bb, holds) => Held(V, bb, holds)'
  BY <1>2, <1>3, <1>7 DEF Held
<1>9. \A V, b : Recorded(V, b)' <=> Recorded(V, b)
  BY <1>1, RecordedLater
<1>10. QED
  BY <1>3, <1>6, <1>8, <1>9 DEF Running

LEMMA RenamingLater ==
  ASSUME Renaming, Versions, UNCHANGED <<domvars, ssavars>>
  PROVE  Renaming' /\ Versions'
<1>1. UNCHANGED <<domvars, body, phi>> /\ UNCHANGED <<newtmpregno, used, made, ip_tmpnum, intmpregno>>
  BY DEF ssavars
<1>2. stack' = stack /\ calls' = calls
  BY DEF ssavars
<1>3. PICK V, E, St : Entered(V, E) /\ Awaited(E) /\ Stacks(V, St)
  BY DEF Renaming
<1>4. Entered(V, E)' /\ Versions'
  BY <1>1, <1>3, RecordsLater
<1>5. /\ Reachable' = Reachable /\ arr' = arr /\ idom' = idom
      /\ \A W, x : Up(W, x)' = Up(W, x)
      /\ \A x : poplist(x)' = poplist(x)
  BY <1>1, RenameLater
<1>6. Awaited(E)'
  BY <1>2, <1>3, <1>5 DEF Awaited, Call
<1>7. Stacks(V, St)'
  BY <1>2, <1>3, <1>5 DEF Stacks
<1>8. QED
  BY <1>4, <1>6, <1>7 DEF Renaming

LEMMA SsaStart ==
  ASSUME Init
  PROVE  SsaInv
<1>1. DomInv
  BY DomStart
<1>2. Graph /\ pc = "dfs"
  BY DEF Init, DomInit
<1>3. Unnamed
  BY DEF Init, Unnamed
<1>4. QED
  BY <1>1, <1>2, <1>3 DEF SsaInv, Named

(* The invariant is inductive.                                             *)
LEMMA SsaStep ==
  ASSUME ~BranchOn, SsaInv, [Next]_vars
  PROVE  SsaInv'
<1>1. DomInv /\ Graph /\ Named /\ DomInv' /\ Graph'
  BY DomStep, GraphLater DEF SsaInv
<1>2. CASE UNCHANGED vars
  <2>1. UNCHANGED <<domvars, ssavars>> /\ pc' = pc
    BY <1>2 DEF vars
  <2>2. UNCHANGED <<domvars, body, in, phi>> /\ UNCHANGED <<newtmpregno, used, made, ip_tmpnum, intmpregno>>
    BY <2>1 DEF ssavars
  <2>3. Unnamed => Unnamed'
    BY <2>2 DEF Unnamed, Zero
  <2>4. Live => Live'
    BY <2>2, LiveLater
  <2>5. Closed => Closed'
    BY <2>2, ClosedLater
  <2>6. Versions => Versions'
    BY <2>2, VersionsLater
  <2>7. Renaming /\ Versions => Renaming'
    BY <2>1, RenamingLater
  <2>8. Running => Running'
    BY <2>1, RunningLater
  <2>9. Named'
    BY <1>1, <2>1, <2>3, <2>4, <2>5, <2>6, <2>7, <2>8 DEF Named
  <2>10. QED
    BY <1>1, <2>9 DEF SsaInv
<1>3. CASE Dominate
  <2>1. /\ pc \in {"dfs", "semi", "df"} /\ pc' \in {"semi", "df", "phi"}
        /\ UNCHANGED <<newtmpregno, used, made, ip_tmpnum>>
    BY <1>3 DEF Dominate, DomNext, cfg_dfs, Semi, SameDom, computeDF, ssavars
  <2>2. Unnamed'
    BY <1>1, <2>1 DEF Named, Unnamed, Zero
  <2>3. QED
    BY <1>1, <2>1, <2>2 DEF SsaInv, Named
<1>4. CASE liveanal
  <2>1. pc = "phi" /\ pc' = "place" /\ UNCHANGED <<newtmpregno, used, made, ip_tmpnum>>
    BY <1>4 DEF liveanal
  <2>2. Unnamed'
    BY <1>1, <2>1 DEF Named, Unnamed, Zero
  <2>3. Live'
    BY <1>4, LiveStart
  <2>4. QED
    BY <1>1, <2>1, <2>2, <2>3 DEF SsaInv, Named
<1>5. CASE placePhiFunctions
  <2>1. pc = "place" /\ pc' = "rename" /\ UNCHANGED <<domvars, body, in>>
    BY <1>5 DEF placePhiFunctions
  <2>2. PICK A : Complete(A)
    BY <1>1, <2>1 DEF DomInv
  <2>3. Unnamed /\ Live
    BY <1>1, <2>1 DEF Named
  <2>4. Closed' /\ Versions' /\ Renaming'
    BY <1>5, <2>2, <2>3, RenameStart
  <2>5. Live'
    BY <2>1, <2>3, LiveLater
  <2>6. QED
    BY <1>1, <2>1, <2>4, <2>5 DEF SsaInv, Named
<1>6. CASE renamevar
  <2>1. pc = "rename" /\ pc' = "rename" /\ UNCHANGED <<domvars, body, in, phi>>
    BY <1>6 DEF renamevar
  <2>2. PICK A : Complete(A)
    BY <1>1, <2>1 DEF DomInv
  <2>3. Live /\ Closed /\ Versions /\ Renaming /\ JumpsRight
    BY <1>1, <2>1, <2>2 DEF Named, Complete, Tree
  <2>4. Versions' /\ Renaming'
    BY <1>6, <2>2, <2>3, RenameKeeps
  <2>5. Live' /\ Closed'
    BY <2>1, <2>3, LiveLater, ClosedLater
  <2>6. QED
    BY <1>1, <2>1, <2>4, <2>5 DEF SsaInv, Named
<1>7. CASE removephi
  <2>1. /\ pc = "rename" /\ pc' = "run" /\ UNCHANGED <<domvars, body, in, phi>> /\ calls = <<>>
        /\ UNCHANGED <<newtmpregno, used, made, ip_tmpnum, intmpregno>>
    BY <1>7 DEF removephi
  <2>2. PICK A : Complete(A)
    BY <1>1, <2>1 DEF DomInv
  <2>3. Live /\ Closed /\ Versions /\ Renaming
    BY <1>1, <2>1 DEF Named
  <2>4. Renamed
    BY <2>1, <2>2, <2>3, RenameEnds
  <2>5. Running'
    BY <1>1, <1>7, <2>2, <2>3, <2>4, RunStart
  <2>6. Live' /\ Closed' /\ Versions'
    BY <2>1, <2>3, LiveLater, ClosedLater, VersionsLater
  <2>7. QED
    BY <1>1, <2>1, <2>5, <2>6 DEF SsaInv, Named
<1>8. CASE Run
  <2>1. /\ pc = "run" /\ pc' = "run" /\ UNCHANGED <<domvars, body, in, phi>>
        /\ UNCHANGED <<newtmpregno, used, made, ip_tmpnum, intmpregno>>
    BY <1>8 DEF Run
  <2>2. PICK A : Complete(A)
    BY <1>1, <2>1 DEF DomInv
  <2>3. Live /\ Closed /\ Versions /\ Running
    BY <1>1, <2>1 DEF Named
  <2>4. Running'
    BY <1>8, <2>2, <2>3, RunStep
  <2>5. Live' /\ Closed' /\ Versions'
    BY <2>1, <2>3, LiveLater, ClosedLater, VersionsLater
  <2>6. QED
    BY <1>1, <2>1, <2>4, <2>5 DEF SsaInv, Named
<1>9. CASE Returned
  BY <1>2, <1>9 DEF Returned
<1>10. QED
  BY <1>2, <1>3, <1>4, <1>5, <1>6, <1>7, <1>8, <1>9 DEF Next

(* The invariant says that reads are right.                                *)
LEMMA SsaReads ==
  ASSUME SsaInv
  PROVE  ReadsRight
<1>1. SUFFICES ASSUME pc = "run", reads(bb) PROVE used[bb] \in holds
  BY DEF ReadsRight
<1>2. Live /\ Running
  BY <1>1 DEF SsaInv, Named
<1>3. PICK V \in [Block -> Nat] : (\A b \in Reachable : Recorded(V, b)) /\ Held(V, bb, holds)
  BY <1>2 DEF Running
<1>4. bb \in Reachable /\ bb \in Block
  BY <1>3, ReachableIs DEF Held
<1>5. bb \in in
  BY <1>1, <1>2, <1>4 DEF Live
<1>6. used[bb] = Arrives(V, bb)
  BY <1>1, <1>3, <1>4 DEF Recorded
<1>7. QED
  BY <1>3, <1>5, <1>6 DEF Held

(* Where no conditional branch goes to the block behind it, a block that   *)
(* reads the variable reads, whatever way the program has taken to it, a   *)
(* version with the value the variable had before: liveanal,               *)
(* placePhiFunctions, renamevar and removephi together keep its value, in  *)
(* every flow graph and with every assignment of what blocks do with it.   *)
(* With such a branch they do not, as SsaBranchOn shows.                   *)
THEOREM ReadsAlwaysRight ==
  ASSUME ~BranchOn
  PROVE  Spec => []ReadsRight
<1>1. SsaInv /\ [Next]_vars => SsaInv'
  BY SsaStep
<1>2. QED
  BY <1>1, SsaStart, SsaReads, PTL DEF Spec

=============================================================================
