-------------------------- MODULE DelJumpsProofs --------------------------
(***************************************************************************)
(* For functions of every length, with any number of labels: between two   *)
(* steps of deljumps the references of jumps and the counts of labels are  *)
(* exact, and what is left of the statements does what they did.           *)
(*                                                                         *)
(* Reach follows jumps and labels for a bounded number of steps.  The      *)
(* proof replaces it by what it computes: the nodes that lead to x are the *)
(* least set that holds x and is closed under Follow (LeadsLeast).  So a   *)
(* change of the list is right if it can be undone in any closed set, and  *)
(* each step of deljumps is made of a few such changes: Retarget,          *)
(* RemoveLabel, RemoveDead, ReplaceJump and TurnBranch.                    *)
(***************************************************************************)
EXTENDS DelJumps, SequenceTheorems, FiniteSetTheorems, WellFoundedInduction, TLAPS

-----------------------------------------------------------------------------
(* A set of natural numbers has a least element.                           *)
LEMMA LeastNat ==
  ASSUME NEW S, S \subseteq Nat, S # {}
  PROVE  \E n \in S : \A m \in S : n <= m
<1>1. PICK n \in S : \A m \in S : <<m, n>> \notin OpToRel(<, Nat)
  BY WFMin, NatLessThanWellFounded
<1>2. \A m \in S : ~(m < n)
  BY <1>1 DEF OpToRel
<1>3. QED
  BY <1>2

(* Induction: what holds of 0 and, with a number, of the next, holds.  The *)
(* library's theorems have a predicate as parameter, which no prover here  *)
(* can instantiate; a set says the same.                                   *)
LEMMA SetInduction ==
  ASSUME NEW S, 0 \in S, \A n \in Nat : n \in S => n + 1 \in S
  PROVE  Nat \subseteq S
<1>1. SUFFICES ASSUME Nat \ S # {} PROVE FALSE
  OBVIOUS
<1>2. PICK n \in Nat \ S : \A m \in Nat \ S : n <= m
  BY <1>1, LeastNat
<1>3. n # 0 /\ n - 1 \in Nat /\ n - 1 \in S
  BY <1>2
<1>4. QED
  BY <1>2, <1>3

(* MapThenFoldSet of a fold takes its largest index first.                 *)
LEMMA MaxOfInitial ==
  ASSUME NEW k \in Nat, NEW s \in SUBSET (1 .. k + 1), k + 1 \in s
  PROVE  Max(s) = k + 1
<1>1. \A y \in s : k + 1 >= y
  OBVIOUS
<1>2. \A x \in s : (\A y \in s : x >= y) => x = k + 1
  OBVIOUS
<1>3. QED
  BY <1>1, <1>2 DEF Max

LEMMA Initial ==
  ASSUME NEW n \in Nat, NEW k \in Nat, k + 1 <= n
  PROVE  /\ 1 .. k + 1 \in SUBSET (1 .. n) /\ 1 .. k + 1 # {}
         /\ Max(1 .. k + 1) = k + 1 /\ (1 .. k + 1) \ {k + 1} = 1 .. k
<1>1. Max(1 .. k + 1) = k + 1
  BY MaxOfInitial
<1>2. QED
  BY <1>1

LEMMA MaxIsIn ==
  ASSUME NEW n \in Nat, NEW s \in SUBSET (1 .. n), s # {}
  PROVE  Max(s) \in s /\ Max(s) \in 1 .. n /\ \A y \in s : Max(s) >= y
<1> DEFINE D == {n - y : y \in s}
<1>1. D \subseteq Nat /\ D # {}
  <2>1. \A y \in s : y \in 1 .. n /\ n - y \in Nat
    OBVIOUS
  <2>2. \E y \in s : n - y \in D
    OBVIOUS
  <2>3. QED
    BY <2>1, <2>2
<1>2. PICK d \in D : \A e \in D : d <= e
  BY <1>1, LeastNat
<1>3. PICK x \in s : d = n - x
  OBVIOUS
<1>4. \A y \in s : x >= y
  <2> TAKE y \in s
  <2>1. n - y \in D /\ y \in 1 .. n /\ x \in 1 .. n
    OBVIOUS
  <2>2. n - x <= n - y
    BY <1>2, <1>3, <2>1
  <2>3. QED
    BY <2>1, <2>2
<1>5. QED
  BY <1>4 DEF Max

(* The elements of a sequence with one more.                               *)
LEMMA ToSetAppend ==
  ASSUME NEW A, NEW s \in Seq(A), NEW g \in A
  PROVE  ToSet(Append(s, g)) = ToSet(s) \cup {g}
<1> DEFINE t == Append(s, g)
<1>1. /\ DOMAIN t = 1 .. Len(s) + 1 /\ t[Len(s) + 1] = g
      /\ DOMAIN s = 1 .. Len(s) /\ Len(s) \in Nat
      /\ \A i \in 1 .. Len(s) : t[i] = s[i]
  OBVIOUS
<1> HIDE DEF t
<1>2. ASSUME NEW x \in ToSet(t) PROVE x \in ToSet(s) \cup {g}
  BY <1>1 DEF ToSet
<1>3. ASSUME NEW x \in ToSet(s) PROVE x \in ToSet(t)
  <2>1. PICK i \in 1 .. Len(s) : x = s[i]
    BY <1>1 DEF ToSet
  <2>2. x = t[i] /\ i \in DOMAIN t
    BY <1>1, <2>1
  <2>3. QED
    BY <2>2 DEF ToSet
<1>4. g \in ToSet(t)
  <2>1. Len(s) + 1 \in DOMAIN t
    BY <1>1
  <2>2. QED
    BY <1>1, <2>1 DEF ToSet
<1>5. ToSet(t) = ToSet(s) \cup {g}
  BY <1>2, <1>3, <1>4
<1>6. QED
  BY <1>5 DEF t

(* The function FoldLeft is defined with exists, for any step G.           *)
Folded(h, T, base, G, n) ==
  /\ h \in [SUBSET (1 .. n) -> T]
  /\ h[{}] = base
  /\ \A s \in SUBSET (1 .. n) : s # {} => h[s] = G[<<Max(s), h[s \ {Max(s)}]>>]

(* The recursion has a solution.                                           *)
LEMMA FoldExists ==
  ASSUME NEW T, NEW base \in T, NEW N \in Nat, NEW G \in [(1 .. N) \X T -> T]
  PROVE  \E h : Folded(h, T, base, G, N)
<1> DEFINE S == {n \in Nat : n <= N => \E h : Folded(h, T, base, G, n)}
<1>1. 0 \in S
  <2>1. SUBSET (1 .. 0) = {{}}
    OBVIOUS
  <2>2. Folded([s \in SUBSET (1 .. 0) |-> base], T, base, G, 0)
    BY <2>1 DEF Folded
  <2>3. QED
    BY <2>2
<1>2. ASSUME NEW n \in Nat, n \in S PROVE n + 1 \in S
  <2>1. SUFFICES ASSUME n + 1 <= N PROVE \E h : Folded(h, T, base, G, n + 1)
    OBVIOUS
  <2>2. n + 1 \in 1 .. N
    BY <2>1
  <2>3. PICK h : Folded(h, T, base, G, n)
    BY <1>2, <2>2
  <2> DEFINE k == n + 1
             g == [s \in SUBSET (1 .. k) |-> IF k \in s THEN G[<<k, h[s \ {k}]>>] ELSE h[s]]
  <2>4. \A s \in SUBSET (1 .. k) : /\ s \ {k} \in SUBSET (1 .. n)
                                   /\ k \notin s => s \in SUBSET (1 .. n)
                                   /\ k \in s => Max(s) = k
    BY MaxOfInitial
  <2>5. \A s \in SUBSET (1 .. n) : h[s] \in T /\ s \in SUBSET (1 .. k) /\ k \notin s
    BY <2>3 DEF Folded
  <2> HIDE DEF k
  <2>6. \A s \in SUBSET (1 .. k) : h[s \ {k}] \in T
    BY <2>4, <2>5
  <2>7. \A s \in SUBSET (1 .. k) : G[<<k, h[s \ {k}]>>] \in T
    BY <2>2, <2>6 DEF k
  <2>8. g \in [SUBSET (1 .. k) -> T]
    BY <2>4, <2>5, <2>7
  <2>9. \A s \in SUBSET (1 .. n) : g[s] = h[s]
    BY <2>5
  <2>10. g[{}] = base
    <3>1. {} \in SUBSET (1 .. n)
      OBVIOUS
    <3>2. QED
      BY <2>3, <2>9, <3>1 DEF Folded
  <2>11. ASSUME NEW s \in SUBSET (1 .. k), s # {}
         PROVE  g[s] = G[<<Max(s), g[s \ {Max(s)}]>>]
    <3>1. CASE k \in s
      BY <2>4, <2>9, <3>1
    <3>2. CASE k \notin s
      <4>1. s \in SUBSET (1 .. n) /\ s \ {Max(s)} \in SUBSET (1 .. n)
        BY <2>4, <3>2
      <4>2. QED
        BY <2>3, <2>9, <2>11, <4>1 DEF Folded
    <3>3. QED
      BY <3>1, <3>2
  <2> HIDE DEF g
  <2>12. Folded(g, T, base, G, k)
    BY <2>8, <2>10, <2>11 DEF Folded
  <2>13. QED
    BY <2>12 DEF k
<1> HIDE DEF S
<1>3. N \in S
  BY <1>1, <1>2, SetInduction
<1>4. QED
  BY <1>3 DEF S

(* A function on 0 .. N given by its first value and the step from each to *)
(* the next, and that there is one.                                        *)
Stepped(g, T, base, G, N) ==
  /\ g \in [0 .. N -> T]
  /\ g[0] = base
  /\ \A n \in 1 .. N : g[n] = G[<<n, g[n - 1]>>]

LEMMA RecursionExists ==
  ASSUME NEW T, NEW base \in T, NEW N \in Nat, NEW G \in [(1 .. N) \X T -> T]
  PROVE  \E g : Stepped(g, T, base, G, N)
<1> DEFINE S == {n \in Nat : n <= N => \E g : Stepped(g, T, base, G, n)}
<1>1. 0 \in S
  <2>1. Stepped([n \in 0 .. 0 |-> base], T, base, G, 0)
    BY DEF Stepped
  <2>2. QED
    BY <2>1
<1>2. ASSUME NEW n \in Nat, n \in S PROVE n + 1 \in S
  <2>1. SUFFICES ASSUME n + 1 <= N PROVE \E g : Stepped(g, T, base, G, n + 1)
    OBVIOUS
  <2>2. PICK k : k = n + 1
    OBVIOUS
  <2>3. /\ k \in 1 .. N /\ n \in 0 .. n /\ k \in 0 .. k /\ k \notin 0 .. n /\ k - 1 = n
        /\ \A m \in 0 .. k : m # k => m \in 0 .. n
        /\ \A m \in 1 .. k : m \in 0 .. k /\ m - 1 \in 0 .. n /\ (m # k => m \in 1 .. n)
        /\ 0 \in 0 .. n /\ \A m \in 0 .. n : m \in 0 .. k /\ m # k
    BY <2>1, <2>2
  <2>4. PICK f : Stepped(f, T, base, G, n)
    BY <1>2, <2>2, <2>3
  <2>5. PICK t \in T : t = G[<<k, f[n]>>]
    BY <2>3, <2>4 DEF Stepped
  <2>6. PICK g : g = [m \in 0 .. k |-> IF m = k THEN t ELSE f[m]]
    OBVIOUS
  <2>7. g \in [0 .. k -> T] /\ g[0] = base
    BY <2>3, <2>4, <2>6 DEF Stepped
  <2>8. \A m \in 1 .. k : g[m] = G[<<m, g[m - 1]>>]
    BY <2>3, <2>4, <2>5, <2>6 DEF Stepped
  <2>9. Stepped(g, T, base, G, k)
    BY <2>7, <2>8 DEF Stepped
  <2>10. QED
    BY <2>2, <2>9
<1> HIDE DEF S
<1>3. N \in S
  BY <1>1, <1>2, SetInduction
<1>4. QED
  BY <1>3 DEF S

-----------------------------------------------------------------------------

-----------------------------------------------------------------------------
(* Sequences. *)
LEMMA SubSeqFacts ==
  ASSUME NEW S, NEW s \in Seq(S), NEW m \in Int, NEW n \in Int,
         1 <= m, m <= n + 1, n <= Len(s)
  PROVE  /\ SubSeq(s, m, n) \in Seq(S) /\ Len(SubSeq(s, m, n)) = n - m + 1
         /\ \A i \in 1 .. n - m + 1 : SubSeq(s, m, n)[i] = s[i + m - 1]
<1>1. Len(s) \in Nat
  OBVIOUS
<1>2. QED
  BY <1>1

LEMMA ConcatFacts ==
  ASSUME NEW S, NEW s \in Seq(S), NEW t \in Seq(S)
  PROVE  /\ s \o t \in Seq(S) /\ Len(s \o t) = Len(s) + Len(t)
         /\ \A i \in 1 .. Len(s) : (s \o t)[i] = s[i]
         /\ \A i \in 1 .. Len(t) : (s \o t)[i + Len(s)] = t[i]
  OBVIOUS

LEMMA RemoveAtFacts ==
  ASSUME NEW S, NEW s \in Seq(S), NEW g \in 1 .. Len(s)
  PROVE  /\ RemoveAt(s, g) \in Seq(S) /\ Len(RemoveAt(s, g)) = Len(s) - 1
         /\ \A i \in 1 .. Len(s) - 1 : RemoveAt(s, g)[i] = IF i < g THEN s[i] ELSE s[i + 1]
<1> DEFINE a == SubSeq(s, 1, g - 1)
           c == SubSeq(s, g + 1, Len(s))
<1>1. Len(s) \in Nat /\ g \in Int /\ 1 <= g /\ g <= Len(s)
  OBVIOUS
<1>2. a \in Seq(S) /\ Len(a) = g - 1 /\ \A i \in 1 .. g - 1 : a[i] = s[i]
  BY <1>1
<1>3. c \in Seq(S) /\ Len(c) = Len(s) - g /\ \A i \in 1 .. Len(s) - g : c[i] = s[i + g]
  BY <1>1
<1> HIDE DEF a, c
<1> DEFINE t == a \o c
<1>4. /\ t \in Seq(S) /\ Len(t) = Len(a) + Len(c)
      /\ \A i \in 1 .. Len(a) : t[i] = a[i]
      /\ \A i \in 1 .. Len(c) : t[i + Len(a)] = c[i]
  <2>1. a \in Seq(S) /\ c \in Seq(S)
    BY <1>2, <1>3
  <2>2. QED
    BY <2>1
<1> HIDE DEF t
<1>5. ASSUME NEW i \in 1 .. Len(s) - 1
      PROVE  t[i] = IF i < g THEN s[i] ELSE s[i + 1]
  <2>1. CASE i < g
    <3>1. i \in 1 .. Len(a) /\ i \in 1 .. g - 1
      BY <1>1, <1>2, <2>1
    <3>2. QED
      BY <1>2, <1>4, <2>1, <3>1
  <2>2. CASE ~ (i < g)
    <3>1. i - (g - 1) \in 1 .. Len(s) - g /\ (i - (g - 1)) + g = i + 1
          /\ (i - (g - 1)) + Len(a) = i
      BY <1>1, <1>2, <2>2
    <3>2. i - (g - 1) \in 1 .. Len(c)
      BY <1>3, <3>1
    <3>3. t[i] = c[i - (g - 1)]
      BY <1>4, <3>1, <3>2
    <3>4. QED
      BY <1>3, <2>2, <3>1, <3>3
  <2>3. QED
    BY <2>1, <2>2
<1>6. Len(a) + Len(c) = Len(s) - 1
  BY <1>1, <1>2, <1>3
<1>7. RemoveAt(s, g) = t
  BY DEF RemoveAt, t, a, c
<1>8. QED
  BY <1>4, <1>5, <1>6, <1>7

-----------------------------------------------------------------------------
(* A list of nodes: no node twice, dl first and the epilogue last.         *)
Lists ==
  {l \in Seq(Node) : /\ \A i, j \in 1 .. Len(l) : l[i] = l[j] => i = j
                     /\ Len(l) >= 2 /\ l[1] = 0 /\ l[Len(l)] = MaxLen + 1}

(* n stands behind m. *)
Adj(l, m, n) == \E i \in 1 .. Len(l) - 1 : l[i] = m /\ l[i + 1] = n

LEMMA ListFacts ==
  ASSUME NEW l \in Lists
  PROVE  /\ l \in Seq(Node) /\ Len(l) \in Nat /\ Len(l) >= 2 /\ DOMAIN l = 1 .. Len(l)
         /\ \A i \in 1 .. Len(l) : l[i] \in Node /\ l[i] \in ToSet(l)
         /\ \A i, j \in 1 .. Len(l) : l[i] = l[j] => i = j
         /\ \A n \in ToSet(l) : \E i \in 1 .. Len(l) : l[i] = n
         /\ ToSet(l) \subseteq Node
         /\ l[1] = 0 /\ l[Len(l)] = MaxLen + 1
<1>1. /\ l \in Seq(Node) /\ Len(l) \in Nat /\ Len(l) >= 2 /\ DOMAIN l = 1 .. Len(l)
      /\ \A i, j \in 1 .. Len(l) : l[i] = l[j] => i = j
      /\ l[1] = 0 /\ l[Len(l)] = MaxLen + 1
  BY DEF Lists
<1>2. \A i \in 1 .. Len(l) : l[i] \in Node
  BY <1>1
<1>3. ToSet(l) = {l[i] : i \in 1 .. Len(l)}
  BY <1>1 DEF ToSet
<1>4. QED
  BY <1>1, <1>2, <1>3

LEMMA PlaceIs ==
  ASSUME NEW l \in Lists, NEW i \in 1 .. Len(l)
  PROVE  Place(l, l[i]) = i
  BY ListFacts DEF Place

LEMMA PlaceFacts ==
  ASSUME NEW l \in Lists, NEW n \in ToSet(l)
  PROVE  Place(l, n) \in 1 .. Len(l) /\ l[Place(l, n)] = n
  BY ListFacts DEF Place

LEMMA AdjFacts ==
  ASSUME NEW l \in Lists, NEW m, NEW n, Adj(l, m, n)
  PROVE  /\ m \in ToSet(l) /\ n \in ToSet(l) /\ m # n
         /\ n # 0 /\ m # MaxLen + 1
         /\ Place(l, n) = Place(l, m) + 1
         /\ \A k : Adj(l, m, k) => k = n
         /\ \A k : Adj(l, k, n) => k = m
<1>1. PICK i \in 1 .. Len(l) - 1 : l[i] = m /\ l[i + 1] = n
  BY DEF Adj
<1>2. i \in 1 .. Len(l) /\ i + 1 \in 1 .. Len(l) /\ Len(l) \in Nat
  BY ListFacts
<1>3. Place(l, m) = i /\ Place(l, n) = i + 1
  BY <1>1, <1>2, PlaceIs
<1>4. i # i + 1 /\ i + 1 # 1 /\ i # Len(l) /\ 1 \in 1 .. Len(l) /\ Len(l) \in 1 .. Len(l)
  BY <1>2, ListFacts
<1>5. m # n /\ n # 0 /\ m # MaxLen + 1
  BY <1>1, <1>2, <1>4, ListFacts
<1>6. ASSUME NEW j \in 1 .. Len(l) - 1 PROVE (l[j] = m => l[j + 1] = n) /\ (l[j + 1] = n => l[j] = m)
  <2>1. j \in 1 .. Len(l) /\ j + 1 \in 1 .. Len(l)
    BY <1>2
  <2>2. (l[j] = m => j = i) /\ (l[j + 1] = n => j + 1 = i + 1)
    BY <1>1, <1>2, <2>1, ListFacts
  <2>3. QED
    BY <1>1, <1>2, <2>1, <2>2
<1>7. QED
  BY <1>1, <1>2, <1>3, <1>5, <1>6, ListFacts DEF Adj

LEMMA AdjAt ==
  ASSUME NEW l \in Lists, NEW i \in 1 .. Len(l) - 1
  PROVE  Adj(l, l[i], l[i + 1])
  BY DEF Adj

(* Without one of its nodes. *)
LEMMA LessFacts ==
  ASSUME NEW l \in Lists, NEW n \in ToSet(l), n # 0, n # MaxLen + 1
  PROVE  /\ Less(l, n) \in Lists
         /\ ToSet(Less(l, n)) = ToSet(l) \ {n}
         /\ \A a, b : Adj(Less(l, n), a, b) <=>
                        \/ a # n /\ b # n /\ Adj(l, a, b)
                        \/ Adj(l, a, n) /\ Adj(l, n, b)
<1> DEFINE k == Place(l, n)
           s == Less(l, n)
<1>1. k \in 1 .. Len(l) /\ l[k] = n
  BY PlaceFacts
<1>2. /\ l \in Seq(Node) /\ Len(l) \in Nat /\ Len(l) >= 2 /\ DOMAIN l = 1 .. Len(l)
      /\ \A i, j \in 1 .. Len(l) : l[i] = l[j] => i = j
      /\ l[1] = 0 /\ l[Len(l)] = MaxLen + 1
  BY ListFacts
<1>3. k # 1 /\ k # Len(l)
  BY <1>1, <1>2
<1>4. s = RemoveAt(l, k)
  BY DEF Less
<1> HIDE DEF k, s
<1>5. /\ s \in Seq(Node) /\ Len(s) = Len(l) - 1 /\ DOMAIN s = 1 .. Len(l) - 1
      /\ \A i \in 1 .. Len(l) - 1 : s[i] = IF i < k THEN l[i] ELSE l[i + 1]
  <2>1. /\ s \in Seq(Node) /\ Len(s) = Len(l) - 1
        /\ \A i \in 1 .. Len(l) - 1 : s[i] = IF i < k THEN l[i] ELSE l[i + 1]
    <3>1. l \in Seq(Node) /\ k \in 1 .. Len(l)
      BY <1>1, <1>2
    <3>2. QED
      BY <1>4, <3>1, RemoveAtFacts
  <2>2. QED
    BY <2>1
<1>5a. /\ k \in Int /\ 1 < k /\ k < Len(l) /\ Len(l) \in Int /\ Len(s) = Len(l) - 1
  <2>1. k \in Int /\ 1 <= k /\ k <= Len(l)
    BY <1>1, <1>2
  <2>2. Len(l) \in Int /\ Len(s) = Len(l) - 1 /\ k # 1 /\ k # Len(l)
    BY <1>2, <1>3, <1>5
  <2>3. QED
    BY <2>1, <2>2
<1> DEFINE g(i) == IF i < k THEN i ELSE i + 1
<1>6. \A i \in 1 .. Len(s) : g(i) \in 1 .. Len(l) /\ g(i) # k /\ s[i] = l[g(i)]
  BY <1>1, <1>2, <1>5
<1>7. \A i, j \in 1 .. Len(s) : s[i] = s[j] => i = j
  <2>1. \A i, j \in 1 .. Len(s) : g(i) = g(j) => i = j
    BY <1>1, <1>2, <1>5
  <2>2. QED
    BY <1>2, <1>6, <2>1
<1>8. s \in Lists
  <2>1. Len(s) >= 2 /\ k > 1 /\ k < Len(l) /\ k \in Int
    <3>1. k \in Int /\ 1 <= k /\ k <= Len(l)
      BY <1>1, <1>2
    <3>2. Len(s) = Len(l) - 1 /\ Len(l) \in Nat
      BY <1>2, <1>5
    <3>3. QED
      BY <1>3, <3>1, <3>2
  <2>2. s[1] = 0 /\ s[Len(s)] = MaxLen + 1
    <3>1. 1 \in 1 .. Len(l) - 1 /\ Len(s) \in 1 .. Len(l) - 1 /\ ~ (Len(s) < k) /\ Len(s) + 1 = Len(l)
          /\ 1 < k
      BY <1>2, <1>5, <2>1
    <3>2. QED
      BY <1>2, <1>5, <3>1
  <2>3. QED
    BY <1>5, <1>7, <2>1, <2>2 DEF Lists
<1>9. ToSet(s) = ToSet(l) \ {n}
  <2>1. ASSUME NEW x \in ToSet(s) PROVE x \in ToSet(l) /\ x # n
    <3>1. PICK i \in 1 .. Len(s) : s[i] = x
      BY <1>8, <2>1, ListFacts
    <3>2. g(i) \in 1 .. Len(l) /\ g(i) # k /\ x = l[g(i)]
      BY <1>6, <3>1
    <3>3. QED
      BY <1>1, <1>2, <3>2, ListFacts
  <2>2. ASSUME NEW x \in ToSet(l), x # n PROVE x \in ToSet(s)
    <3>1. PICK i \in 1 .. Len(l) : l[i] = x
      BY <2>2, ListFacts
    <3>2. i # k
      BY <1>1, <2>2, <3>1
    <3>3. PICK j \in 1 .. Len(s) : s[j] = x
      <4>1. CASE i < k
        <5>1. i \in 1 .. Len(s) /\ s[i] = x
          BY <1>1, <1>2, <1>5, <3>1, <4>1
        <5>2. QED
          BY <5>1
      <4>2. CASE i > k
        <5>1. i - 1 \in 1 .. Len(s) /\ s[i - 1] = x
          BY <1>1, <1>2, <1>5, <3>1, <4>2
        <5>2. QED
          BY <5>1
      <4>3. QED
        BY <1>1, <3>2, <4>1, <4>2
    <3>4. QED
      BY <1>8, <3>3, ListFacts
  <2>3. QED
    BY <2>1, <2>2
<1>10. ASSUME NEW a, NEW b
       PROVE  Adj(s, a, b) <=> \/ a # n /\ b # n /\ Adj(l, a, b)
                               \/ Adj(l, a, n) /\ Adj(l, n, b)
  <2>1. ASSUME Adj(s, a, b)
        PROVE  \/ a # n /\ b # n /\ Adj(l, a, b)
               \/ Adj(l, a, n) /\ Adj(l, n, b)
    <3>1. PICK i \in 1 .. Len(s) - 1 : s[i] = a /\ s[i + 1] = b
      BY <2>1 DEF Adj
    <3>2. i \in Int /\ i >= 1 /\ i <= Len(l) - 2 /\ i + 1 \in 1 .. Len(s) /\ i \in 1 .. Len(s)
      BY <1>2, <1>5
    <3>3. CASE i + 1 < k
      <4>1. a = l[i] /\ b = l[i + 1] /\ i \in 1 .. Len(l) - 1 /\ i # k /\ i + 1 # k
            /\ i + 1 \in 1 .. Len(l) /\ i \in 1 .. Len(l)
        BY <1>1, <1>2, <1>5, <3>1, <3>2, <3>3
      <4>2. a # n /\ b # n
        BY <1>1, <1>2, <4>1
      <4>3. QED
        BY <4>1, <4>2 DEF Adj
    <3>4. CASE i + 1 = k
      <4>1. a = l[k - 1] /\ b = l[k + 1] /\ k - 1 \in 1 .. Len(l) - 1 /\ k \in 1 .. Len(l) - 1
            /\ (k - 1) + 1 = k
        <5>1. i = k - 1 /\ i \in 1 .. Len(l) - 1 /\ i + 1 \in 1 .. Len(l) - 1 /\ i < k /\ ~ (i + 1 < k)
          BY <1>5a, <3>2, <3>4
        <5>2. s[i] = l[i] /\ s[i + 1] = l[(i + 1) + 1]
          BY <1>5, <5>1
        <5>3. k - 1 \in 1 .. Len(l) - 1 /\ k \in 1 .. Len(l) - 1 /\ (k - 1) + 1 = k
          BY <1>5a
        <5>4. QED
          BY <3>1, <3>4, <5>1, <5>2, <5>3
      <4>2. QED
        BY <1>1, <4>1 DEF Adj
    <3>5. CASE i + 1 > k
      <4>1. a = l[i + 1] /\ b = l[(i + 1) + 1] /\ i + 1 \in 1 .. Len(l) - 1 /\ i + 1 # k
            /\ (i + 1) + 1 # k /\ i + 1 \in 1 .. Len(l) /\ (i + 1) + 1 \in 1 .. Len(l)
        BY <1>1, <1>2, <1>5, <3>1, <3>2, <3>5
      <4>2. a # n /\ b # n
        BY <1>1, <1>2, <4>1
      <4>3. QED
        BY <4>1, <4>2 DEF Adj
    <3>6. QED
      BY <1>1, <3>2, <3>3, <3>4, <3>5
  <2>2. ASSUME a # n, b # n, Adj(l, a, b) PROVE Adj(s, a, b)
    <3>1. PICK i \in 1 .. Len(l) - 1 : l[i] = a /\ l[i + 1] = b
      BY <2>2 DEF Adj
    <3>2. i # k /\ i + 1 # k
      BY <1>1, <2>2, <3>1
    <3>3. CASE i < k
      <4>1. i \in 1 .. Len(s) - 1 /\ s[i] = a /\ s[i + 1] = b
        <5>1. /\ i \in 1 .. Len(s) - 1 /\ i \in 1 .. Len(l) - 1 /\ i + 1 \in 1 .. Len(l) - 1
              /\ i < k /\ i + 1 < k
          BY <1>5a, <3>2, <3>3
        <5>2. s[i] = l[i] /\ s[i + 1] = l[i + 1]
          BY <1>5, <5>1
        <5>3. QED
          BY <3>1, <5>1, <5>2
      <4>2. QED
        BY <4>1 DEF Adj
    <3>4. CASE i > k
      <4>1. i - 1 \in 1 .. Len(s) - 1 /\ s[i - 1] = a /\ s[(i - 1) + 1] = b
        <5>1. /\ i - 1 \in 1 .. Len(s) - 1 /\ i - 1 \in 1 .. Len(l) - 1 /\ i \in 1 .. Len(l) - 1
              /\ ~ (i - 1 < k) /\ ~ (i < k) /\ (i - 1) + 1 = i
          BY <1>5a, <3>2, <3>4
        <5>2. s[i - 1] = l[i] /\ s[i] = l[i + 1]
          BY <1>5, <5>1
        <5>3. QED
          BY <3>1, <5>1, <5>2
      <4>2. QED
        BY <4>1 DEF Adj
    <3>5. QED
      BY <1>1, <3>2, <3>3, <3>4
  <2>3. ASSUME Adj(l, a, n), Adj(l, n, b) PROVE Adj(s, a, b)
    <3>1. PICK i \in 1 .. Len(l) - 1 : l[i] = a /\ l[i + 1] = n
      BY <2>3 DEF Adj
    <3>2. PICK j \in 1 .. Len(l) - 1 : l[j] = n /\ l[j + 1] = b
      BY <2>3 DEF Adj
    <3>3. i + 1 = k /\ j = k
      BY <1>1, <1>2, <3>1, <3>2
    <3>4. i \in 1 .. Len(s) - 1 /\ s[i] = a /\ s[i + 1] = b
      <4>1. /\ i \in 1 .. Len(s) - 1 /\ i \in 1 .. Len(l) - 1 /\ i + 1 \in 1 .. Len(l) - 1
            /\ i < k /\ ~ (i + 1 < k) /\ (i + 1) + 1 = k + 1
        BY <1>5a, <3>3
      <4>2. s[i] = l[i] /\ s[i + 1] = l[(i + 1) + 1]
        BY <1>5, <4>1
      <4>3. QED
        BY <3>1, <3>2, <3>3, <4>1, <4>2
    <3>5. QED
      BY <3>4 DEF Adj
  <2>4. QED
    BY <2>1, <2>2, <2>3
<1>11. QED
  BY <1>8, <1>9, <1>10 DEF s

(* u is q, r, s and t in a row.                                            *)
Joined(u, q, r, s, t) == u = q \o r \o s \o t

LEMMA Concat4Facts ==
  ASSUME NEW S, NEW q \in Seq(S), NEW r \in Seq(S), NEW s \in Seq(S), NEW t \in Seq(S),
         NEW u, Joined(u, q, r, s, t)
  PROVE  /\ u \in Seq(S) /\ Len(u) = Len(q) + Len(r) + Len(s) + Len(t)
         /\ \A k \in 1 .. Len(q) : u[k] = q[k]
         /\ \A k \in 1 .. Len(r) : u[k + Len(q)] = r[k]
         /\ \A k \in 1 .. Len(s) : u[k + Len(q) + Len(r)] = s[k]
         /\ \A k \in 1 .. Len(t) : u[k + Len(q) + Len(r) + Len(s)] = t[k]
<1> DEFINE x == q \o r
           y == x \o s
<1>1. Len(q) \in Nat /\ Len(r) \in Nat /\ Len(s) \in Nat /\ Len(t) \in Nat
  OBVIOUS
<1>2. /\ x \in Seq(S) /\ Len(x) = Len(q) + Len(r)
      /\ \A k \in 1 .. Len(q) : x[k] = q[k]
      /\ \A k \in 1 .. Len(r) : x[k + Len(q)] = r[k]
  OBVIOUS
<1> HIDE DEF x
<1>3. /\ y \in Seq(S) /\ Len(y) = Len(x) + Len(s)
      /\ \A k \in 1 .. Len(x) : y[k] = x[k]
      /\ \A k \in 1 .. Len(s) : y[k + Len(x)] = s[k]
  <2>1. x \in Seq(S)
    BY <1>2
  <2>2. QED
    BY <2>1
<1> HIDE DEF y
<1>4. u = y \o t
  BY DEF x, y, Joined
<1>5. /\ u \in Seq(S) /\ Len(u) = Len(y) + Len(t)
      /\ \A k \in 1 .. Len(y) : u[k] = y[k]
      /\ \A k \in 1 .. Len(t) : u[k + Len(y)] = t[k]
  <2>1. y \in Seq(S)
    BY <1>3
  <2>2. QED
    BY <1>4, <2>1
<1>6. Len(u) = Len(q) + Len(r) + Len(s) + Len(t)
  BY <1>1, <1>2, <1>3, <1>5
<1>7. ASSUME NEW k \in 1 .. Len(q) PROVE u[k] = q[k]
  <2>1. k \in 1 .. Len(x) /\ k \in 1 .. Len(y)
    BY <1>1, <1>2, <1>3
  <2>2. QED
    BY <1>2, <1>3, <1>5, <2>1
<1>8. ASSUME NEW k \in 1 .. Len(r) PROVE u[k + Len(q)] = r[k]
  <2>1. k + Len(q) \in 1 .. Len(x) /\ k + Len(q) \in 1 .. Len(y)
    BY <1>1, <1>2, <1>3
  <2>2. QED
    BY <1>2, <1>3, <1>5, <2>1
<1>9. ASSUME NEW k \in 1 .. Len(s) PROVE u[k + Len(q) + Len(r)] = s[k]
  <2>1. k + Len(x) \in 1 .. Len(y) /\ k + Len(x) = k + Len(q) + Len(r)
    BY <1>1, <1>2, <1>3
  <2>2. QED
    BY <1>3, <1>5, <2>1
<1>10. ASSUME NEW k \in 1 .. Len(t) PROVE u[k + Len(q) + Len(r) + Len(s)] = t[k]
  <2>1. k + Len(y) = k + Len(q) + Len(r) + Len(s)
    BY <1>1, <1>2, <1>3
  <2>2. QED
    BY <1>5, <2>1
<1>11. QED
  BY <1>5, <1>6, <1>7, <1>8, <1>9, <1>10

(* Where the k-th place after the places a .. b went to where i was comes  *)
(* from.                                                                   *)
Source(i, a, b, k) ==
  IF i < a THEN IF k < i THEN k
                ELSE IF k < i + (b - a + 1) THEN k - i + a
                ELSE IF k < b THEN k - (b - a)
                ELSE k + 1
  ELSE IF k < a THEN k
       ELSE IF k < i - (b - a + 1) THEN k + (b - a + 1)
       ELSE IF k < i THEN k - i + b + 1
       ELSE k + 1

(* It is a permutation of the places without i, and only four places get  *)
(* another neighbour.                                                      *)
Rearranged(L, i, a, b) ==
  LET g(k) == Source(i, a, b, k) IN
  /\ g(1) = 1 /\ g(L - 1) = L
  /\ \A k \in 1 .. L - 1 : g(k) \in 1 .. L /\ g(k) # i
  /\ \A k, j \in 1 .. L - 1 : g(k) = g(j) => k = j
  /\ \A j \in 1 .. L : j # i => \E k \in 1 .. L - 1 : g(k) = j
  /\ \A k \in 1 .. L - 2 : \/ g(k + 1) = g(k) + 1 /\ g(k) # i - 1
                           \/ g(k) = i - 1 /\ g(k + 1) = a
                           \/ g(k) = b
                           \/ g(k) = a - 1
  /\ \A j \in 1 .. L - 1 : j # i /\ j + 1 # i /\ j # b /\ j # a - 1 =>
       \E k \in 1 .. L - 2 : g(k) = j /\ g(k + 1) = j + 1
  /\ \E k \in 1 .. L - 2 : g(k) = i - 1 /\ g(k + 1) = a

LEMMA SourceFacts ==
  ASSUME NEW L \in Int, NEW i \in Int, NEW a \in Int, NEW b \in Int,
         2 <= i, i < L, 2 <= a, a <= b, b < L, i < a - 1 \/ i > b + 1
  PROVE  Rearranged(L, i, a, b)
<1> DEFINE g(k) == Source(i, a, b, k)
<1>1. CASE i < a
  <2>1. i < a - 1
    BY <1>1
  <2>2. /\ \A k \in Int : k < i => g(k) = k
        /\ \A k \in Int : i <= k /\ k < i + (b - a + 1) => g(k) = k - i + a
        /\ \A k \in Int : i + (b - a + 1) <= k /\ k < b => g(k) = k - (b - a)
        /\ \A k \in Int : b <= k => g(k) = k + 1
    BY <1>1 DEF Source
  <2> HIDE DEF g
  <2>3. g(1) = 1 /\ g(L - 1) = L
    BY <2>1, <2>2
  <2>4. \A k \in 1 .. L - 1 : g(k) \in 1 .. L /\ g(k) # i
    BY <2>1, <2>2
  <2>5. \A k, j \in 1 .. L - 1 : g(k) = g(j) => k = j
    BY <2>1, <2>2
  <2>6. ASSUME NEW j \in 1 .. L, j # i PROVE \E k \in 1 .. L - 1 : g(k) = j
    <3>1. CASE j < i
      <4>1. j \in 1 .. L - 1 /\ g(j) = j
        BY <2>1, <2>2, <3>1
      <4>2. QED
        BY <4>1
    <3>2. CASE i < j /\ j < a
      <4>1. j + (b - a) \in 1 .. L - 1 /\ g(j + (b - a)) = j
        BY <2>1, <2>2, <3>2
      <4>2. QED
        BY <4>1
    <3>3. CASE a <= j /\ j <= b
      <4>1. j + i - a \in 1 .. L - 1 /\ g(j + i - a) = j
        BY <2>1, <2>2, <3>3
      <4>2. QED
        BY <4>1
    <3>4. CASE b < j
      <4>1. j - 1 \in 1 .. L - 1 /\ g(j - 1) = j
        BY <2>1, <2>2, <3>4
      <4>2. QED
        BY <4>1
    <3>5. QED
      BY <2>6, <3>1, <3>2, <3>3, <3>4
  <2>7. \A k \in 1 .. L - 2 : \/ g(k + 1) = g(k) + 1 /\ g(k) # i - 1
                              \/ g(k) = i - 1 /\ g(k + 1) = a
                              \/ g(k) = b
                              \/ g(k) = a - 1
    BY <2>1, <2>2
  <2>8. ASSUME NEW j \in 1 .. L - 1, j # i, j + 1 # i, j # b, j # a - 1
        PROVE  \E k \in 1 .. L - 2 : g(k) = j /\ g(k + 1) = j + 1
    <3>1. CASE j < i
      <4>1. j \in 1 .. L - 2 /\ g(j) = j /\ g(j + 1) = j + 1
        BY <2>1, <2>2, <2>8, <3>1
      <4>2. QED
        BY <4>1
    <3>2. CASE i < j /\ j < a
      <4>1. j + (b - a) \in 1 .. L - 2 /\ g(j + (b - a)) = j /\ g(j + (b - a) + 1) = j + 1
        BY <2>1, <2>2, <2>8, <3>2
      <4>2. QED
        BY <4>1
    <3>3. CASE a <= j /\ j <= b
      <4>1. j + i - a \in 1 .. L - 2 /\ g(j + i - a) = j /\ g(j + i - a + 1) = j + 1
        BY <2>1, <2>2, <2>8, <3>3
      <4>2. QED
        BY <4>1
    <3>4. CASE b < j
      <4>1. j - 1 \in 1 .. L - 2 /\ g(j - 1) = j /\ g((j - 1) + 1) = j + 1
        BY <2>1, <2>2, <2>8, <3>4
      <4>2. QED
        BY <4>1
    <3>5. QED
      BY <2>8, <3>1, <3>2, <3>3, <3>4
  <2>9. i - 1 \in 1 .. L - 2 /\ g(i - 1) = i - 1 /\ g((i - 1) + 1) = a
    BY <2>1, <2>2
  <2>10. QED
    BY <2>3, <2>4, <2>5, <2>6, <2>7, <2>8, <2>9 DEF g, Rearranged
<1>2. CASE ~ (i < a)
  <2>1. i > b + 1
    BY <1>2
  <2>2. /\ \A k \in Int : k < a => g(k) = k
        /\ \A k \in Int : a <= k /\ k < i - (b - a + 1) => g(k) = k + (b - a + 1)
        /\ \A k \in Int : i - (b - a + 1) <= k /\ k < i => g(k) = k - i + b + 1
        /\ \A k \in Int : i <= k => g(k) = k + 1
    BY <1>2, <2>1 DEF Source
  <2> HIDE DEF g
  <2>3. g(1) = 1 /\ g(L - 1) = L
    BY <2>1, <2>2
  <2>4. \A k \in 1 .. L - 1 : g(k) \in 1 .. L /\ g(k) # i
    BY <2>1, <2>2
  <2>5. \A k, j \in 1 .. L - 1 : g(k) = g(j) => k = j
    BY <2>1, <2>2
  <2>6. ASSUME NEW j \in 1 .. L, j # i PROVE \E k \in 1 .. L - 1 : g(k) = j
    <3>1. CASE j < a
      <4>1. j \in 1 .. L - 1 /\ g(j) = j
        BY <2>1, <2>2, <3>1
      <4>2. QED
        BY <4>1
    <3>2. CASE a <= j /\ j <= b
      <4>1. j + i - b - 1 \in 1 .. L - 1 /\ g(j + i - b - 1) = j
        BY <2>1, <2>2, <3>2
      <4>2. QED
        BY <4>1
    <3>3. CASE b < j /\ j < i
      <4>1. j - (b - a + 1) \in 1 .. L - 1 /\ g(j - (b - a + 1)) = j
        BY <2>1, <2>2, <3>3
      <4>2. QED
        BY <4>1
    <3>4. CASE i < j
      <4>1. j - 1 \in 1 .. L - 1 /\ g(j - 1) = j
        BY <2>1, <2>2, <3>4
      <4>2. QED
        BY <4>1
    <3>5. QED
      BY <2>6, <3>1, <3>2, <3>3, <3>4
  <2>7. \A k \in 1 .. L - 2 : \/ g(k + 1) = g(k) + 1 /\ g(k) # i - 1
                              \/ g(k) = i - 1 /\ g(k + 1) = a
                              \/ g(k) = b
                              \/ g(k) = a - 1
    BY <2>1, <2>2
  <2>8. ASSUME NEW j \in 1 .. L - 1, j # i, j + 1 # i, j # b, j # a - 1
        PROVE  \E k \in 1 .. L - 2 : g(k) = j /\ g(k + 1) = j + 1
    <3>1. CASE j < a
      <4>1. j \in 1 .. L - 2 /\ g(j) = j /\ g(j + 1) = j + 1
        BY <2>1, <2>2, <2>8, <3>1
      <4>2. QED
        BY <4>1
    <3>2. CASE a <= j /\ j <= b
      <4>1. j + i - b - 1 \in 1 .. L - 2 /\ g(j + i - b - 1) = j /\ g((j + i - b - 1) + 1) = j + 1
        BY <2>1, <2>2, <2>8, <3>2
      <4>2. QED
        BY <4>1
    <3>3. CASE b < j /\ j < i
      <4>1. /\ j - (b - a + 1) \in 1 .. L - 2 /\ g(j - (b - a + 1)) = j
            /\ g((j - (b - a + 1)) + 1) = j + 1
        BY <2>1, <2>2, <2>8, <3>3
      <4>2. QED
        BY <4>1
    <3>4. CASE i < j
      <4>1. j - 1 \in 1 .. L - 2 /\ g(j - 1) = j /\ g((j - 1) + 1) = j + 1
        BY <2>1, <2>2, <2>8, <3>4
      <4>2. QED
        BY <4>1
    <3>5. QED
      BY <2>8, <3>1, <3>2, <3>3, <3>4
  <2>9. /\ i - (b - a + 1) - 1 \in 1 .. L - 2 /\ g(i - (b - a + 1) - 1) = i - 1
        /\ g((i - (b - a + 1) - 1) + 1) = a
    BY <2>1, <2>2
  <2>10. QED
    BY <2>3, <2>4, <2>5, <2>6, <2>7, <2>8, <2>9 DEF g, Rearranged
<1>3. QED
  BY <1>1, <1>2

LEMMA MovedSource ==
  ASSUME NEW l \in Seq(Node), NEW L \in Int, L = Len(l),
         NEW i \in Int, NEW a \in Int, NEW b \in Int,
         2 <= i, i < L, 2 <= a, a <= b, b < L, i < a - 1 \/ i > b + 1
  PROVE  /\ Moved(l, i, a, b) \in Seq(Node) /\ Len(Moved(l, i, a, b)) = L - 1
         /\ \A k \in 1 .. L - 1 : Moved(l, i, a, b)[k] = l[Source(i, a, b, k)]
<1> DEFINE s == Moved(l, i, a, b)
<1>1. CASE i < a
  <2>0. i < a - 1
    BY <1>1
  <2> DEFINE q == SubSeq(l, 1, i - 1)
             r == SubSeq(l, a, b)
             t == SubSeq(l, i + 1, a - 1)
             u == SubSeq(l, b + 1, Len(l))
  <2>1. s = q \o r \o t \o u
    BY <1>1 DEF Moved
  <2>2. q \in Seq(Node) /\ Len(q) = i - 1 /\ \A k \in 1 .. i - 1 : q[k] = l[k]
    BY SubSeqFacts
  <2>3. r \in Seq(Node) /\ Len(r) = b - a + 1 /\ \A k \in 1 .. b - a + 1 : r[k] = l[k + a - 1]
    BY SubSeqFacts
  <2>4. t \in Seq(Node) /\ Len(t) = a - 1 - i /\ \A k \in 1 .. a - 1 - i : t[k] = l[k + i]
    <3>1. /\ t \in Seq(Node) /\ Len(t) = (a - 1) - (i + 1) + 1
          /\ \A k \in 1 .. (a - 1) - (i + 1) + 1 : t[k] = l[k + (i + 1) - 1]
      BY <2>0, SubSeqFacts
    <3>2. (a - 1) - (i + 1) + 1 = a - 1 - i /\ \A k \in Int : k + (i + 1) - 1 = k + i
      OBVIOUS
    <3>3. QED
      BY <3>1, <3>2
  <2>5. u \in Seq(Node) /\ Len(u) = L - b /\ \A k \in 1 .. L - b : u[k] = l[k + b]
    <3>1. /\ u \in Seq(Node) /\ Len(u) = L - (b + 1) + 1
          /\ \A k \in 1 .. L - (b + 1) + 1 : u[k] = l[k + (b + 1) - 1]
      BY SubSeqFacts
    <3>2. L - (b + 1) + 1 = L - b
      OBVIOUS
    <3>3. ASSUME NEW k \in 1 .. L - b PROVE u[k] = l[k + b]
      <4>1. u[k] = l[k + (b + 1) - 1]
        BY <3>1, <3>2
      <4>2. k + (b + 1) - 1 = k + b
        OBVIOUS
      <4>3. QED
        BY <4>1, <4>2
    <3>4. QED
      BY <3>1, <3>2, <3>3
  <2> HIDE DEF q, r, t, u, s
  <2>6. /\ s \in Seq(Node) /\ Len(s) = Len(q) + Len(r) + Len(t) + Len(u)
        /\ \A k \in 1 .. Len(q) : s[k] = q[k]
        /\ \A k \in 1 .. Len(r) : s[k + Len(q)] = r[k]
        /\ \A k \in 1 .. Len(t) : s[k + Len(q) + Len(r)] = t[k]
        /\ \A k \in 1 .. Len(u) : s[k + Len(q) + Len(r) + Len(t)] = u[k]
    <3>0. Joined(s, q, r, t, u)
      BY <2>1 DEF Joined
    <3>1. q \in Seq(Node) /\ r \in Seq(Node) /\ t \in Seq(Node) /\ u \in Seq(Node)
      BY <2>2, <2>3, <2>4, <2>5
    <3>2. QED
      BY <3>0, <3>1, Concat4Facts
  <2>7. Len(s) = L - 1
    BY <2>2, <2>3, <2>4, <2>5, <2>6
  <2>8. ASSUME NEW k \in 1 .. L - 1 PROVE s[k] = l[Source(i, a, b, k)]
    <3>1. CASE k < i
      <4>1. k \in 1 .. i - 1 /\ k \in 1 .. Len(q) /\ Source(i, a, b, k) = k
        BY <1>1, <2>2, <3>1 DEF Source
      <4>2. QED
        BY <2>2, <2>6, <4>1
    <3>2. CASE i <= k /\ k < i + (b - a + 1)
      <4> DEFINE j == k - (i - 1)
      <4>1. /\ j \in 1 .. b - a + 1 /\ Source(i, a, b, k) = j + a - 1 /\ k = j + Len(q)
        BY <1>1, <2>2, <3>2 DEF Source
      <4>2. j \in 1 .. Len(r)
        BY <2>3, <4>1
      <4> HIDE DEF j
      <4>3. QED
        BY <2>3, <2>6, <4>1, <4>2
    <3>3. CASE i + (b - a + 1) <= k /\ k < b
      <4> DEFINE j == k - (b - a) - i
      <4>1. /\ j \in 1 .. a - 1 - i /\ Source(i, a, b, k) = j + i /\ k = j + Len(q) + Len(r)
        BY <1>1, <2>0, <2>2, <2>3, <3>3 DEF Source
      <4>2. j \in 1 .. Len(t)
        BY <2>4, <4>1
      <4> HIDE DEF j
      <4>3. QED
        BY <2>4, <2>6, <4>1, <4>2
    <3>4. CASE b <= k
      <4> DEFINE j == k + 1 - b
      <4>1. /\ j \in 1 .. L - b /\ Source(i, a, b, k) = j + b /\ k = j + Len(q) + Len(r) + Len(t)
        <5>1. ~ (k < i) /\ ~ (k < i + (b - a + 1)) /\ ~ (k < b)
          BY <2>0, <3>4
        <5>2. Source(i, a, b, k) = k + 1
          BY <1>1, <5>1 DEF Source
        <5>3. QED
          BY <2>2, <2>3, <2>4, <3>4, <5>2
      <4>2. j \in 1 .. Len(u)
        BY <2>5, <4>1
      <4> HIDE DEF j
      <4>3. QED
        BY <2>5, <2>6, <4>1, <4>2
    <3>5. QED
      BY <2>0, <3>1, <3>2, <3>3, <3>4
  <2>9. QED
    BY <2>6, <2>7, <2>8 DEF s
<1>2. CASE ~ (i < a)
  <2>0. i > b + 1
    BY <1>2
  <2> DEFINE q == SubSeq(l, 1, a - 1)
             r == SubSeq(l, b + 1, i - 1)
             t == SubSeq(l, a, b)
             u == SubSeq(l, i + 1, Len(l))
  <2>1. s = q \o r \o t \o u
    BY <1>2 DEF Moved
  <2>2. q \in Seq(Node) /\ Len(q) = a - 1 /\ \A k \in 1 .. a - 1 : q[k] = l[k]
    BY SubSeqFacts
  <2>3. r \in Seq(Node) /\ Len(r) = i - 1 - b /\ \A k \in 1 .. i - 1 - b : r[k] = l[k + b]
    <3>1. /\ r \in Seq(Node) /\ Len(r) = (i - 1) - (b + 1) + 1
          /\ \A k \in 1 .. (i - 1) - (b + 1) + 1 : r[k] = l[k + (b + 1) - 1]
      BY <2>0, SubSeqFacts
    <3>2. (i - 1) - (b + 1) + 1 = i - 1 - b /\ \A k \in Int : k + (b + 1) - 1 = k + b
      OBVIOUS
    <3>3. QED
      BY <3>1, <3>2
  <2>4. t \in Seq(Node) /\ Len(t) = b - a + 1 /\ \A k \in 1 .. b - a + 1 : t[k] = l[k + a - 1]
    BY SubSeqFacts
  <2>5. u \in Seq(Node) /\ Len(u) = L - i /\ \A k \in 1 .. L - i : u[k] = l[k + i]
    <3>1. /\ u \in Seq(Node) /\ Len(u) = L - (i + 1) + 1
          /\ \A k \in 1 .. L - (i + 1) + 1 : u[k] = l[k + (i + 1) - 1]
      BY SubSeqFacts
    <3>2. L - (i + 1) + 1 = L - i
      OBVIOUS
    <3>3. ASSUME NEW k \in 1 .. L - i PROVE u[k] = l[k + i]
      <4>1. u[k] = l[k + (i + 1) - 1]
        BY <3>1, <3>2
      <4>2. k + (i + 1) - 1 = k + i
        OBVIOUS
      <4>3. QED
        BY <4>1, <4>2
    <3>4. QED
      BY <3>1, <3>2, <3>3
  <2> HIDE DEF q, r, t, u, s
  <2>6. /\ s \in Seq(Node) /\ Len(s) = Len(q) + Len(r) + Len(t) + Len(u)
        /\ \A k \in 1 .. Len(q) : s[k] = q[k]
        /\ \A k \in 1 .. Len(r) : s[k + Len(q)] = r[k]
        /\ \A k \in 1 .. Len(t) : s[k + Len(q) + Len(r)] = t[k]
        /\ \A k \in 1 .. Len(u) : s[k + Len(q) + Len(r) + Len(t)] = u[k]
    <3>0. Joined(s, q, r, t, u)
      BY <2>1 DEF Joined
    <3>1. q \in Seq(Node) /\ r \in Seq(Node) /\ t \in Seq(Node) /\ u \in Seq(Node)
      BY <2>2, <2>3, <2>4, <2>5
    <3>2. QED
      BY <3>0, <3>1, Concat4Facts
  <2>7. Len(s) = L - 1
    BY <2>2, <2>3, <2>4, <2>5, <2>6
  <2>8. ASSUME NEW k \in 1 .. L - 1 PROVE s[k] = l[Source(i, a, b, k)]
    <3>1. CASE k < a
      <4>1. k \in 1 .. a - 1 /\ k \in 1 .. Len(q) /\ Source(i, a, b, k) = k
        BY <1>2, <2>2, <3>1 DEF Source
      <4>2. QED
        BY <2>2, <2>6, <4>1
    <3>2. CASE a <= k /\ k < i - (b - a + 1)
      <4> DEFINE j == k - (a - 1)
      <4>1. /\ j \in 1 .. i - 1 - b /\ Source(i, a, b, k) = j + b /\ k = j + Len(q)
        BY <1>2, <2>2, <3>2 DEF Source
      <4>2. j \in 1 .. Len(r)
        BY <2>3, <4>1
      <4> HIDE DEF j
      <4>3. QED
        BY <2>3, <2>6, <4>1, <4>2
    <3>3. CASE i - (b - a + 1) <= k /\ k < i
      <4> DEFINE j == k - i + (b - a + 1) + 1
      <4>1. /\ j \in 1 .. b - a + 1 /\ Source(i, a, b, k) = j + a - 1 /\ k = j + Len(q) + Len(r)
        <5>1. ~ (i < a) /\ ~ (k < a) /\ ~ (k < i - (b - a + 1)) /\ k < i
          BY <1>2, <2>0, <3>3
        <5>2. Source(i, a, b, k) = k - i + b + 1
          BY <5>1 DEF Source
        <5>3. QED
          BY <2>2, <2>3, <3>3, <5>2
      <4>2. j \in 1 .. Len(t)
        BY <2>4, <4>1
      <4> HIDE DEF j
      <4>3. QED
        BY <2>4, <2>6, <4>1, <4>2
    <3>4. CASE i <= k
      <4> DEFINE j == k + 1 - i
      <4>1. /\ j \in 1 .. L - i /\ Source(i, a, b, k) = j + i /\ k = j + Len(q) + Len(r) + Len(t)
        <5>1. ~ (i < a) /\ ~ (k < a) /\ ~ (k < i - (b - a + 1)) /\ ~ (k < i)
          BY <1>2, <2>0, <3>4
        <5>2. Source(i, a, b, k) = k + 1
          BY <5>1 DEF Source
        <5>3. QED
          BY <2>2, <2>3, <2>4, <3>4, <5>2
      <4>2. j \in 1 .. Len(u)
        BY <2>5, <4>1
      <4> HIDE DEF j
      <4>3. QED
        BY <2>5, <2>6, <4>1, <4>2
    <3>5. QED
      BY <2>0, <3>1, <3>2, <3>3, <3>4
  <2>9. QED
    BY <2>6, <2>7, <2>8 DEF s
<1>3. QED
  BY <1>1, <1>2

(* With the places a .. b where i was.                                     *)
LEMMA MovedFacts ==
  ASSUME NEW l \in Lists, NEW i \in Int, NEW a \in Int, NEW b \in Int,
         2 <= i, i < Len(l), 2 <= a, a <= b, b < Len(l), i < a - 1 \/ i > b + 1
  PROVE  /\ Moved(l, i, a, b) \in Lists
         /\ ToSet(Moved(l, i, a, b)) = ToSet(l) \ {l[i]}
         /\ \A x, y : Adj(Moved(l, i, a, b), x, y) =>
              \/ x # l[i] /\ y # l[i] /\ Adj(l, x, y)
              \/ x = l[i - 1] /\ y = l[a]
              \/ x = l[b]
              \/ x = l[a - 1]
         /\ \A x, y : Adj(l, x, y) /\ x # l[i] /\ y # l[i] /\ x # l[b] /\ x # l[a - 1]
                        => Adj(Moved(l, i, a, b), x, y)
         /\ Adj(Moved(l, i, a, b), l[i - 1], l[a])
<1> DEFINE s == Moved(l, i, a, b)
           g(k) == Source(i, a, b, k)
<1>1. PICK L \in Int : L = Len(l)
  BY ListFacts
<1>2. /\ g(1) = 1 /\ g(L - 1) = L
      /\ \A k \in 1 .. L - 1 : g(k) \in 1 .. L /\ g(k) # i
      /\ \A k, j \in 1 .. L - 1 : g(k) = g(j) => k = j
      /\ \A j \in 1 .. L : j # i => \E k \in 1 .. L - 1 : g(k) = j
      /\ \A k \in 1 .. L - 2 : \/ g(k + 1) = g(k) + 1 /\ g(k) # i - 1
                               \/ g(k) = i - 1 /\ g(k + 1) = a
                               \/ g(k) = b
                               \/ g(k) = a - 1
      /\ \A j \in 1 .. L - 1 : j # i /\ j + 1 # i /\ j # b /\ j # a - 1 =>
           \E k \in 1 .. L - 2 : g(k) = j /\ g(k + 1) = j + 1
      /\ \E k \in 1 .. L - 2 : g(k) = i - 1 /\ g(k + 1) = a
  <2>1. i < L /\ b < L
    BY <1>1
  <2>2. QED
    <3>1. Rearranged(L, i, a, b)
      BY <2>1, SourceFacts
    <3>2. QED
      BY <3>1 DEF Rearranged
<1>3. s \in Seq(Node) /\ Len(s) = L - 1 /\ \A k \in 1 .. L - 1 : s[k] = l[g(k)]
  BY <1>1, MovedSource, ListFacts
<1> HIDE DEF s, g
<1>4. /\ \A j \in 1 .. L : l[j] \in ToSet(l)
      /\ \A j, k \in 1 .. L : l[j] = l[k] => j = k
      /\ \A n \in ToSet(l) : \E j \in 1 .. L : l[j] = n
      /\ l[1] = 0 /\ l[L] = MaxLen + 1
  BY <1>1, ListFacts
<1>5. /\ i \in 1 .. L /\ i - 1 \in 1 .. L /\ a \in 1 .. L /\ b \in 1 .. L /\ a - 1 \in 1 .. L
      /\ 1 \in 1 .. L - 1 /\ L - 1 \in 1 .. L - 1 /\ L - 1 >= 2
  BY <1>1
<1>6. s \in Lists
  <2>1. s[1] = 0 /\ s[Len(s)] = MaxLen + 1
    <3>1. s[1] = l[g(1)] /\ s[L - 1] = l[g(L - 1)]
      BY <1>3, <1>5
    <3>2. QED
      BY <1>2, <1>3, <1>4, <3>1
  <2>2. ASSUME NEW j \in 1 .. Len(s), NEW k \in 1 .. Len(s), s[j] = s[k] PROVE j = k
    <3>1. j \in 1 .. L - 1 /\ k \in 1 .. L - 1
      BY <1>3
    <3>2. l[g(j)] = l[g(k)] /\ g(j) \in 1 .. L /\ g(k) \in 1 .. L
      BY <1>2, <1>3, <2>2, <3>1
    <3>3. QED
      BY <1>2, <1>4, <3>1, <3>2
  <2>3. QED
    BY <1>3, <1>5, <2>1, <2>2 DEF Lists
<1>7. ToSet(s) = ToSet(l) \ {l[i]}
  <2>1. ASSUME NEW x \in ToSet(s) PROVE x \in ToSet(l) /\ x # l[i]
    <3>1. PICK k \in 1 .. L - 1 : s[k] = x
      BY <1>3, <1>6, ListFacts
    <3>2. x = l[g(k)] /\ g(k) \in 1 .. L /\ g(k) # i
      BY <1>2, <1>3, <3>1
    <3>3. QED
      BY <1>4, <1>5, <3>2
  <2>2. ASSUME NEW x \in ToSet(l), x # l[i] PROVE x \in ToSet(s)
    <3>1. PICK j \in 1 .. L : l[j] = x
      BY <1>4, <2>2
    <3>2. PICK k \in 1 .. L - 1 : g(k) = j
      BY <1>2, <2>2, <3>1
    <3>3. s[k] = x /\ k \in 1 .. Len(s)
      BY <1>3, <3>1, <3>2
    <3>4. QED
      BY <1>6, <3>3, ListFacts
  <2>3. QED
    BY <2>1, <2>2
<1>8. ASSUME NEW x, NEW y, Adj(s, x, y)
      PROVE  \/ x # l[i] /\ y # l[i] /\ Adj(l, x, y)
             \/ x = l[i - 1] /\ y = l[a]
             \/ x = l[b]
             \/ x = l[a - 1]
  <2>1. PICK k \in 1 .. Len(s) - 1 : s[k] = x /\ s[k + 1] = y
    BY <1>8 DEF Adj
  <2>2. k \in 1 .. L - 2 /\ k \in 1 .. L - 1 /\ k + 1 \in 1 .. L - 1
    BY <1>3
  <2>3. /\ x = l[g(k)] /\ y = l[g(k + 1)] /\ g(k) \in 1 .. L /\ g(k + 1) \in 1 .. L
        /\ g(k) # i /\ g(k + 1) # i
    BY <1>2, <1>3, <2>1, <2>2
  <2>4. CASE g(k + 1) = g(k) + 1
    <3>1. x # l[i] /\ y # l[i]
      BY <1>4, <1>5, <2>3
    <3>2. PICK j \in 1 .. L : j = g(k)
      BY <2>3
    <3>3. j + 1 \in 1 .. L
      BY <2>3, <2>4, <3>2
    <3>4. j \in 1 .. Len(l) - 1
      BY <1>1, <3>3
    <3>5. Adj(l, x, y)
      BY <2>3, <2>4, <3>2, <3>4 DEF Adj
    <3>6. QED
      BY <3>1, <3>5
  <2>5. QED
    BY <1>2, <2>2, <2>3, <2>4
<1>9. ASSUME NEW x, NEW y, Adj(l, x, y), x # l[i], y # l[i], x # l[b], x # l[a - 1]
      PROVE  Adj(s, x, y)
  <2>1. PICK j \in 1 .. Len(l) - 1 : l[j] = x /\ l[j + 1] = y
    BY <1>9 DEF Adj
  <2>2. j \in 1 .. L - 1 /\ j # i /\ j + 1 # i /\ j # b /\ j # a - 1
    BY <1>1, <1>9, <2>1
  <2>3. PICK k \in 1 .. L - 2 : g(k) = j /\ g(k + 1) = j + 1
    BY <1>2, <2>2
  <2>4. k \in 1 .. L - 1 /\ k + 1 \in 1 .. L - 1 /\ k \in 1 .. Len(s) - 1
    BY <1>3
  <2>5. s[k] = x /\ s[k + 1] = y
    BY <1>3, <2>1, <2>3, <2>4
  <2>6. QED
    BY <2>4, <2>5 DEF Adj
<1>10. Adj(s, l[i - 1], l[a])
  <2>1. PICK k \in 1 .. L - 2 : g(k) = i - 1 /\ g(k + 1) = a
    BY <1>2
  <2>2. k \in 1 .. L - 1 /\ k + 1 \in 1 .. L - 1 /\ k \in 1 .. Len(s) - 1
    BY <1>3
  <2>3. s[k] = l[i - 1] /\ s[k + 1] = l[a]
    BY <1>3, <2>1, <2>2
  <2>4. QED
    BY <2>2, <2>3 DEF Adj
<1>11. QED
  BY <1>6, <1>7, <1>8, <1>9, <1>10 DEF s

-----------------------------------------------------------------------------
(* What the statements of every program are like.                          *)
IsJump(n) == op(n) \in {"JBR", "CBR"}
IsLabel(n) == op(n) = "LABEL"

Shape ==
  /\ \A n \in Node : op(n) \in {"HEAD", "EROU", "LABEL", "JBR", "CBR", "STMT", "GOTO*"}
  /\ \A n \in Node : prog[n][2] \in Int
  /\ \A n \in Node : (op(n) = "HEAD" <=> n = 0) /\ (op(n) = "EROU" <=> n = MaxLen + 1)
  /\ \A m, n \in Node : IsLabel(m) /\ IsLabel(n) /\ prog[m][2] = prog[n][2] => m = n
  /\ \A n \in Node : IsJump(n) => \E m \in Node : IsLabel(m) /\ prog[m][2] = prog[n][2]
  /\ \A n \in Node : op(n) = "GOTO*" =>
       \A x \in InUse : \E m \in Node : IsLabel(m) /\ prog[m][2] = x

(* What refers to label m, and what an address taken counts for.           *)
RefsTo(l, rf, m) == {n \in ToSet(l) : IsJump(n) /\ rf[n] = m}
Bonus(m) == IF prog[m][2] \in InUse THEN 1000 ELSE 0

(* The references of the jumps of list l, and the counts of its labels.    *)
Exact(l, lab, rf, rc) ==
  /\ l \in Lists
  /\ lab \in [Node -> Int] /\ rf \in [Node -> Node \cup {NIL}] /\ rc \in [Node -> Int]
  /\ \A m \in Node : IsLabel(m) => lab[m] = prog[m][2] /\ (prog[m][2] \in InUse => m \in ToSet(l))
  /\ \A n \in ToSet(l) : IsJump(n) => rf[n] \in ToSet(l) /\ IsLabel(rf[n]) /\ lab[n] = lab[rf[n]]
  /\ \A m \in ToSet(l) : IsLabel(m) =>
       rc[m] > 0 /\ rc[m] = Cardinality(RefsTo(l, rf, m)) + Bonus(m)

LEMMA NodesFinite ==
  /\ IsFiniteSet(Node)
  /\ MaxLen + 1 \in Node /\ 0 \in Node /\ MaxLen \in Nat
<1>1. MaxLen \in Nat /\ 0 \in Int /\ MaxLen + 1 \in Int
  BY DelJumpsAssumption
<1>2. IsFiniteSet(0 .. MaxLen + 1)
  BY <1>1, FS_Interval
<1>3. QED
  BY <1>1, <1>2 DEF Node

LEMMA RefsFinite ==
  ASSUME NEW l \in Lists, NEW rf, NEW m
  PROVE  IsFiniteSet(RefsTo(l, rf, m)) /\ Cardinality(RefsTo(l, rf, m)) \in Nat
<1>1. RefsTo(l, rf, m) \subseteq Node
  BY ListFacts DEF RefsTo
<1>2. IsFiniteSet(RefsTo(l, rf, m))
  BY <1>1, NodesFinite, FS_Subset
<1>3. QED
  BY <1>2, FS_CardinalityType

(* The last reference to a label.                                          *)
LEMMA LastReference ==
  ASSUME NEW l, NEW lab, NEW rf, NEW rc, Exact(l, lab, rf, rc),
         NEW g \in ToSet(l), IsJump(g), rc[rf[g]] <= 1
  PROVE  /\ prog[rf[g]][2] \notin InUse
         /\ \A n \in ToSet(l) : IsJump(n) /\ rf[n] = rf[g] => n = g
<1> DEFINE r == rf[g]
           R == RefsTo(l, rf, r)
<1>1. r \in ToSet(l) /\ IsLabel(r) /\ l \in Lists
  BY DEF Exact
<1>2. rc[r] = Cardinality(R) + Bonus(r) /\ rc[r] <= 1
  BY <1>1 DEF Exact
<1>3. IsFiniteSet(R) /\ Cardinality(R) \in Nat
  BY <1>1, RefsFinite
<1>4. g \in R
  BY DEF RefsTo
<1>5. /\ IsFiniteSet(R \ {g}) /\ Cardinality(R \ {g}) = Cardinality(R) - 1
      /\ Cardinality(R \ {g}) \in Nat
  BY <1>3, <1>4, FS_RemoveElement, FS_CardinalityType
<1> HIDE DEF R
<1>6. Bonus(r) = 0 /\ Cardinality(R \ {g}) = 0
  <2>1. Bonus(r) = 0 \/ Bonus(r) = 1000
    BY DEF Bonus
  <2>2. QED
    BY <1>2, <1>3, <1>5, <2>1
<1>7. R \ {g} = {}
  BY <1>5, <1>6, FS_EmptySet
<1>8. QED
  BY <1>6, <1>7 DEF Bonus, R, RefsTo

(* A jump goes, and a label with the last reference to it.                 *)
LEMMA DropRef ==
  ASSUME Shape, NEW l, NEW lab, NEW rf, NEW rc, Exact(l, lab, rf, rc),
         NEW g \in ToSet(l), IsJump(g), NEW s \in Lists,
         ToSet(s) = (ToSet(l) \ {g}) \ (IF rc[rf[g]] <= 1 THEN {rf[g]} ELSE {})
  PROVE  Exact(s, lab, rf, [rc EXCEPT ![rf[g]] = @ - 1])
<1> DEFINE r == rf[g]
           rc2 == [rc EXCEPT ![r] = @ - 1]
<1>1. /\ r \in ToSet(l) /\ IsLabel(r) /\ l \in Lists /\ r # g /\ r \in Node /\ g \in Node
      /\ ToSet(l) \subseteq Node /\ ToSet(s) \subseteq ToSet(l)
  BY ListFacts DEF Exact, IsLabel, IsJump
<1>2. rc[r] <= 1 => prog[r][2] \notin InUse /\ \A n \in ToSet(l) : IsJump(n) /\ rf[n] = r => n = g
  BY LastReference
<1>3. lab \in [Node -> Int] /\ rf \in [Node -> Node \cup {NIL}] /\ rc \in [Node -> Int]
  BY DEF Exact
<1>4. rc2 \in [Node -> Int] /\ rc2[r] = rc[r] - 1 /\ \A m \in Node : m # r => rc2[m] = rc[m]
  BY <1>1, <1>3
<1>5. ASSUME NEW m \in Node, IsLabel(m)
      PROVE  lab[m] = prog[m][2] /\ (prog[m][2] \in InUse => m \in ToSet(s))
  <2>1. m # g
    BY <1>5 DEF IsLabel, IsJump
  <2>2. QED
    BY <1>2, <1>5, <2>1 DEF Exact
<1>6. ASSUME NEW n \in ToSet(s), IsJump(n)
      PROVE  rf[n] \in ToSet(s) /\ IsLabel(rf[n]) /\ lab[n] = lab[rf[n]]
  <2>1. n \in ToSet(l) /\ n # g
    BY <1>6
  <2>2. rf[n] \in ToSet(l) /\ IsLabel(rf[n]) /\ lab[n] = lab[rf[n]]
    BY <1>6, <2>1 DEF Exact
  <2>3. rf[n] # g
    BY <2>2 DEF IsLabel, IsJump
  <2>4. rc[r] <= 1 => rf[n] # r
    BY <1>2, <1>6, <2>1
  <2>5. QED
    BY <2>2, <2>3, <2>4
<1>7. ASSUME NEW m \in ToSet(s), IsLabel(m)
      PROVE  rc2[m] > 0 /\ rc2[m] = Cardinality(RefsTo(s, rf, m)) + Bonus(m)
  <2>1. rc[m] > 0 /\ rc[m] = Cardinality(RefsTo(l, rf, m)) + Bonus(m) /\ m \in Node
    BY <1>1, <1>7 DEF Exact
  <2>2. RefsTo(s, rf, m) = RefsTo(l, rf, m) \ {g}
    BY <1>1 DEF RefsTo, IsJump, IsLabel
  <2>3. CASE m = r
    <3>1. rc[r] > 1
      <4>1. ~ (rc[r] <= 1)
        BY <1>7, <2>3
      <4>2. rc[r] \in Int
        BY <1>1, <1>3
      <4>3. QED
        BY <4>1, <4>2
    <3>2. g \in RefsTo(l, rf, m)
      BY <2>3 DEF RefsTo
    <3>3. Cardinality(RefsTo(s, rf, m)) = Cardinality(RefsTo(l, rf, m)) - 1
      <4>1. IsFiniteSet(RefsTo(l, rf, m))
        BY <1>1, RefsFinite
      <4>2. QED
        BY <2>2, <3>2, <4>1, FS_RemoveElement
    <3>4. Cardinality(RefsTo(l, rf, m)) \in Int /\ Bonus(m) \in Int /\ rc[r] \in Int
      BY <1>1, <1>3, RefsFinite DEF Bonus
    <3> HIDE DEF rc2
    <3>5. QED
      BY <1>4, <2>1, <2>3, <3>1, <3>3, <3>4
  <2>4. CASE m # r
    <3>1. g \notin RefsTo(l, rf, m)
      BY <2>4 DEF RefsTo
    <3>2. RefsTo(s, rf, m) = RefsTo(l, rf, m)
      BY <2>2, <3>1
    <3>3. QED
      BY <1>4, <2>1, <2>4, <3>2
  <2>5. QED
    BY <2>3, <2>4
<1> HIDE DEF rc2
<1>8. Exact(s, lab, rf, rc2)
  BY <1>3, <1>4, <1>5, <1>6, <1>7 DEF Exact
<1>9. QED
  BY <1>8 DEF rc2

(* A statement goes that neither is a label nor refers to one.             *)
LEMMA DropOther ==
  ASSUME Shape, NEW l, NEW lab, NEW rf, NEW rc, Exact(l, lab, rf, rc),
         NEW d, ~ IsJump(d), ~ IsLabel(d), NEW s \in Lists, ToSet(s) = ToSet(l) \ {d}
  PROVE  Exact(s, lab, rf, rc)
<1>1. \A m : RefsTo(s, rf, m) = RefsTo(l, rf, m)
  BY DEF RefsTo
<1>2. QED
  BY <1>1 DEF Exact

(* A jump is redirected.                                                   *)
LEMMA Redirect ==
  ASSUME Shape, NEW l, NEW lab, NEW rf, NEW rc, Exact(l, lab, rf, rc),
         NEW g \in ToSet(l), IsJump(g), NEW t \in ToSet(l), IsLabel(t), t # rf[g],
         NEW s \in Lists,
         ToSet(s) = ToSet(l) \ (IF rc[rf[g]] <= 1 THEN {rf[g]} ELSE {})
  PROVE  Exact(s, [lab EXCEPT ![g] = lab[t]], [rf EXCEPT ![g] = t],
               [[rc EXCEPT ![rf[g]] = @ - 1] EXCEPT ![t] = @ + 1])
<1> DEFINE r == rf[g]
           rc2 == [[rc EXCEPT ![r] = @ - 1] EXCEPT ![t] = @ + 1]
           lab2 == [lab EXCEPT ![g] = lab[t]]
           rf2 == [rf EXCEPT ![g] = t]
<1>1. /\ r \in ToSet(l) /\ IsLabel(r) /\ l \in Lists /\ r # g /\ t # g
      /\ r \in Node /\ g \in Node /\ t \in Node
      /\ ToSet(l) \subseteq Node /\ ToSet(s) \subseteq ToSet(l)
  BY ListFacts DEF Exact, IsLabel, IsJump
<1>2. rc[r] <= 1 => prog[r][2] \notin InUse /\ \A n \in ToSet(l) : IsJump(n) /\ rf[n] = r => n = g
  BY LastReference
<1>3. lab \in [Node -> Int] /\ rf \in [Node -> Node \cup {NIL}] /\ rc \in [Node -> Int]
  BY DEF Exact
<1>4. /\ rc2 \in [Node -> Int] /\ rc2[r] = rc[r] - 1 /\ rc2[t] = rc[t] + 1
      /\ \A m \in Node : m # r /\ m # t => rc2[m] = rc[m]
      /\ lab2 \in [Node -> Int] /\ rf2 \in [Node -> Node \cup {NIL}]
      /\ lab2[g] = lab[t] /\ rf2[g] = t
      /\ \A m \in Node : m # g => lab2[m] = lab[m] /\ rf2[m] = rf[m]
  BY <1>1, <1>3
<1> HIDE DEF rc2, lab2, rf2
<1>5. ASSUME NEW m \in Node, IsLabel(m)
      PROVE  lab2[m] = prog[m][2] /\ (prog[m][2] \in InUse => m \in ToSet(s))
  <2>1. m # g
    BY <1>5 DEF IsLabel, IsJump
  <2>2. QED
    BY <1>2, <1>4, <1>5, <2>1 DEF Exact
<1>6. ASSUME NEW n \in ToSet(s), IsJump(n)
      PROVE  rf2[n] \in ToSet(s) /\ IsLabel(rf2[n]) /\ lab2[n] = lab2[rf2[n]]
  <2>1. n \in ToSet(l) /\ n \in Node
    BY <1>1
  <2>2. CASE n = g
    BY <1>1, <1>4, <2>2
  <2>3. CASE n # g
    <3>1. rf[n] \in ToSet(l) /\ IsLabel(rf[n]) /\ lab[n] = lab[rf[n]] /\ rf2[n] = rf[n]
          /\ lab2[n] = lab[n]
      BY <1>4, <1>6, <2>1, <2>3 DEF Exact
    <3>2. rf[n] # g /\ rf[n] \in Node
      BY <1>1, <3>1 DEF IsLabel, IsJump
    <3>3. rc[r] <= 1 => rf[n] # r
      BY <1>2, <1>6, <2>1, <2>3
    <3>4. QED
      BY <1>4, <3>1, <3>2, <3>3
  <2>4. QED
    BY <2>2, <2>3
<1>7. ASSUME NEW m \in ToSet(s), IsLabel(m)
      PROVE  rc2[m] > 0 /\ rc2[m] = Cardinality(RefsTo(s, rf2, m)) + Bonus(m)
  <2> DEFINE R == RefsTo(l, rf, m)
             R2 == RefsTo(s, rf2, m)
  <2>1. rc[m] > 0 /\ rc[m] = Cardinality(R) + Bonus(m) /\ m \in Node
    BY <1>1, <1>7 DEF Exact
  <2>2. R2 = IF m = t THEN R \cup {g} ELSE R \ {g}
    <3>1. g \in ToSet(s)
      BY <1>1
    <3>2. \A n \in ToSet(l) : IsJump(n) => n \in ToSet(s) /\ n \in Node
      BY <1>1 DEF IsJump, IsLabel
    <3>3. QED
      BY <1>1, <1>4, <3>1, <3>2 DEF RefsTo
  <2>3. g \in R <=> m = r
    BY DEF RefsTo
  <2>4. IsFiniteSet(R) /\ Cardinality(R) \in Int /\ Bonus(m) \in Int /\ rc[m] \in Int
    BY <1>1, <1>3, <2>1, RefsFinite DEF Bonus
  <2> HIDE DEF R, R2
  <2>5. ASSUME m = r PROVE rc2[m] > 0 /\ rc2[m] = Cardinality(R2) + Bonus(m)
    <3>1. rc[r] > 1
      <4>1. ~ (rc[r] <= 1)
        BY <1>7, <2>5
      <4>2. QED
        BY <2>4, <2>5, <4>1
    <3>2. Cardinality(R2) = Cardinality(R) - 1
      BY <2>2, <2>3, <2>4, <2>5, FS_RemoveElement
    <3>3. QED
      BY <1>4, <2>1, <2>4, <2>5, <3>1, <3>2
  <2>6. ASSUME m = t PROVE rc2[m] > 0 /\ rc2[m] = Cardinality(R2) + Bonus(m)
    <3>1. Cardinality(R2) = Cardinality(R) + 1
      BY <2>2, <2>3, <2>4, <2>6, FS_AddElement
    <3>2. QED
      BY <1>4, <2>1, <2>4, <2>6, <3>1
  <2>7. ASSUME m # r /\ m # t PROVE rc2[m] > 0 /\ rc2[m] = Cardinality(R2) + Bonus(m)
    <3>1. R2 = R
      BY <2>2, <2>3, <2>7
    <3>2. QED
      BY <1>4, <2>1, <2>7, <3>1
  <2>8. rc2[m] > 0 /\ rc2[m] = Cardinality(R2) + Bonus(m)
    BY <2>5, <2>6, <2>7
  <2>9. QED
    BY <2>8 DEF R2
<1>8. Exact(s, lab2, rf2, rc2)
  BY <1>3, <1>4, <1>5, <1>6, <1>7 DEF Exact
<1>9. QED
  BY <1>8 DEF rc2, lab2, rf2

(* Jump g takes the reference of jump j, which goes.                       *)
LEMMA TakeOver ==
  ASSUME Shape, NEW l, NEW lab, NEW rf, NEW rc, Exact(l, lab, rf, rc),
         NEW g \in ToSet(l), IsJump(g), NEW j \in ToSet(l), IsJump(j), j # g,
         NEW s \in Lists,
         ToSet(s) = (ToSet(l) \ {j}) \ (IF rc[rf[g]] <= 1 THEN {rf[g]} ELSE {})
  PROVE  Exact(s, [lab EXCEPT ![g] = lab[j]], [rf EXCEPT ![g] = rf[j]],
               [rc EXCEPT ![rf[g]] = @ - 1])
<1> DEFINE r == rf[g]
           t == rf[j]
           rc2 == [rc EXCEPT ![r] = @ - 1]
           lab2 == [lab EXCEPT ![g] = lab[j]]
           rf2 == [rf EXCEPT ![g] = t]
<1>1. /\ r \in ToSet(l) /\ IsLabel(r) /\ l \in Lists /\ r # g /\ t # g /\ r # j /\ t # j
      /\ t \in ToSet(l) /\ IsLabel(t) /\ lab[j] = lab[t]
      /\ r \in Node /\ g \in Node /\ t \in Node /\ j \in Node
      /\ ToSet(l) \subseteq Node /\ ToSet(s) \subseteq ToSet(l)
  BY ListFacts DEF Exact, IsLabel, IsJump
<1>2. rc[r] <= 1 => prog[r][2] \notin InUse /\ \A n \in ToSet(l) : IsJump(n) /\ rf[n] = r => n = g
  BY LastReference
<1>3. lab \in [Node -> Int] /\ rf \in [Node -> Node \cup {NIL}] /\ rc \in [Node -> Int]
  BY DEF Exact
<1>4. /\ rc2 \in [Node -> Int] /\ rc2[r] = rc[r] - 1
      /\ \A m \in Node : m # r => rc2[m] = rc[m]
      /\ lab2 \in [Node -> Int] /\ rf2 \in [Node -> Node \cup {NIL}]
      /\ lab2[g] = lab[t] /\ rf2[g] = t
      /\ \A m \in Node : m # g => lab2[m] = lab[m] /\ rf2[m] = rf[m]
  BY <1>1, <1>3
<1> HIDE DEF rc2, lab2, rf2
<1>5. ASSUME NEW m \in Node, IsLabel(m)
      PROVE  lab2[m] = prog[m][2] /\ (prog[m][2] \in InUse => m \in ToSet(s))
  <2>1. m # g /\ m # j
    BY <1>5 DEF IsLabel, IsJump
  <2>2. QED
    BY <1>2, <1>4, <1>5, <2>1 DEF Exact
<1>6. ASSUME NEW n \in ToSet(s), IsJump(n)
      PROVE  rf2[n] \in ToSet(s) /\ IsLabel(rf2[n]) /\ lab2[n] = lab2[rf2[n]]
  <2>1. n \in ToSet(l) /\ n \in Node /\ n # j
    BY <1>1
  <2>2. CASE n = g
    <3>1. rc[r] <= 1 => t # r
      BY <1>2
    <3>2. t \in ToSet(s)
      BY <1>1, <3>1
    <3>3. QED
      BY <1>1, <1>4, <2>2, <3>2
  <2>3. CASE n # g
    <3>1. rf[n] \in ToSet(l) /\ IsLabel(rf[n]) /\ lab[n] = lab[rf[n]] /\ rf2[n] = rf[n]
          /\ lab2[n] = lab[n]
      BY <1>4, <1>6, <2>1, <2>3 DEF Exact
    <3>2. rf[n] # g /\ rf[n] # j /\ rf[n] \in Node
      BY <1>1, <3>1 DEF IsLabel, IsJump
    <3>3. rc[r] <= 1 => rf[n] # r
      BY <1>2, <1>6, <2>1, <2>3
    <3>4. QED
      BY <1>4, <3>1, <3>2, <3>3
  <2>4. QED
    BY <2>2, <2>3
<1>7. ASSUME NEW m \in ToSet(s), IsLabel(m)
      PROVE  rc2[m] > 0 /\ rc2[m] = Cardinality(RefsTo(s, rf2, m)) + Bonus(m)
  <2> DEFINE R == RefsTo(l, rf, m)
             R2 == RefsTo(s, rf2, m)
  <2>1. rc[m] > 0 /\ rc[m] = Cardinality(R) + Bonus(m) /\ m \in Node
    BY <1>1, <1>7 DEF Exact
  <2>2. R2 = IF m = t THEN (R \ {j}) \cup {g} ELSE R \ {g}
    <3>1. g \in ToSet(s) /\ j \notin ToSet(s)
      BY <1>1
    <3>2. \A n \in ToSet(l) : IsJump(n) /\ n # j => n \in ToSet(s) /\ n \in Node
      BY <1>1 DEF IsJump, IsLabel
    <3>3. m # t => j \notin R
      BY DEF RefsTo
    <3>4. QED
      BY <1>1, <1>4, <3>1, <3>2, <3>3 DEF RefsTo
  <2>3. (g \in R <=> m = r) /\ (j \in R <=> m = t)
    BY DEF RefsTo
  <2>4. IsFiniteSet(R) /\ Cardinality(R) \in Int /\ Bonus(m) \in Int /\ rc[m] \in Int
    BY <1>1, <1>3, <2>1, RefsFinite DEF Bonus
  <2> HIDE DEF R, R2
  <2>5. ASSUME m = r PROVE rc2[m] > 0 /\ rc2[m] = Cardinality(R2) + Bonus(m)
    <3>1. rc[r] > 1
      <4>1. ~ (rc[r] <= 1)
        BY <1>7, <2>5
      <4>2. QED
        BY <2>4, <2>5, <4>1
    <3>2. Cardinality(R2) = Cardinality(R) - 1
      <4>1. CASE m = t
        <5>1. R2 = R \ {j} /\ j \in R
          BY <2>2, <2>3, <2>5, <4>1
        <5>2. QED
          BY <2>4, <5>1, FS_RemoveElement
      <4>2. CASE m # t
        BY <2>2, <2>3, <2>4, <2>5, <4>2, FS_RemoveElement
      <4>3. QED
        BY <4>1, <4>2
    <3>3. QED
      BY <1>4, <2>1, <2>4, <2>5, <3>1, <3>2
  <2>6. ASSUME m # r /\ m = t PROVE rc2[m] > 0 /\ rc2[m] = Cardinality(R2) + Bonus(m)
    <3>1. IsFiniteSet(R \ {j}) /\ Cardinality(R \ {j}) = Cardinality(R) - 1 /\ g \notin R \ {j}
      BY <2>3, <2>4, <2>6, FS_RemoveElement
    <3>2. Cardinality(R2) = Cardinality(R \ {j}) + 1
      BY <2>2, <2>6, <3>1, FS_AddElement
    <3>3. QED
      BY <1>4, <2>1, <2>4, <2>6, <3>1, <3>2
  <2>7. ASSUME m # r /\ m # t PROVE rc2[m] > 0 /\ rc2[m] = Cardinality(R2) + Bonus(m)
    <3>1. R2 = R
      BY <2>2, <2>3, <2>7
    <3>2. QED
      BY <1>4, <2>1, <2>7, <3>1
  <2>8. rc2[m] > 0 /\ rc2[m] = Cardinality(R2) + Bonus(m)
    BY <2>5, <2>6, <2>7
  <2>9. QED
    BY <2>8 DEF R2
<1>8. Exact(s, lab2, rf2, rc2)
  BY <1>3, <1>4, <1>5, <1>6, <1>7 DEF Exact
<1>9. QED
  BY <1>8 DEF rc2, lab2, rf2

-----------------------------------------------------------------------------
(* Lists in the order of the program.                                      *)
Incr(s) == \A i, j \in 1 .. Len(s) : i < j => s[i] < s[j]

Kept(rc, m) == ~ (op(m) = "LABEL" /\ rc[m] = 0)

LEMMA IncrAppend ==
  ASSUME NEW s \in Seq(Node), Incr(s), NEW m \in Node, \A x \in ToSet(s) : x < m
  PROVE  Append(s, m) \in Seq(Node) /\ Incr(Append(s, m)) /\ ToSet(Append(s, m)) = ToSet(s) \cup {m}
<1> DEFINE u == Append(s, m)
<1>1. /\ u \in Seq(Node) /\ Len(u) = Len(s) + 1 /\ Len(s) \in Nat
      /\ \A i \in 1 .. Len(s) : u[i] = s[i]
      /\ u[Len(s) + 1] = m
  OBVIOUS
<1>2. ToSet(u) = ToSet(s) \cup {m}
  BY ToSetAppend
<1> HIDE DEF u
<1>3. \A i \in 1 .. Len(s) : s[i] \in ToSet(s)
  BY DEF ToSet
<1>4. ASSUME NEW i \in 1 .. Len(u), NEW j \in 1 .. Len(u), i < j PROVE u[i] < u[j]
  <2>1. i \in 1 .. Len(s) /\ (j \in 1 .. Len(s) \/ j = Len(s) + 1)
    BY <1>1, <1>4
  <2>2. CASE j \in 1 .. Len(s)
    BY <1>1, <1>4, <2>1, <2>2 DEF Incr
  <2>3. CASE j = Len(s) + 1
    BY <1>1, <1>3, <2>1, <2>3
  <2>4. QED
    BY <2>1, <2>2, <2>3
<1>5. Incr(u)
  BY <1>4 DEF Incr
<1>6. QED
  BY <1>1, <1>2, <1>5 DEF u

LEMMA ReferredIs ==
  ASSUME NEW l \in Seq(Node), Incr(l), NEW rc
  PROVE  /\ Referred(l, rc) \in Seq(Node) /\ Incr(Referred(l, rc))
         /\ ToSet(Referred(l, rc)) = {m \in ToSet(l) : Kept(rc, m)}
<1> DEFINE T == Seq(Node)
           n == Len(l)
           Next1(x, t) == IF op(l[x]) = "LABEL" /\ rc[l[x]] = 0 THEN t ELSE Append(t, l[x])
           G == [q \in (1 .. n) \X T |-> Next1(q[1], q[2])]
           Is(h) == h = [s \in SUBSET (1 .. n) |->
                           IF s = {} THEN <<>> ELSE Next1(Max(s), h[s \ {Max(s)}])]
           iter == CHOOSE h : Is(h)
<1>1. n \in Nat /\ DOMAIN l = 1 .. n /\ \A k \in 1 .. n : l[k] \in Node
  OBVIOUS
<1>2. Referred(l, rc) = iter[1 .. n]
  BY <1>1 DEF Referred, FoldLeft, MapThenFoldSet
<1>3. /\ G \in [(1 .. n) \X T -> T]
      /\ \A k \in 1 .. n, t \in T : G[<<k, t>>] = Next1(k, t)
  <2>1. \A k \in 1 .. n, t \in T : Next1(k, t) \in T
    BY <1>1
  <2> HIDE DEF Next1
  <2>2. QED
    BY <2>1
<1> HIDE DEF G
<1>4. PICK h : Folded(h, T, <<>>, G, n)
  <2>1. <<>> \in T
    OBVIOUS
  <2>2. QED
    BY <1>1, <1>3, <2>1, FoldExists
<1>5. \A s \in SUBSET (1 .. n) : s # {} =>
         Max(s) \in 1 .. n /\ h[s \ {Max(s)}] \in T
  BY <1>1, <1>4, MaxIsIn DEF Folded
<1> HIDE DEF Next1, T, n
<1>6. Is(h)
  BY <1>3, <1>4, <1>5 DEF Folded
<1>7. Is(iter)
  BY <1>6
<1> HIDE DEF iter
<1> DEFINE Some(k) == {m \in Node : Kept(rc, m) /\ \E j \in 1 .. k : m = l[j]}
           S == {k \in Nat : k <= n => /\ iter[1 .. k] \in Seq(Node) /\ Incr(iter[1 .. k])
                                       /\ ToSet(iter[1 .. k]) = Some(k)}
<1>8. 0 \in S
  <2>1. 1 .. 0 = {} /\ {} \in SUBSET (1 .. n)
    OBVIOUS
  <2>2. iter[1 .. 0] = <<>>
    BY <1>7, <2>1
  <2>3. Some(0) = {}
    BY <2>1
  <2>4. <<>> \in Seq(Node) /\ Incr(<<>>) /\ ToSet(<<>>) = {}
    BY DEF Incr, ToSet
  <2>5. QED
    BY <2>2, <2>3, <2>4
<1>9. ASSUME NEW k \in Nat, k \in S PROVE k + 1 \in S
  <2> DEFINE t == iter[1 .. k]
             u == iter[1 .. k + 1]
  <2> SUFFICES ASSUME k + 1 <= n
               PROVE  u \in Seq(Node) /\ Incr(u) /\ ToSet(u) = Some(k + 1)
    OBVIOUS
  <2>1. u = Next1(k + 1, t)
    <3>1. /\ 1 .. k + 1 \in SUBSET (1 .. n) /\ 1 .. k + 1 # {}
          /\ Max(1 .. k + 1) = k + 1 /\ (1 .. k + 1) \ {k + 1} = 1 .. k
      BY <1>1, Initial
    <3>2. QED
      BY <1>7, <3>1
  <2>2. t \in Seq(Node) /\ Incr(t) /\ ToSet(t) = Some(k)
    BY <1>1, <1>9
  <2>3. k + 1 \in 1 .. n /\ \A j \in 1 .. k : j \in 1 .. n /\ j < k + 1
    BY <1>1
  <2>4. l[k + 1] \in Node /\ \A j \in 1 .. k : l[j] < l[k + 1]
    BY <1>1, <2>3 DEF Incr, n
  <2>5. \A m : (\E j \in 1 .. k + 1 : m = l[j]) <=> (\E j \in 1 .. k : m = l[j]) \/ m = l[k + 1]
    OBVIOUS
  <2> HIDE DEF t, u
  <2>6. CASE Kept(rc, l[k + 1])
    <3>1. u = Append(t, l[k + 1])
      BY <2>1, <2>6 DEF Next1, Kept
    <3>2. \A x \in ToSet(t) : x < l[k + 1]
      BY <2>2, <2>4
    <3>3. u \in Seq(Node) /\ Incr(u) /\ ToSet(u) = ToSet(t) \cup {l[k + 1]}
      BY <2>2, <2>4, <3>1, <3>2, IncrAppend
    <3>4. Some(k + 1) = Some(k) \cup {l[k + 1]}
      BY <2>4, <2>5, <2>6
    <3>5. QED
      BY <2>2, <3>3, <3>4
  <2>7. CASE ~ Kept(rc, l[k + 1])
    <3>1. u = t
      BY <2>1, <2>7 DEF Next1, Kept
    <3>2. Some(k + 1) = Some(k)
      BY <2>5, <2>7
    <3>3. QED
      BY <2>2, <3>1, <3>2
  <2>8. QED
    BY <2>6, <2>7
<1> HIDE DEF S
<1>10. n \in S
  BY <1>1, <1>8, <1>9, SetInduction
<1>11. ToSet(l) = {l[j] : j \in 1 .. n}
  BY <1>1 DEF ToSet
<1>12. Some(n) = {m \in ToSet(l) : Kept(rc, m)}
  BY <1>1, <1>11
<1>13. QED
  BY <1>1, <1>2, <1>10, <1>12 DEF S

(* The program as a list.                                                  *)
LEMMA ProgFacts ==
  /\ progList \in Lists /\ Incr(progList) /\ ToSet(progList) = Node
  /\ Len(progList) = MaxLen + 2
  /\ \A n \in Node : n + 1 \in 1 .. MaxLen + 2 /\ progList[n + 1] = n /\ Place(progList, n) = n + 1
  /\ \A a, b : Adj(progList, a, b) <=> a \in Node /\ a # MaxLen + 1 /\ b = a + 1
<1>0. MaxLen \in Nat
  BY DelJumpsAssumption
<1> DEFINE l == progList
<1>1. l \in Seq(Node) /\ Len(l) = MaxLen + 2 /\ \A i \in 1 .. MaxLen + 2 : l[i] = i - 1
  BY <1>0 DEF progList, Node
<1> HIDE DEF l
<1>2. l \in Lists /\ Incr(l)
  <2>1. l[1] = 0 /\ l[Len(l)] = MaxLen + 1 /\ Len(l) >= 2
    BY <1>0, <1>1
  <2>2. \A i, j \in 1 .. Len(l) : l[i] = l[j] => i = j
    BY <1>0, <1>1
  <2>3. \A i, j \in 1 .. Len(l) : i < j => l[i] < l[j]
    BY <1>0, <1>1
  <2>4. QED
    BY <1>1, <2>1, <2>2, <2>3 DEF Lists, Incr
<1>3. \A n \in Node : n + 1 \in 1 .. MaxLen + 2 /\ l[n + 1] = n
  BY <1>0, <1>1 DEF Node
<1>4. \A n \in Node : Place(l, n) = n + 1
  <2> TAKE n \in Node
  <2>1. PICK i \in 1 .. Len(l) : i = n + 1
    BY <1>1, <1>3
  <2>2. Place(l, l[i]) = i
    BY <1>2, PlaceIs
  <2>3. QED
    BY <1>3, <2>1, <2>2
<1>5. ToSet(l) = Node
  <2>1. \A n \in Node : n \in ToSet(l)
    <3> TAKE n \in Node
    <3>1. PICK i \in 1 .. Len(l) : i = n + 1
      BY <1>1, <1>3
    <3>2. l[i] \in ToSet(l)
      BY <1>2, ListFacts
    <3>3. QED
      BY <1>3, <3>1, <3>2
  <2>2. QED
    BY <1>2, <2>1, ListFacts
<1>6. ASSUME NEW a, NEW b
      PROVE  Adj(l, a, b) <=> a \in Node /\ a # MaxLen + 1 /\ b = a + 1
  <2>1. ASSUME Adj(l, a, b) PROVE a \in Node /\ a # MaxLen + 1 /\ b = a + 1
    <3>1. PICK i \in 1 .. Len(l) - 1 : l[i] = a /\ l[i + 1] = b
      BY <2>1 DEF Adj
    <3>2. i \in 1 .. MaxLen + 1 /\ i \in 1 .. MaxLen + 2 /\ i + 1 \in 1 .. MaxLen + 2
      BY <1>0, <1>1
    <3>3. a = i - 1 /\ b = (i + 1) - 1
      BY <1>1, <3>1, <3>2
    <3>4. QED
      BY <1>0, <3>2, <3>3 DEF Node
  <2>2. ASSUME a \in Node, a # MaxLen + 1, b = a + 1 PROVE Adj(l, a, b)
    <3>1. a + 1 \in 1 .. MaxLen + 1 /\ (a + 1) + 1 \in 1 .. MaxLen + 2 /\ a + 1 \in 1 .. MaxLen + 2
          /\ a \in Int
      BY <1>0, <2>2 DEF Node
    <3>2. l[a + 1] = a /\ l[(a + 1) + 1] = b
      BY <1>1, <2>2, <3>1
    <3>3. a + 1 \in 1 .. Len(l) - 1
      BY <1>0, <1>1, <3>1
    <3>4. QED
      BY <3>2, <3>3 DEF Adj
  <2>3. QED
    BY <2>1, <2>2
<1>7. QED
  BY <1>1, <1>2, <1>3, <1>4, <1>5, <1>6 DEF l

(* An increasing sequence from dl to the epilogue is a list.               *)
LEMMA IncrIsList ==
  ASSUME NEW s \in Seq(Node), Incr(s), 0 \in ToSet(s), MaxLen + 1 \in ToSet(s)
  PROVE  s \in Lists
<1>0. MaxLen \in Nat
  BY DelJumpsAssumption
<1>1. Len(s) \in Nat /\ DOMAIN s = 1 .. Len(s) /\ \A i \in 1 .. Len(s) : s[i] \in Node
  OBVIOUS
<1>2. PICK i \in 1 .. Len(s) : s[i] = 0
  BY <1>1 DEF ToSet
<1>3. PICK j \in 1 .. Len(s) : s[j] = MaxLen + 1
  BY <1>1 DEF ToSet
<1>4. \A x \in Node : x \in Int /\ 0 <= x /\ x <= MaxLen + 1
  BY <1>0 DEF Node
<1>5. i = 1
  <2>1. 1 \in 1 .. Len(s)
    BY <1>1
  <2>2. ~ (s[1] < s[i])
    BY <1>1, <1>2, <1>4, <2>1
  <2>3. ~ (1 < i)
    BY <2>1, <2>2 DEF Incr
  <2>4. QED
    BY <2>3
<1>6. j = Len(s)
  <2>1. Len(s) \in 1 .. Len(s)
    BY <1>1
  <2>2. ~ (s[j] < s[Len(s)])
    BY <1>1, <1>3, <1>4, <2>1
  <2>3. ~ (j < Len(s))
    BY <2>1, <2>2 DEF Incr
  <2>4. j \in Int /\ j <= Len(s) /\ Len(s) \in Int
    BY <1>1
  <2>5. QED
    BY <2>3, <2>4
<1>7. Len(s) >= 2
  <2>1. i # j
    BY <1>0, <1>2, <1>3
  <2>2. QED
    BY <1>1, <1>5, <1>6, <2>1
<1>8. ASSUME NEW a \in 1 .. Len(s), NEW b \in 1 .. Len(s), s[a] = s[b] PROVE a = b
  <2>1. s[a] \in Int /\ s[b] \in Int
    BY <1>1, <1>4
  <2>2. ~ (s[a] < s[b]) /\ ~ (s[b] < s[a])
    BY <1>8, <2>1
  <2>3. ~ (a < b) /\ ~ (b < a)
    BY <2>2 DEF Incr
  <2>4. QED
    BY <2>3
<1>9. QED
  BY <1>2, <1>3, <1>5, <1>6, <1>7, <1>8 DEF Lists

(* The neighbours in an increasing list.                                   *)
LEMMA AdjIncr ==
  ASSUME NEW s \in Lists, Incr(s), NEW a, NEW b, Adj(s, a, b)
  PROVE  a < b /\ \A c \in ToSet(s) : c <= a \/ c >= b
<1>1. PICK i \in 1 .. Len(s) - 1 : s[i] = a /\ s[i + 1] = b
  BY DEF Adj
<1>2. i \in 1 .. Len(s) /\ i + 1 \in 1 .. Len(s) /\ Len(s) \in Nat
  BY ListFacts
<1>3. a < b
  BY <1>1, <1>2 DEF Incr
<1>4. ASSUME NEW c \in ToSet(s) PROVE c <= a \/ c >= b
  <2>1. PICK j \in 1 .. Len(s) : s[j] = c
    BY ListFacts
  <2>2. s[j] \in Int /\ s[i] \in Int /\ s[i + 1] \in Int
    BY <1>2, ListFacts DEF Node
  <2>3. j < i \/ j = i \/ j = i + 1 \/ i + 1 < j
    BY <1>2
  <2>4. CASE j < i
    BY <1>1, <1>2, <2>1, <2>2, <2>4 DEF Incr
  <2>5. CASE i + 1 < j
    <3>1. s[i + 1] < s[j]
      BY <1>2, <2>5 DEF Incr
    <3>2. QED
      BY <1>1, <2>1, <2>2, <3>1
  <2>6. QED
    BY <1>1, <2>1, <2>2, <2>3, <2>4, <2>5
<1>5. QED
  BY <1>3, <1>4

-----------------------------------------------------------------------------
(* Runs of labels.                                                         *)
LEMMA AfterFacts ==
  ASSUME Shape, list \in Lists, NEW i \in 1 .. Len(list)
  PROVE  /\ AfterLabels(i) \in i .. Len(list)
         /\ op(list[AfterLabels(i)]) # "LABEL"
         /\ \A k \in i .. AfterLabels(i) - 1 : op(list[k]) = "LABEL"
<1> DEFINE S == {j \in i .. Len(list) : op(list[j]) # "LABEL"}
<1>1. Len(list) \in Nat /\ list[Len(list)] = MaxLen + 1 /\ MaxLen + 1 \in Node
  BY ListFacts, NodesFinite
<1>2. op(MaxLen + 1) = "EROU"
  BY <1>1 DEF Shape
<1>3. Len(list) \in S /\ S \subseteq Nat
  BY <1>1, <1>2
<1>4. PICK j \in S : \A k \in S : j <= k
  BY <1>3, LeastNat
<1>5. ASSUME NEW k \in i .. j - 1 PROVE op(list[k]) = "LABEL"
  <2>1. k \in i .. Len(list) /\ ~ (j <= k)
    BY <1>1, <1>4
  <2>2. QED
    BY <1>4, <2>1
<1>6. j \in i .. Len(list) /\ op(list[j]) # "LABEL"
  BY <1>4
<1>7. QED
  BY <1>5, <1>6 DEF AfterLabels

LEMMA BeforeFacts ==
  ASSUME Shape, list \in Lists, NEW i \in 1 .. Len(list)
  PROVE  /\ BeforeLabels(i) \in 1 .. i
         /\ op(list[BeforeLabels(i)]) # "LABEL"
         /\ \A k \in BeforeLabels(i) + 1 .. i : op(list[k]) = "LABEL"
<1> DEFINE S == {j \in 1 .. i : op(list[j]) # "LABEL"}
           D == {i - j : j \in S}
<1>1. Len(list) \in Nat /\ list[1] = 0 /\ 0 \in Node
  BY ListFacts, NodesFinite
<1>2. op(0) = "HEAD"
  BY <1>1 DEF Shape
<1>3. 1 \in S /\ D \subseteq Nat /\ D # {}
  <2>1. 1 \in S
    BY <1>1, <1>2
  <2>2. \A j \in S : i - j \in Nat
    BY <1>1
  <2>3. QED
    BY <2>1, <2>2
<1>4. PICK d \in D : \A k \in D : d <= k
  BY <1>3, LeastNat
<1>5. PICK j \in S : d = i - j
  BY <1>4
<1>6. ASSUME NEW k \in j + 1 .. i PROVE op(list[k]) = "LABEL"
  <2>1. k \in 1 .. i /\ ~ (d <= i - k)
    BY <1>1, <1>5
  <2>2. k \notin S
    BY <1>4, <2>1
  <2>3. QED
    BY <2>1, <2>2
<1>7. j \in 1 .. i /\ op(list[j]) # "LABEL"
  BY <1>5
<1>8. QED
  BY <1>6, <1>7 DEF BeforeLabels

LEMMA ForwFacts ==
  ASSUME Shape, list \in Lists, NEW n \in ToSet(list), op(n) # "EROU"
  PROVE  forw(n) \in ToSet(list) /\ forw(n) # n /\ forw(n) # 0 /\ Adj(list, n, forw(n))
         /\ At(n) + 1 \in 1 .. Len(list)
<1>1. At(n) \in 1 .. Len(list) /\ list[At(n)] = n
  BY PlaceFacts DEF At
<1>2. n # MaxLen + 1
  BY NodesFinite DEF Shape
<1>3. PICK i \in 1 .. Len(list) : i = At(n)
  BY <1>1
<1>4. i # Len(list) /\ Len(list) \in Nat
  BY <1>1, <1>2, <1>3, ListFacts
<1>5. i \in 1 .. Len(list) - 1 /\ i + 1 \in 1 .. Len(list)
  BY <1>4
<1>6. Adj(list, n, forw(n))
  BY <1>1, <1>3, <1>5 DEF Adj, forw
<1>7. QED
  BY <1>3, <1>5, <1>6, AdjFacts

LEMMA BackFacts ==
  ASSUME Shape, list \in Lists, NEW n \in ToSet(list), op(n) # "HEAD"
  PROVE  back(n) \in ToSet(list) /\ back(n) # n /\ Adj(list, back(n), n)
         /\ At(n) - 1 \in 1 .. Len(list) /\ back(n) = list[At(n) - 1]
<1>1. At(n) \in 1 .. Len(list) /\ list[At(n)] = n
  BY PlaceFacts DEF At
<1>2. n # 0
  BY NodesFinite DEF Shape
<1>3. PICK i \in 1 .. Len(list) : i = At(n)
  BY <1>1
<1>4. i # 1 /\ Len(list) \in Nat
  BY <1>1, <1>2, <1>3, ListFacts
<1>5. i - 1 \in 1 .. Len(list) - 1 /\ i - 1 \in 1 .. Len(list) /\ (i - 1) + 1 = i
  BY <1>4
<1>6. Adj(list, back(n), n)
  BY <1>1, <1>3, <1>5 DEF Adj, back
<1>7. QED
  BY <1>3, <1>5, <1>6, AdjFacts DEF back

-----------------------------------------------------------------------------
(* The invariant.                                                          *)
RefInv ==
  /\ Shape
  /\ pc \in {"refcount", "iterate", "done"}
  /\ neg \in [Node -> BOOLEAN]
  /\ pc = "refcount" => /\ list = progList
                        /\ labno = [n \in Node |-> prog[n][2]]
                        /\ ref = [n \in Node |-> NIL]
                        /\ refc = [n \in Node |-> 0]
                        /\ neg = progNeg
  /\ pc # "refcount" => Exact(list, labno, ref, refc) /\ p \in ToSet(list)

LEMMA InitShape ==
  ASSUME Init
  PROVE  Shape
<1>1. PICK f \in [1 .. MaxLen -> Statement] :
        /\ Program(f)
        /\ prog = [n \in Node |-> IF n = 0 THEN <<"HEAD", 0>>
                                  ELSE IF n > MaxLen THEN <<"EROU", 0>> ELSE f[n]]
  BY DEF Init
<1>2. MaxLen \in Nat /\ NLabels \in Nat /\ InUse \subseteq Label
  BY DelJumpsAssumption
<1>3. \A n \in 1 .. MaxLen : prog[n] = f[n] /\ n \in Node
  BY <1>1, <1>2 DEF Node
<1>4. prog[0] = <<"HEAD", 0>> /\ prog[MaxLen + 1] = <<"EROU", 0>>
  BY <1>1, <1>2 DEF Node
<1>5. \A n \in Node : n = 0 \/ n = MaxLen + 1 \/ n \in 1 .. MaxLen
  BY <1>2 DEF Node
<1>6. \A x \in Statement : /\ x[1] \in {"LABEL", "JBR", "CBR", "STMT", "GOTO*"}
                           /\ x[2] \in Int
                           /\ x = <<x[1], x[2]>>
                           /\ x[1] \in {"LABEL", "JBR", "CBR"} => x[2] \in Label
  BY DEF Statement, JBR, CBR, Plain, Label
<1>7. \A n \in 1 .. MaxLen : f[n] \in Statement
  OBVIOUS
<1>8. \A n \in Node : op(n) \in {"HEAD", "EROU", "LABEL", "JBR", "CBR", "STMT", "GOTO*"}
  BY <1>3, <1>4, <1>5, <1>6, <1>7 DEF op
<1>9. \A n \in Node : prog[n][2] \in Int
  BY <1>3, <1>4, <1>5, <1>6, <1>7
<1>10. \A n \in Node : (op(n) = "HEAD" <=> n = 0) /\ (op(n) = "EROU" <=> n = MaxLen + 1)
  <2>1. 0 # MaxLen + 1 /\ \A n \in 1 .. MaxLen : n # 0 /\ n # MaxLen + 1
    BY <1>2
  <2>2. QED
    BY <1>3, <1>4, <1>5, <1>6, <1>7, <2>1 DEF op
<1>11. \A n \in Node : op(n) \in {"LABEL", "JBR", "CBR", "GOTO*"} => n \in 1 .. MaxLen
  BY <1>4, <1>5 DEF op
<1>12. \A n \in Node : op(n) \in {"LABEL", "JBR", "CBR"} => prog[n][2] \in Label /\ f[n] = <<op(n), prog[n][2]>>
  BY <1>3, <1>6, <1>7, <1>11 DEF op
<1>13. ASSUME NEW m \in Node, NEW n \in Node, IsLabel(m), IsLabel(n), prog[m][2] = prog[n][2]
       PROVE  m = n
  <2> DEFINE D == Defs(f, prog[m][2])
  <2>1. m \in D /\ n \in D
    BY <1>11, <1>12, <1>13 DEF Defs, IsLabel
  <2>2. IsFiniteSet(D)
    <3>1. IsFiniteSet(1 .. MaxLen)
      BY <1>2, FS_Interval
    <3>2. D \subseteq 1 .. MaxLen
      BY DEF Defs
    <3>3. QED
      BY <3>1, <3>2, FS_Subset
  <2>3. Cardinality(D) <= 1
    BY <1>1, <1>12, <1>13 DEF Program, IsLabel
  <2> HIDE DEF D
  <2>4. IsFiniteSet(D \ {m}) /\ Cardinality(D \ {m}) = Cardinality(D) - 1
        /\ Cardinality(D \ {m}) \in Nat /\ Cardinality(D) \in Nat
    BY <2>1, <2>2, FS_RemoveElement, FS_CardinalityType
  <2>5. Cardinality(D \ {m}) = 0
    BY <2>3, <2>4
  <2>6. D \ {m} = {}
    BY <2>4, <2>5, FS_EmptySet
  <2>7. QED
    BY <2>1, <2>6
<1>14. ASSUME NEW x \in Label, Defs(f, x) # {}
       PROVE  \E m \in Node : IsLabel(m) /\ prog[m][2] = x
  <2>1. PICK m \in 1 .. MaxLen : f[m] = <<"LABEL", x>>
    BY <1>14 DEF Defs
  <2>2. m \in Node /\ prog[m] = <<"LABEL", x>>
    BY <1>3, <2>1
  <2>3. QED
    BY <2>2 DEF IsLabel, op
<1>15. ASSUME NEW n \in Node, IsJump(n)
       PROVE  \E m \in Node : IsLabel(m) /\ prog[m][2] = prog[n][2]
  <2>1. n \in 1 .. MaxLen /\ prog[n][2] \in Label /\ f[n] = <<op(n), prog[n][2]>>
    BY <1>11, <1>12, <1>15 DEF IsJump
  <2>2. f[n][1] \in {"JBR", "CBR"} /\ f[n][2] = prog[n][2]
    BY <1>15, <2>1 DEF IsJump
  <2>3. Defs(f, prog[n][2]) # {}
    BY <1>1, <2>1, <2>2 DEF Program
  <2>4. QED
    BY <1>14, <2>1, <2>3
<1>16. ASSUME NEW n \in Node, op(n) = "GOTO*", NEW x \in InUse
       PROVE  \E m \in Node : IsLabel(m) /\ prog[m][2] = x
  <2>1. n \in 1 .. MaxLen
    BY <1>11, <1>16
  <2>2. f[n][1] = "GOTO*"
    BY <1>3, <1>16, <2>1 DEF op
  <2>3. Defs(f, x) # {}
    BY <1>1, <2>1, <2>2 DEF Program
  <2>4. QED
    BY <1>2, <1>14, <2>3
<1>17. QED
  BY <1>8, <1>9, <1>10, <1>13, <1>15, <1>16 DEF Shape

LEMMA InitRef == Init => RefInv
<1> SUFFICES ASSUME Init PROVE RefInv
  OBVIOUS
<1>1. Shape
  BY InitShape
<1>2. list = progList /\ neg = progNeg
  BY DEF Init, progList, progNeg
<1>3. QED
  BY <1>1, <1>2 DEF Init, RefInv, progNeg

(* The last label of the run a jump goes to.                               *)
LEMMA LastLabelFacts ==
  ASSUME Shape, list = progList, labno = [n \in Node |-> prog[n][2]],
         NEW n \in Node, IsJump(n)
  PROVE  \E m \in Node : /\ IsLabel(m) /\ prog[m][2] = prog[n][2]
                         /\ LastLabel(n) \in Node /\ m <= LastLabel(n)
                         /\ \A k \in m .. LastLabel(n) : IsLabel(k)
<1>0. list \in Lists /\ Len(list) = MaxLen + 2 /\ MaxLen \in Nat /\ ToSet(list) = Node
  BY ProgFacts, NodesFinite
<1> DEFINE P(x) == x \in Nodes("LABEL") /\ labno[x] = labno[n]
           m == CHOOSE x \in Nodes("LABEL") : labno[x] = labno[n]
<1>1. \E x \in Nodes("LABEL") : labno[x] = labno[n]
  <2>1. PICK x \in Node : IsLabel(x) /\ prog[x][2] = prog[n][2]
    BY DEF Shape
  <2>2. QED
    BY <1>0, <2>1 DEF Nodes, IsLabel
<1>2. m \in Nodes("LABEL") /\ labno[m] = labno[n]
  BY <1>1
<1>3. LastLabel(n) = list[AfterLabels(At(m)) - 1]
  BY DEF LastLabel
<1> HIDE DEF m
<1>4. m \in Node /\ IsLabel(m) /\ prog[m][2] = prog[n][2]
  BY <1>0, <1>2 DEF Nodes, IsLabel
<1>5. At(m) = m + 1 /\ m + 1 \in 1 .. Len(list)
  BY <1>0, <1>4, ProgFacts DEF At
<1>6. PICK i \in 1 .. Len(list) : i = m + 1
  BY <1>5
<1>7. PICK j \in i .. Len(list) : j = AfterLabels(i)
  BY <1>0, AfterFacts
<1>8. op(list[j]) # "LABEL" /\ \A k \in i .. j - 1 : op(list[k]) = "LABEL"
  BY <1>0, <1>7, AfterFacts
<1>9. \A k \in 1 .. MaxLen + 2 : list[k] = k - 1
  BY DEF progList
<1>10. j # i
  <2>1. list[i] = m
    BY <1>0, <1>4, <1>6, ProgFacts
  <2>2. QED
    BY <1>4, <1>8, <2>1 DEF IsLabel
<1>11. /\ j - 1 \in 1 .. MaxLen + 2 /\ (j - 1) - 1 = j - 2 /\ m <= j - 2 /\ j - 2 \in Node
       /\ m \in Int
  BY <1>0, <1>4, <1>6, <1>7, <1>10 DEF Node
<1>12. LastLabel(n) = j - 2
  BY <1>3, <1>5, <1>6, <1>7, <1>9, <1>11
<1>13. ASSUME NEW k \in m .. j - 2 PROVE IsLabel(k)
  <2>1. k + 1 \in i .. j - 1 /\ k + 1 \in 1 .. MaxLen + 2 /\ (k + 1) - 1 = k
    BY <1>0, <1>6, <1>7, <1>11
  <2>2. QED
    BY <1>8, <1>9, <2>1 DEF IsLabel
<1>14. QED
  BY <1>4, <1>11, <1>12, <1>13

LEMMA RefcountExact ==
  ASSUME RefInv, refcount
  PROVE  Exact(list', labno', ref', refc') /\ p' \in ToSet(list')
         /\ ToSet(list') = {m \in Node : Kept(refc', m)} /\ Incr(list')
<1>1. /\ Shape /\ list = progList /\ labno = [n \in Node |-> prog[n][2]]
  BY DEF RefInv, refcount
<1>2. list \in Lists /\ Incr(list) /\ ToSet(list) = Node /\ list \in Seq(Node)
  BY <1>1, ProgFacts, ListFacts
<1>3. PICK rf : rf = ref'
  OBVIOUS
<1>4. PICK lab : lab = labno'
  OBVIOUS
<1>5. PICK rc : rc = refc'
  OBVIOUS
<1>6. PICK s : s = list'
  OBVIOUS
<1>7. \A n \in Node : n \in Jumps <=> IsJump(n)
  BY <1>2 DEF Jumps, IsJump
<1>8. \A n \in Node : IsJump(n) => LastLabel(n) \in Node /\ IsLabel(LastLabel(n))
  <2> TAKE n \in Node
  <2> SUFFICES ASSUME IsJump(n) PROVE LastLabel(n) \in Node /\ IsLabel(LastLabel(n))
    OBVIOUS
  <2>1. PICK m \in Node : LastLabel(n) \in Node /\ m <= LastLabel(n)
                          /\ \A k \in m .. LastLabel(n) : IsLabel(k)
    BY <1>1, LastLabelFacts
  <2>2. LastLabel(n) \in m .. LastLabel(n)
    BY <2>1 DEF Node
  <2>3. QED
    BY <2>1, <2>2
<1>9. /\ rf \in [Node -> Node \cup {NIL}]
      /\ \A n \in Node : IsJump(n) => rf[n] = LastLabel(n)
  BY <1>3, <1>7, <1>8 DEF refcount
<1>10. /\ lab \in [Node -> Int]
       /\ \A n \in Node : IsJump(n) => lab[n] = prog[rf[n]][2]
       /\ \A n \in Node : ~ IsJump(n) => lab[n] = prog[n][2]
  <2>1. lab = [n \in Node |-> IF n \in Jumps THEN labno[rf[n]] ELSE labno[n]]
    BY <1>3, <1>4 DEF refcount
  <2>2. \A n \in Node : IsJump(n) => rf[n] \in Node
    BY <1>8, <1>9
  <2>3. \A n \in Node : labno[n] = prog[n][2] /\ prog[n][2] \in Int
    BY <1>1 DEF Shape
  <2>4. QED
    BY <1>7, <2>1, <2>2, <2>3
<1>11. \A m \in Node : rc[m] = Cardinality(RefsTo(list, rf, m)) + Bonus(m)
  <2>1. refc' = [m \in Node |->
           Cardinality({n \in Jumps : rf[n] = m}) + (IF labno[m] \in InUse THEN 1000 ELSE 0)]
    BY <1>3 DEF refcount
  <2>2. \A m \in Node : {n \in Jumps : rf[n] = m} = RefsTo(list, rf, m)
    BY DEF RefsTo, Jumps, IsJump
  <2>3. \A m \in Node : (IF labno[m] \in InUse THEN 1000 ELSE 0) = Bonus(m)
    BY <1>1 DEF Bonus
  <2>4. QED
    BY <1>5, <2>1, <2>2, <2>3
<1>12. s \in Seq(Node) /\ Incr(s) /\ ToSet(s) = {m \in Node : Kept(rc, m)}
  <2>1. s = Referred(list, rc)
    BY <1>5, <1>6 DEF refcount
  <2>2. QED
    BY <1>2, <2>1, ReferredIs
<1>13. s \in Lists
  <2>1. 0 \in Node /\ MaxLen + 1 \in Node /\ op(0) = "HEAD" /\ op(MaxLen + 1) = "EROU"
    BY <1>1, NodesFinite DEF Shape
  <2>2. QED
    BY <1>12, <2>1, IncrIsList DEF Kept
<1>14. \A n \in Node : IsJump(n) => n \in ToSet(s)
  BY <1>12 DEF Kept, IsJump
<1>15. \A m : RefsTo(s, rf, m) = RefsTo(list, rf, m)
  BY <1>2, <1>12, <1>14 DEF RefsTo
<1>16. \A m \in Node : Cardinality(RefsTo(list, rf, m)) \in Nat /\ (Bonus(m) = 0 \/ Bonus(m) = 1000)
  BY <1>2, RefsFinite DEF Bonus
<1>17. rc \in [Node -> Int]
  <2>1. \A m \in Node : rc[m] \in Int
    BY <1>11, <1>16
  <2>2. DOMAIN rc = Node /\ rc = [m \in Node |-> rc[m]]
    BY <1>5 DEF refcount
  <2>3. QED
    BY <2>1, <2>2
<1>18. ASSUME NEW m \in Node, IsLabel(m)
       PROVE  lab[m] = prog[m][2] /\ (prog[m][2] \in InUse => m \in ToSet(s))
  <2>1. ~ IsJump(m)
    BY <1>18 DEF IsJump, IsLabel
  <2>2. ASSUME prog[m][2] \in InUse PROVE rc[m] # 0
    <3>1. Bonus(m) = 1000
      BY <2>2 DEF Bonus
    <3>2. QED
      BY <1>11, <1>16, <3>1
  <2>3. QED
    BY <1>10, <1>12, <2>1, <2>2 DEF Kept
<1>19. ASSUME NEW n \in ToSet(s), IsJump(n)
       PROVE  rf[n] \in ToSet(s) /\ IsLabel(rf[n]) /\ lab[n] = lab[rf[n]]
  <2>1. n \in Node /\ rf[n] \in Node /\ IsLabel(rf[n])
    BY <1>8, <1>9, <1>12, <1>19
  <2>2. n \in RefsTo(list, rf, rf[n])
    BY <1>2, <1>19, <2>1 DEF RefsTo
  <2>3. Cardinality(RefsTo(list, rf, rf[n])) # 0
    <3>1. IsFiniteSet(RefsTo(list, rf, rf[n]))
      BY <1>2, RefsFinite
    <3>2. QED
      BY <2>2, <3>1, FS_EmptySet
  <2>4. rc[rf[n]] # 0
    BY <1>11, <1>16, <2>1, <2>3
  <2>5. lab[rf[n]] = prog[rf[n]][2]
    BY <1>10, <2>1 DEF IsJump, IsLabel
  <2>6. QED
    BY <1>10, <1>12, <1>19, <2>1, <2>4, <2>5 DEF Kept
<1>20. ASSUME NEW m \in ToSet(s), IsLabel(m)
       PROVE  rc[m] > 0 /\ rc[m] = Cardinality(RefsTo(s, rf, m)) + Bonus(m)
  <2>1. m \in Node /\ rc[m] # 0
    BY <1>12, <1>20 DEF Kept, IsLabel
  <2>2. rc[m] > 0
    BY <1>11, <1>16, <2>1
  <2>3. QED
    BY <1>11, <1>15, <2>1, <2>2
<1>21. Exact(s, lab, rf, rc)
  BY <1>9, <1>10, <1>13, <1>17, <1>18, <1>19, <1>20 DEF Exact
<1>22. p' \in ToSet(s)
  <2>1. p' = s[2]
    BY <1>6 DEF refcount
  <2>2. 2 \in 1 .. Len(s)
    BY <1>13, ListFacts
  <2>3. QED
    BY <1>13, <2>1, <2>2, ListFacts
<1>23. QED
  BY <1>3, <1>4, <1>5, <1>6, <1>12, <1>21, <1>22

-----------------------------------------------------------------------------
(* The steps of iterate.                                                   *)
LEMMA KeepRef ==
  ASSUME RefInv, pc # "refcount", prog' = prog, pc' \in {"iterate", "done"},
         neg' \in [Node -> BOOLEAN], Exact(list', labno', ref', refc'), p' \in ToSet(list')
  PROVE  RefInv'
<1>1. Shape'
  BY DEF RefInv, Shape, IsLabel, IsJump, op
<1>2. \A n : (IsLabel(n) <=> IsLabel(n)') /\ (IsJump(n) <=> IsJump(n)') /\ Bonus(n) = Bonus(n)'
  BY DEF IsLabel, IsJump, Bonus, op
<1>3. \A l, rf, m : RefsTo(l, rf, m) = {n \in ToSet(l) : IsJump(n) /\ rf[n] = m}
  BY DEF RefsTo
<1>4. Exact(list, labno, ref, refc)'
  BY <1>2, <1>3 DEF Exact, RefsTo
<1>5. QED
  BY <1>1, <1>4 DEF RefInv

LEMMA DecrefFacts ==
  ASSUME NEW l \in Lists, NEW r \in ToSet(l), Shape, IsLabel(r)
  PROVE  /\ decref(l, r) \in Lists
         /\ ToSet(decref(l, r)) = ToSet(l) \ (IF refc[r] <= 1 THEN {r} ELSE {})
<1>1. r # 0 /\ r # MaxLen + 1
  BY NodesFinite DEF Shape, IsLabel
<1>2. CASE refc[r] <= 1
  BY <1>1, <1>2, LessFacts DEF decref
<1>3. CASE ~ (refc[r] <= 1)
  BY <1>3 DEF decref
<1>4. QED
  BY <1>2, <1>3

LEMMA IterateFacts ==
  ASSUME RefInv, pc # "refcount"
  PROVE  /\ Shape /\ Exact(list, labno, ref, refc) /\ p \in ToSet(list) /\ list \in Lists
         /\ ToSet(list) \subseteq Node
         /\ \A n \in ToSet(list) : IsJump(n) =>
              /\ ref[n] \in ToSet(list) /\ IsLabel(ref[n]) /\ labno[n] = labno[ref[n]]
              /\ ref[n] # n /\ n # 0 /\ n # MaxLen + 1
              /\ At(ref[n]) \in 1 .. Len(list) /\ list[At(ref[n])] = ref[n]
         /\ At(p) \in 1 .. Len(list) /\ list[At(p)] = p
<1>1. Shape /\ Exact(list, labno, ref, refc) /\ p \in ToSet(list) /\ list \in Lists
  BY DEF RefInv, Exact
<1>2. ToSet(list) \subseteq Node
  BY <1>1, ListFacts
<1>3. ASSUME NEW n \in ToSet(list), IsJump(n)
      PROVE  /\ ref[n] \in ToSet(list) /\ IsLabel(ref[n]) /\ labno[n] = labno[ref[n]]
             /\ ref[n] # n /\ n # 0 /\ n # MaxLen + 1
             /\ At(ref[n]) \in 1 .. Len(list) /\ list[At(ref[n])] = ref[n]
  <2>1. ref[n] \in ToSet(list) /\ IsLabel(ref[n]) /\ labno[n] = labno[ref[n]]
    BY <1>1, <1>3 DEF Exact
  <2>2. ref[n] # n
    BY <1>3, <2>1 DEF IsJump, IsLabel
  <2>3. n # 0 /\ n # MaxLen + 1
    BY <1>1, <1>3, NodesFinite DEF Shape, IsJump
  <2>4. QED
    BY <1>1, <2>1, <2>2, <2>3, PlaceFacts DEF At
<1>4. At(p) \in 1 .. Len(list) /\ list[At(p)] = p
  BY <1>1, PlaceFacts DEF At
<1>5. QED
  BY <1>1, <1>2, <1>3, <1>4

LEMMA JumpsAre ==
  \A n : n \in Jumps <=> n \in ToSet(list) /\ IsJump(n)
BY DEF Jumps, IsJump

(* The jump behind the labels p goes to.                                   *)
LEMMA ThreadFacts ==
  ASSUME RefInv, pc = "iterate", CanThread
  PROVE  LET q == nonlab(ref[p])
         IN  /\ q \in ToSet(list) /\ op(q) = "JBR" /\ q # p /\ IsJump(q) /\ IsJump(p)
             /\ ref[q] # ref[p]
             /\ AfterLabels(At(ref[p])) \in At(ref[p]) .. Len(list)
             /\ q = list[AfterLabels(At(ref[p]))]
             /\ \A k \in At(ref[p]) .. AfterLabels(At(ref[p])) - 1 : op(list[k]) = "LABEL"
<1> DEFINE q == nonlab(ref[p])
<1>0. pc # "refcount"
  OBVIOUS
<1>1. IsJump(p) /\ op(q) = "JBR" /\ labno[p] # labno[q]
  BY JumpsAre DEF CanThread
<1>2. At(ref[p]) \in 1 .. Len(list) /\ Shape /\ list \in Lists /\ labno[p] = labno[ref[p]]
  BY <1>0, <1>1, IterateFacts
<1>3. PICK i \in 1 .. Len(list) : i = At(ref[p])
  BY <1>2
<1>4. /\ AfterLabels(i) \in i .. Len(list)
      /\ \A k \in i .. AfterLabels(i) - 1 : op(list[k]) = "LABEL"
  BY <1>2, AfterFacts
<1>5. q = list[AfterLabels(i)]
  BY <1>3 DEF nonlab
<1>6. AfterLabels(i) \in 1 .. Len(list)
  BY <1>4
<1>7. q \in ToSet(list)
  BY <1>2, <1>5, <1>6, ListFacts
<1> HIDE DEF q
<1>8. IsJump(q) /\ q # p
  BY <1>1 DEF IsJump
<1>9. labno[q] = labno[ref[q]]
  BY <1>0, <1>7, <1>8, IterateFacts
<1>10. ref[q] # ref[p]
  BY <1>1, <1>2, <1>9
<1>11. QED
  BY <1>1, <1>3, <1>4, <1>5, <1>7, <1>8, <1>10 DEF q

LEMMA ThreadRef ==
  ASSUME RefInv, Thread
  PROVE  RefInv'
<1>0. pc = "iterate" /\ pc # "refcount" /\ CanThread
  BY DEF Thread, CanThread, Body
<1> DEFINE q == nonlab(ref[p])
<1>1. q \in ToSet(list) /\ IsJump(q) /\ IsJump(p) /\ ref[q] # ref[p]
  BY <1>0, ThreadFacts
<1>2. /\ Shape /\ Exact(list, labno, ref, refc) /\ p \in ToSet(list) /\ list \in Lists
      /\ ref[p] \in ToSet(list) /\ IsLabel(ref[p]) /\ ref[p] # p
      /\ ref[q] \in ToSet(list) /\ IsLabel(ref[q]) /\ labno[q] = labno[ref[q]]
  BY <1>0, <1>1, IterateFacts
<1>3. /\ list' = decref(list, ref[p])
      /\ refc' = [Fewer(ref[p]) EXCEPT ![ref[q]] = @ + 1]
      /\ labno' = [labno EXCEPT ![p] = labno[q]]
      /\ ref' = [ref EXCEPT ![p] = ref[q]]
      /\ UNCHANGED <<prog, neg, p, pc>>
  BY DEF Thread
<1> HIDE DEF q
<1>4. /\ decref(list, ref[p]) \in Lists
      /\ ToSet(decref(list, ref[p])) = ToSet(list) \ (IF refc[ref[p]] <= 1 THEN {ref[p]} ELSE {})
  BY <1>2, DecrefFacts
<1>5. Exact(decref(list, ref[p]), [labno EXCEPT ![p] = labno[ref[q]]], [ref EXCEPT ![p] = ref[q]],
            [[refc EXCEPT ![ref[p]] = @ - 1] EXCEPT ![ref[q]] = @ + 1])
  BY <1>1, <1>2, <1>4, Redirect
<1>6. Exact(list', labno', ref', refc')
  BY <1>2, <1>3, <1>5 DEF Fewer
<1>7. p \in ToSet(list')
  BY <1>2, <1>3, <1>4
<1>8. QED
  BY <1>0, <1>3, <1>6, <1>7, KeepRef DEF RefInv

LEMMA InvertFacts ==
  ASSUME RefInv, pc = "iterate", CanInvert
  PROVE  LET j == forw(p)
         IN  /\ j \in ToSet(list) /\ IsJump(j) /\ IsJump(p) /\ j # p /\ Adj(list, p, j)
             /\ op(j) = "JBR" /\ op(p) = "CBR"
             /\ j # 0 /\ j # MaxLen + 1
<1>1. op(p) = "CBR" /\ op(forw(p)) = "JBR"
  BY DEF CanInvert
<1>2. Shape /\ list \in Lists /\ p \in ToSet(list)
  BY IterateFacts
<1>3. forw(p) \in ToSet(list) /\ forw(p) # p /\ Adj(list, p, forw(p))
  BY <1>1, <1>2, ForwFacts
<1>4. IsJump(forw(p)) /\ IsJump(p)
  BY <1>1 DEF IsJump
<1>5. QED
  BY <1>1, <1>3, <1>4, IterateFacts

LEMMA InvertRef ==
  ASSUME RefInv, Invert
  PROVE  RefInv'
<1>0. pc = "iterate" /\ pc # "refcount" /\ CanInvert
  BY DEF Invert, CanInvert, Body
<1> DEFINE j == forw(p)
<1>1. j \in ToSet(list) /\ IsJump(j) /\ IsJump(p) /\ j # p /\ j # 0 /\ j # MaxLen + 1
  BY <1>0, InvertFacts
<1>2. /\ Shape /\ Exact(list, labno, ref, refc) /\ p \in ToSet(list) /\ list \in Lists
      /\ ref[p] \in ToSet(list) /\ IsLabel(ref[p]) /\ ref[p] # p /\ p \in Node
  BY <1>0, <1>1, IterateFacts
<1>3. /\ list' = Less(decref(list, ref[p]), j)
      /\ refc' = Fewer(ref[p])
      /\ labno' = [labno EXCEPT ![p] = labno[j]]
      /\ ref' = [ref EXCEPT ![p] = ref[j]]
      /\ neg' = [neg EXCEPT ![p] = ~ @]
      /\ UNCHANGED <<prog, p, pc>>
  BY DEF Invert
<1> HIDE DEF j
<1>4. /\ decref(list, ref[p]) \in Lists
      /\ ToSet(decref(list, ref[p])) = ToSet(list) \ (IF refc[ref[p]] <= 1 THEN {ref[p]} ELSE {})
  BY <1>2, DecrefFacts
<1>5. ref[p] # j
  BY <1>1, <1>2 DEF IsJump, IsLabel
<1>6. list' \in Lists /\ ToSet(list') = ToSet(decref(list, ref[p])) \ {j}
  <2>1. j \in ToSet(decref(list, ref[p]))
    BY <1>1, <1>4, <1>5
  <2>2. QED
    BY <1>1, <1>3, <1>4, <2>1, LessFacts
<1>7. ToSet(list') = (ToSet(list) \ {j}) \ (IF refc[ref[p]] <= 1 THEN {ref[p]} ELSE {})
  BY <1>4, <1>6
<1>8. PICK s \in Lists : s = list'
  BY <1>6
<1>9. Exact(s, [labno EXCEPT ![p] = labno[j]], [ref EXCEPT ![p] = ref[j]],
            [refc EXCEPT ![ref[p]] = @ - 1])
  BY <1>1, <1>2, <1>7, <1>8, TakeOver
<1>10. Exact(list', labno', ref', refc')
  BY <1>3, <1>8, <1>9 DEF Fewer
<1>11. p \in ToSet(list')
  BY <1>1, <1>2, <1>7
<1>12. neg' \in [Node -> BOOLEAN]
  <2>1. neg \in [Node -> BOOLEAN]
    BY DEF RefInv
  <2>2. QED
    BY <1>2, <1>3, <2>1
<1>13. QED
  BY <1>0, <1>3, <1>10, <1>11, <1>12, KeepRef DEF RefInv

LEMMA DropNextRef ==
  ASSUME RefInv, DropNext
  PROVE  RefInv'
<1>0. pc = "iterate" /\ pc # "refcount" /\ op(p) = "JBR" /\ op(forw(p)) \notin {"LABEL", "EROU"}
  BY DEF DropNext, CanDrop, Body
<1> DEFINE d == forw(p)
<1>1. Shape /\ Exact(list, labno, ref, refc) /\ p \in ToSet(list) /\ list \in Lists
      /\ ToSet(list) \subseteq Node
  BY <1>0, IterateFacts
<1>2. d \in ToSet(list) /\ d # p /\ d # 0
  BY <1>0, <1>1, ForwFacts
<1>3. d # MaxLen + 1 /\ ~ IsLabel(d)
  BY <1>0, <1>1, NodesFinite DEF Shape, IsLabel
<1>4. /\ list' = Less(IF d \in Jumps THEN decref(list, ref[d]) ELSE list, d)
      /\ refc' = IF d \in Jumps THEN Fewer(ref[d]) ELSE refc
      /\ UNCHANGED <<prog, labno, ref, neg, p, pc>>
  BY DEF DropNext
<1> HIDE DEF d
<1>5. CASE IsJump(d)
  <2>1. d \in Jumps
    BY <1>2, <1>5, JumpsAre
  <2>2. ref[d] \in ToSet(list) /\ IsLabel(ref[d]) /\ ref[d] # d
    BY <1>0, <1>2, <1>5, IterateFacts
  <2>3. /\ decref(list, ref[d]) \in Lists
        /\ ToSet(decref(list, ref[d])) = ToSet(list) \ (IF refc[ref[d]] <= 1 THEN {ref[d]} ELSE {})
    BY <1>1, <2>2, DecrefFacts
  <2>4. list' \in Lists /\ ToSet(list') = ToSet(decref(list, ref[d])) \ {d}
    <3>1. d \in ToSet(decref(list, ref[d]))
      BY <1>2, <2>2, <2>3
    <3>2. QED
      BY <1>2, <1>3, <1>4, <2>1, <2>3, <3>1, LessFacts
  <2>5. ToSet(list') = (ToSet(list) \ {d}) \ (IF refc[ref[d]] <= 1 THEN {ref[d]} ELSE {})
    BY <2>3, <2>4
  <2>6. PICK s \in Lists : s = list'
    BY <2>4
  <2>7. Exact(s, labno, ref, [refc EXCEPT ![ref[d]] = @ - 1])
    BY <1>1, <1>2, <1>5, <2>5, <2>6, DropRef
  <2>8. Exact(list', labno', ref', refc')
    BY <1>4, <2>1, <2>6, <2>7 DEF Fewer
  <2>9. p # ref[d]
    BY <1>0, <2>2 DEF IsLabel
  <2>10. p \in ToSet(list')
    BY <1>1, <1>2, <2>5, <2>9
  <2>11. QED
    BY <1>0, <1>4, <2>8, <2>10, KeepRef DEF RefInv
<1>6. CASE ~ IsJump(d)
  <2>1. d \notin Jumps
    BY <1>6, JumpsAre
  <2>2. list' \in Lists /\ ToSet(list') = ToSet(list) \ {d}
    BY <1>1, <1>2, <1>3, <1>4, <2>1, LessFacts
  <2>3. PICK s \in Lists : s = list'
    BY <2>2
  <2>4. Exact(s, labno, ref, refc)
    BY <1>1, <1>3, <1>6, <2>2, <2>3, DropOther
  <2>5. Exact(list', labno', ref', refc')
    BY <1>4, <2>1, <2>3, <2>4
  <2>6. p \in ToSet(list')
    BY <1>1, <1>2, <2>2
  <2>7. QED
    BY <1>0, <1>4, <2>5, <2>6, KeepRef DEF RefInv
<1>7. QED
  BY <1>5, <1>6

(* What a jump skips.                                                      *)
LEMMA SkipFacts ==
  ASSUME RefInv, pc = "iterate", CanSkip
  PROVE  /\ op(p) = "JBR" /\ IsJump(p) /\ At(p) + 1 \in 1 .. Len(list)
         /\ At(ref[p]) \in At(p) + 1 .. Len(list)
         /\ \A k \in At(p) + 1 .. At(ref[p]) : op(list[k]) = "LABEL"
<1>0. pc # "refcount"
  OBVIOUS
<1>1. op(p) = "JBR" /\ IsJump(p) /\ ToNext(p)
  BY DEF CanSkip, IsJump
<1>2. Shape /\ list \in Lists /\ p \in ToSet(list) /\ At(p) \in 1 .. Len(list)
  BY <1>0, IterateFacts
<1>3. At(p) + 1 \in 1 .. Len(list)
  BY <1>1, <1>2, ForwFacts
<1>4. PICK i \in 1 .. Len(list) : i = At(p) + 1
  BY <1>3
<1>5. /\ AfterLabels(i) \in i .. Len(list)
      /\ \A k \in i .. AfterLabels(i) - 1 : op(list[k]) = "LABEL"
  BY <1>2, AfterFacts
<1>6. PICK j \in i .. AfterLabels(i) - 1 : list[j] = ref[p]
  BY <1>1, <1>4 DEF ToNext
<1>7. j \in 1 .. Len(list) /\ j \in i .. Len(list)
  BY <1>5
<1>8. At(ref[p]) = j
  BY <1>2, <1>6, <1>7, PlaceIs DEF At
<1>9. \A k \in i .. j : op(list[k]) = "LABEL"
  BY <1>5
<1>10. QED
  BY <1>1, <1>3, <1>4, <1>7, <1>8, <1>9

LEMMA DropJumpRef ==
  ASSUME RefInv, DropJump
  PROVE  RefInv'
<1>0. pc = "iterate" /\ pc # "refcount" /\ CanSkip
  BY DEF DropJump, CanSkip, Body
<1>1. /\ op(p) = "JBR" /\ IsJump(p) /\ At(ref[p]) \in At(p) + 1 .. Len(list)
  BY <1>0, SkipFacts
<1>2. /\ Shape /\ Exact(list, labno, ref, refc) /\ p \in ToSet(list) /\ list \in Lists
      /\ ref[p] \in ToSet(list) /\ IsLabel(ref[p]) /\ ref[p] # p /\ p # 0 /\ p # MaxLen + 1
      /\ At(p) \in 1 .. Len(list) /\ list[At(ref[p])] = ref[p]
  BY <1>0, <1>1, IterateFacts
<1>3. /\ list' = Less(decref(list, ref[p]), p)
      /\ refc' = Fewer(ref[p])
      /\ p' = back(p)
      /\ UNCHANGED <<prog, labno, ref, neg, pc>>
  BY DEF DropJump
<1>4. /\ decref(list, ref[p]) \in Lists
      /\ ToSet(decref(list, ref[p])) = ToSet(list) \ (IF refc[ref[p]] <= 1 THEN {ref[p]} ELSE {})
  BY <1>2, DecrefFacts
<1>5. list' \in Lists /\ ToSet(list') = ToSet(decref(list, ref[p])) \ {p}
  <2>1. p \in ToSet(decref(list, ref[p]))
    BY <1>2, <1>4
  <2>2. QED
    BY <1>2, <1>3, <1>4, <2>1, LessFacts
<1>6. ToSet(list') = (ToSet(list) \ {p}) \ (IF refc[ref[p]] <= 1 THEN {ref[p]} ELSE {})
  BY <1>4, <1>5
<1>7. PICK s \in Lists : s = list'
  BY <1>5
<1>8. Exact(s, labno, ref, [refc EXCEPT ![ref[p]] = @ - 1])
  BY <1>1, <1>2, <1>6, <1>7, DropRef
<1>9. Exact(list', labno', ref', refc')
  BY <1>3, <1>7, <1>8 DEF Fewer
<1>10. p' \in ToSet(list')
  <2>1. back(p) \in ToSet(list) /\ back(p) # p /\ At(p) - 1 \in 1 .. Len(list)
        /\ back(p) = list[At(p) - 1]
    BY <1>1, <1>2, BackFacts
  <2>2. PICK i \in 1 .. Len(list) : i = At(p) - 1
    BY <2>1
  <2>3. PICK j \in 1 .. Len(list) : j = At(ref[p])
    BY <1>1, <1>2
  <2>4. i # j
    BY <1>1, <1>2, <2>2, <2>3
  <2>5. list[i] # list[j]
    BY <1>2, <2>4, ListFacts
  <2>6. back(p) # ref[p]
    BY <1>2, <2>1, <2>2, <2>3, <2>5
  <2>7. QED
    BY <1>3, <1>6, <2>1, <2>6
<1>11. QED
  BY <1>0, <1>3, <1>9, <1>10, KeepRef DEF RefInv

(* The piece codemove moves.                                               *)
LEMMA PieceFacts ==
  ASSUME RefInv, pc = "iterate", CanMove
  PROVE  LET i == At(p)  a == firstOf(p)  b == lastOf(p)  m == At(ref[p])
         IN  /\ i \in Int /\ a \in Int /\ b \in Int /\ m \in Int
             /\ 2 <= i /\ i < Len(list) /\ 2 <= a /\ a <= m /\ m < b /\ b < Len(list)
             /\ i < a - 1 \/ i > b + 1
             /\ op(p) = "JBR" /\ IsJump(p) /\ list[i] = p /\ list[m] = ref[p]
             /\ op(list[b]) = "JBR" /\ op(list[a - 1]) = "JBR"
             /\ \A k \in a .. m : op(list[k]) = "LABEL"
<1> DEFINE i == At(p)
           a == firstOf(p)
           b == lastOf(p)
           m == At(ref[p])
<1>0. pc # "refcount"
  OBVIOUS
<1>1. /\ op(p) = "JBR" /\ IsJump(p) /\ op(list[a - 1]) = "JBR" /\ list[a - 1] # p
      /\ Ends(p) # {} /\ i \notin b - 1 .. b + 1
  BY DEF CanMove, IsJump
<1>2. /\ Shape /\ list \in Lists /\ i \in 1 .. Len(list) /\ list[i] = p
      /\ m \in 1 .. Len(list) /\ list[m] = ref[p] /\ IsLabel(ref[p])
      /\ p # 0 /\ p # MaxLen + 1
  BY <1>0, <1>1, IterateFacts
<1>3. Len(list) \in Nat /\ list[1] = 0 /\ list[Len(list)] = MaxLen + 1 /\ op(0) = "HEAD"
      /\ op(MaxLen + 1) = "EROU"
  BY <1>2, ListFacts, NodesFinite DEF Shape
<1>4. i # 1 /\ i # Len(list)
  BY <1>2, <1>3
<1>5. PICK mm \in 1 .. Len(list) : mm = m
  BY <1>2
<1>6. /\ BeforeLabels(mm) \in 1 .. mm
      /\ op(list[BeforeLabels(mm)]) # "LABEL"
      /\ \A k \in BeforeLabels(mm) + 1 .. mm : op(list[k]) = "LABEL"
  BY <1>2, BeforeFacts
<1>7. PICK c \in 1 .. mm : c = BeforeLabels(mm)
  BY <1>6
<1>8. a = c + 1
  BY <1>5, <1>7 DEF firstOf
<1>9. c # mm
  BY <1>2, <1>5, <1>6, <1>7 DEF IsLabel
<1>10. Ends(p) = {k \in mm .. Len(list) : op(list[k]) = "JBR"}
  BY <1>5 DEF Ends
<1>11. Ends(p) \subseteq Nat
  BY <1>10
<1>12. PICK e \in Ends(p) : \A k \in Ends(p) : e <= k
  BY <1>1, <1>11, LeastNat
<1>13. b \in Ends(p) /\ \A k \in Ends(p) : b <= k
  BY <1>12 DEF lastOf
<1> HIDE DEF i, a, b, m
<1>14. b \in mm .. Len(list) /\ op(list[b]) = "JBR"
  BY <1>10, <1>13
<1>15. b # mm /\ b # Len(list)
  BY <1>2, <1>3, <1>5, <1>14 DEF IsLabel
<1>16. /\ i \in Int /\ a \in Int /\ b \in Int /\ m \in Int
       /\ 2 <= i /\ i < Len(list) /\ 2 <= a /\ a <= m /\ m < b /\ b < Len(list)
  BY <1>2, <1>3, <1>4, <1>5, <1>7, <1>8, <1>9, <1>14, <1>15
<1>17. \A k \in a .. m : op(list[k]) = "LABEL"
  BY <1>5, <1>6, <1>7, <1>8
<1>18. i # a - 1
  BY <1>1, <1>2
<1>19. ~ (i \in a .. m)
  BY <1>1, <1>2, <1>17
<1>20. ~ (m < i /\ i < b)
  <2>1. ASSUME m < i, i < b PROVE FALSE
    <3>1. i \in mm .. Len(list)
      BY <1>5, <1>16, <2>1
    <3>2. i \in Ends(p)
      BY <1>1, <1>2, <1>10, <3>1
    <3>3. QED
      BY <1>13, <1>16, <2>1, <3>2
  <2>2. QED
    BY <2>1
<1>21. i < a - 1 \/ i > b + 1
  BY <1>1, <1>16, <1>18, <1>19, <1>20
<1>22. QED
  BY <1>1, <1>2, <1>14, <1>16, <1>17, <1>21 DEF i, a, b, m

LEMMA MoveRef ==
  ASSUME RefInv, codemove
  PROVE  RefInv'
<1>0. pc = "iterate" /\ pc # "refcount" /\ CanMove
  BY DEF codemove, CanMove, Body
<1>1. PICK i \in Int, a \in Int, b \in Int, m \in Int :
        /\ i = At(p) /\ a = firstOf(p) /\ b = lastOf(p) /\ m = At(ref[p])
        /\ 2 <= i /\ i < Len(list) /\ 2 <= a /\ a <= m /\ m < b /\ b < Len(list)
        /\ i < a - 1 \/ i > b + 1
        /\ op(p) = "JBR" /\ IsJump(p) /\ list[i] = p /\ list[m] = ref[p]
        /\ op(list[b]) = "JBR" /\ op(list[a - 1]) = "JBR"
        /\ \A k \in a .. m : op(list[k]) = "LABEL"
  BY <1>0, PieceFacts
<1>2. /\ Shape /\ Exact(list, labno, ref, refc) /\ p \in ToSet(list) /\ list \in Lists
      /\ ref[p] \in ToSet(list) /\ IsLabel(ref[p]) /\ ref[p] # p
  BY <1>0, <1>1, IterateFacts
<1> DEFINE l == Moved(list, i, a, b)
<1>3. /\ list' = decref(l, ref[p])
      /\ refc' = Fewer(ref[p])
      /\ p' = IF list[a + 1] \in ToSet(list') THEN list[a + 1] ELSE list[a + 2]
      /\ UNCHANGED <<prog, labno, ref, neg, pc>>
  BY <1>1 DEF codemove
<1>4. l \in Lists /\ ToSet(l) = ToSet(list) \ {p}
  <2>1. a <= b
    BY <1>1
  <2>2. l \in Lists /\ ToSet(l) = ToSet(list) \ {list[i]}
    BY <1>1, <1>2, <2>1, MovedFacts
  <2>3. QED
    BY <1>1, <2>2
<1> HIDE DEF l
<1>5. ref[p] \in ToSet(l)
  BY <1>2, <1>4
<1>6. /\ list' \in Lists
      /\ ToSet(list') = ToSet(l) \ (IF refc[ref[p]] <= 1 THEN {ref[p]} ELSE {})
  BY <1>2, <1>3, <1>4, <1>5, DecrefFacts
<1>7. ToSet(list') = (ToSet(list) \ {p}) \ (IF refc[ref[p]] <= 1 THEN {ref[p]} ELSE {})
  BY <1>4, <1>6
<1>8. PICK s \in Lists : s = list'
  BY <1>6
<1>9. Exact(s, labno, ref, [refc EXCEPT ![ref[p]] = @ - 1])
  BY <1>1, <1>2, <1>7, <1>8, DropRef
<1>10. Exact(list', labno', ref', refc')
  BY <1>3, <1>8, <1>9 DEF Fewer
<1>11. p' \in ToSet(list')
  <2>1. CASE list[a + 1] \in ToSet(list')
    BY <1>3, <2>1
  <2>2. CASE list[a + 1] \notin ToSet(list')
    <3>1. /\ a + 1 \in 1 .. Len(list) /\ i \in 1 .. Len(list) /\ m \in 1 .. Len(list)
          /\ a + 1 # i /\ a + 2 # i
      BY <1>1
    <3>2. list[a + 1] \in ToSet(list) /\ list[a + 1] # p
      BY <1>1, <1>2, <3>1, ListFacts
    <3>3. list[a + 1] = ref[p]
      BY <1>7, <2>2, <3>2
    <3>4. a + 1 = m
      BY <1>1, <1>2, <3>1, <3>3, ListFacts
    <3>5. a + 2 \in 1 .. Len(list) /\ a + 2 # m
      BY <1>1, <3>4
    <3>6. list[a + 2] \in ToSet(list) /\ list[a + 2] # p /\ list[a + 2] # ref[p]
      <4>1. PICK x \in 1 .. Len(list) : x = a + 2
        BY <3>5
      <4>2. list[x] \in ToSet(list) /\ list[x] # list[i] /\ list[x] # list[m]
        BY <1>2, <3>1, <3>5, <4>1, ListFacts
      <4>3. QED
        BY <1>1, <4>1, <4>2
    <3>7. list[a + 2] \in ToSet(list')
      BY <1>7, <3>6
    <3>8. QED
      BY <1>3, <2>2, <3>7
  <2>3. QED
    BY <2>1, <2>2
<1>12. QED
  BY <1>0, <1>3, <1>10, <1>11, KeepRef DEF RefInv

LEMMA RefcountRef ==
  ASSUME RefInv, refcount
  PROVE  RefInv'
<1>1. Exact(list', labno', ref', refc') /\ p' \in ToSet(list')
  BY RefcountExact
<1>2. pc' = "iterate" /\ UNCHANGED <<prog, neg>>
  BY DEF refcount
<1>3. QED
  BY <1>1, <1>2 DEF RefInv, Shape, Exact, IsLabel, IsJump, RefsTo, Bonus, op

LEMMA OtherRef ==
  ASSUME RefInv, Forward \/ PassEnd \/ UNCHANGED vars
  PROVE  RefInv'
<1>1. CASE Forward
  <2>1. /\ pc = "iterate" /\ pc # "refcount" /\ op(p) # "EROU" /\ p' = forw(p)
        /\ UNCHANGED <<prog, list, labno, ref, refc, neg, pc>>
    BY <1>1 DEF Forward
  <2>2. Shape /\ list \in Lists /\ p \in ToSet(list)
    BY <2>1, IterateFacts
  <2>3. p' \in ToSet(list')
    BY <2>1, <2>2, ForwFacts
  <2>4. QED
    BY <2>1, <2>3 DEF RefInv, Shape, Exact, IsLabel, IsJump, RefsTo, Bonus, op
<1>2. CASE PassEnd
  <2>1. /\ pc = "iterate" /\ pc # "refcount" /\ pc' \in {"iterate", "done"}
        /\ p' = list[2] \/ p' = p
        /\ UNCHANGED <<prog, list, labno, ref, refc, neg>>
    BY <1>2 DEF PassEnd
  <2>2. Shape /\ list \in Lists /\ p \in ToSet(list)
    BY <2>1, IterateFacts
  <2>3. p' \in ToSet(list')
    <3>1. 2 \in 1 .. Len(list)
      BY <2>2, ListFacts
    <3>2. QED
      BY <2>1, <2>2, <3>1, ListFacts
  <2>4. QED
    BY <2>1, <2>3 DEF RefInv, Shape, Exact, IsLabel, IsJump, RefsTo, Bonus, op
<1>3. CASE UNCHANGED vars
  BY <1>3 DEF vars, RefInv, Shape, Exact, IsLabel, IsJump, RefsTo, Bonus, op, progNeg
<1>4. QED
  BY <1>1, <1>2, <1>3

LEMMA NextRef ==
  ASSUME RefInv, [Next]_vars
  PROVE  RefInv'
BY RefcountRef, ThreadRef, InvertRef, DropNextRef, DropJumpRef, MoveRef, OtherRef DEF Next, Finished

LEMMA RefInvImplies == RefInv => RefsExact
<1> SUFFICES ASSUME RefInv, pc # "refcount" PROVE RefsExact
  BY DEF RefsExact
<1>1. Exact(list, labno, ref, refc) /\ ToSet(list) \subseteq Node
  BY IterateFacts
<1>2. \A n \in Jumps : ref[n] \in Nodes("LABEL") /\ labno[ref[n]] = labno[n]
  BY <1>1, JumpsAre DEF Exact, Nodes, IsLabel
<1>3. ASSUME NEW m \in Nodes("LABEL")
      PROVE  /\ refc[m] > 0
             /\ refc[m] = Cardinality({n \in Jumps : ref[n] = m})
                            + (IF labno[m] \in InUse THEN 1000 ELSE 0)
  <2>1. m \in ToSet(list) /\ m \in Node /\ IsLabel(m)
    BY <1>1 DEF Nodes, IsLabel
  <2>2. refc[m] > 0 /\ refc[m] = Cardinality(RefsTo(list, ref, m)) + Bonus(m) /\ labno[m] = prog[m][2]
    BY <1>1, <2>1 DEF Exact
  <2>3. RefsTo(list, ref, m) = {n \in Jumps : ref[n] = m}
    BY JumpsAre DEF RefsTo
  <2>4. Bonus(m) = IF labno[m] \in InUse THEN 1000 ELSE 0
    BY <2>2 DEF Bonus
  <2>5. QED
    BY <2>2, <2>3, <2>4
<1>4. QED
  BY <1>2, <1>3 DEF RefsExact

(* Every jump refers to a label of its number that is still in the list,   *)
(* and the count of a label is the number of jumps that refer to it, plus  *)
(* the 1000 of refcount for a label a computed goto uses: decref never     *)
(* takes a label off the list that is still jumped to.                     *)
THEOREM ReferencesExact == Spec => []RefsExact
<1>1. Init => RefInv
  BY InitRef
<1>2. RefInv /\ [Next]_vars => RefInv'
  BY NextRef
<1>3. QED
  BY <1>1, <1>2, RefInvImplies, PTL DEF Spec

-----------------------------------------------------------------------------
(* Walks: after enough steps a walk has come to where it ends or goes      *)
(* round in circles.                                                       *)
Walk(w, g, P, i, K) ==
  w \in [0 .. K -> P] /\ w[0] = i /\ \A k \in 1 .. K : w[k] = g[w[k - 1]]

Level(b, g, P, B, K) ==
  b \in [0 .. K -> SUBSET P] /\ b[0] = B /\ \A k \in 1 .. K : b[k] = {j \in P : g[j] \in b[k - 1]}

LEMMA WalkExists ==
  ASSUME NEW P, NEW g \in [P -> P], NEW i \in P, NEW K \in Nat
  PROVE  \E w : Walk(w, g, P, i, K)
<1> DEFINE G == [q \in (1 .. K) \X P |-> g[q[2]]]
<1>1. G \in [(1 .. K) \X P -> P] /\ \A k \in 1 .. K, j \in P : G[<<k, j>>] = g[j]
  OBVIOUS
<1> HIDE DEF G
<1>2. PICK w : Stepped(w, P, i, G, K)
  BY <1>1, RecursionExists
<1>3. \A k \in 1 .. K : k - 1 \in 0 .. K
  OBVIOUS
<1>4. Walk(w, g, P, i, K)
  BY <1>1, <1>2, <1>3 DEF Stepped, Walk
<1>5. QED
  BY <1>4

LEMMA LevelExists ==
  ASSUME NEW P, NEW g \in [P -> P], NEW B \in SUBSET P, NEW K \in Nat
  PROVE  \E b : Level(b, g, P, B, K)
<1> DEFINE T == SUBSET P
           D(A) == {j \in P : g[j] \in A}
           G == [q \in (1 .. K) \X T |-> D(q[2])]
<1>0. \A A : D(A) \in T
  OBVIOUS
<1>1. G \in [(1 .. K) \X T -> T] /\ \A k \in 1 .. K, A \in T : G[<<k, A>>] = D(A)
  <2> HIDE DEF D
  <2>1. QED
    BY <1>0
<1> HIDE DEF G
<1>2. PICK b : Stepped(b, T, B, G, K)
  BY <1>1, RecursionExists
<1>3. \A k \in 1 .. K : k - 1 \in 0 .. K
  OBVIOUS
<1>4. b \in [0 .. K -> T] /\ b[0] = B /\ \A k \in 1 .. K : b[k] = D(b[k - 1])
  <2> HIDE DEF D
  <2>1. QED
    BY <1>1, <1>2, <1>3 DEF Stepped
<1>5. Level(b, g, P, B, K)
  BY <1>4 DEF Level
<1>6. QED
  BY <1>5

(* The last level is closed, and the least such set.                       *)
Settled(X, g, P, B) ==
  /\ X \subseteq P /\ B \subseteq X
  /\ \A j \in P : j \in X <=> g[j] \in X
  /\ \A C : B \subseteq C /\ (\A j \in P : g[j] \in C => j \in C) => X \subseteq C

LEMMA LevelSettles ==
  ASSUME NEW P, NEW g \in [P -> P], NEW B \in SUBSET P, NEW K \in Nat, NEW b, Level(b, g, P, B, K),
         IsFiniteSet(P), Cardinality(P) <= K, \A j \in B : g[j] \in B
  PROVE  Settled(b[K], g, P, B)
<1> DEFINE D(A) == {j \in P : g[j] \in A}
<1>1. K \in 0 .. K
  OBVIOUS
<1>2. Cardinality(P) \in Nat
  BY FS_CardinalityType
<1>3. b[0] = B /\ \A n \in Nat : n + 1 <= K => b[n + 1] = D(b[n])
  <2>1. b[0] = B /\ \A n \in 1 .. K : b[n] = D(b[n - 1])
    BY DEF Level
  <2>2. \A n \in Nat : n + 1 <= K => n + 1 \in 1 .. K /\ (n + 1) - 1 = n
    OBVIOUS
  <2> HIDE DEF D
  <2>3. QED
    BY <2>1, <2>2
<1> DEFINE S == {n \in Nat : n <= K => /\ b[n] \subseteq P /\ B \subseteq b[n] /\ b[n] \subseteq D(b[n])
                                       /\ D(b[n]) = b[n] \/ Cardinality(b[n]) >= n}
<1>4. 0 \in S
  <2>1. Cardinality(B) \in Nat
    BY FS_Subset, FS_CardinalityType
  <2>2. Cardinality(B) >= 0
    BY <2>1
  <2>3. B \subseteq D(B)
    OBVIOUS
  <2> HIDE DEF D
  <2>4. QED
    BY <1>3, <2>2, <2>3
<1>5. ASSUME NEW n \in Nat, n \in S PROVE n + 1 \in S
  <2>1. ASSUME n + 1 <= K
        PROVE  /\ b[n + 1] \subseteq P /\ B \subseteq b[n + 1] /\ b[n + 1] \subseteq D(b[n + 1])
               /\ D(b[n + 1]) = b[n + 1] \/ Cardinality(b[n + 1]) >= n + 1
    <3>1. n <= K
      BY <2>1
    <3>2. /\ b[n] \subseteq P /\ B \subseteq b[n] /\ b[n] \subseteq D(b[n])
          /\ D(b[n]) = b[n] \/ Cardinality(b[n]) >= n
      BY <1>5, <3>1
    <3>3. b[n + 1] = D(b[n])
      BY <1>3, <2>1
    <3>4. D(b[n]) \subseteq D(D(b[n])) /\ D(b[n]) \subseteq P
      BY <3>2
    <3> HIDE DEF D
    <3>5. CASE D(b[n]) = b[n]
      BY <3>2, <3>3, <3>4, <3>5
    <3>6. CASE D(b[n]) # b[n]
      <4>1. Cardinality(b[n]) >= n
        BY <3>2, <3>6
      <4>2. b[n] \subseteq b[n + 1] /\ b[n + 1] \subseteq P /\ b[n] # b[n + 1]
        BY <3>2, <3>3, <3>4, <3>6
      <4>3. IsFiniteSet(b[n]) /\ IsFiniteSet(b[n + 1])
        BY <3>2, <4>2, FS_Subset
      <4>4. Cardinality(b[n]) <= Cardinality(b[n + 1]) /\ Cardinality(b[n]) # Cardinality(b[n + 1])
        BY <4>2, <4>3, FS_Subset
      <4>5. Cardinality(b[n]) \in Nat /\ Cardinality(b[n + 1]) \in Nat
        BY <4>3, FS_CardinalityType
      <4>6. Cardinality(b[n + 1]) >= n + 1
        BY <4>1, <4>4, <4>5
      <4>7. QED
        BY <3>2, <3>3, <3>4, <4>2, <4>6
    <3>7. QED
      BY <3>5, <3>6
  <2>2. n + 1 \in Nat
    OBVIOUS
  <2> HIDE DEF D
  <2>3. QED
    BY <2>1, <2>2
<1> HIDE DEF S
<1>6. Nat \subseteq S
  BY <1>4, <1>5, SetInduction
<1>7. /\ b[K] \subseteq P /\ B \subseteq b[K] /\ b[K] \subseteq D(b[K])
      /\ D(b[K]) = b[K] \/ Cardinality(b[K]) >= K
  <2> HIDE DEF D
  <2>1. K \in S /\ K <= K
    BY <1>6
  <2>2. QED
    BY <2>1 DEF S
<1>8. D(b[K]) = b[K]
  <2>1. ASSUME Cardinality(b[K]) >= K PROVE b[K] = P
    <3>1. IsFiniteSet(b[K]) /\ Cardinality(b[K]) <= Cardinality(P)
          /\ (Cardinality(P) = Cardinality(b[K]) => P = b[K])
      BY <1>7, FS_Subset
    <3>2. Cardinality(b[K]) \in Nat
      BY <3>1, FS_CardinalityType
    <3>3. QED
      BY <1>2, <2>1, <3>1, <3>2
  <2>2. QED
    BY <1>7, <2>1
<1>9. ASSUME NEW C, B \subseteq C, \A j \in P : g[j] \in C => j \in C
      PROVE  b[K] \subseteq C
  <2> DEFINE R == {n \in Nat : n <= K => b[n] \subseteq C}
  <2>1. 0 \in R
    BY <1>3, <1>9
  <2>2. ASSUME NEW n \in Nat, n \in R PROVE n + 1 \in R
    <3>1. ASSUME n + 1 <= K PROVE b[n + 1] \subseteq C
      <4>1. n <= K
        BY <3>1
      <4>2. b[n] \subseteq C /\ b[n + 1] = D(b[n])
        BY <1>3, <2>2, <3>1, <4>1
      <4>3. QED
        BY <1>9, <4>2
    <3>2. n + 1 \in Nat
      OBVIOUS
    <3>3. QED
      BY <3>1, <3>2
  <2> HIDE DEF R
  <2>3. Nat \subseteq R
    BY <2>1, <2>2, SetInduction
  <2>4. QED
    BY <1>1, <2>3 DEF R
<1>10. \A j \in P : j \in b[K] <=> g[j] \in b[K]
  BY <1>8
<1>11. QED
  BY <1>7, <1>9, <1>10 DEF Settled

(* A walk ends in B when it starts in the last level.                      *)
LEMMA WalkLevel ==
  ASSUME NEW P, NEW g \in [P -> P], NEW B \in SUBSET P, NEW K \in Nat, NEW b, Level(b, g, P, B, K),
         NEW i \in P, NEW w, Walk(w, g, P, i, K)
  PROVE  w[K] \in B <=> i \in b[K]
<1> DEFINE S == {n \in Nat : n <= K => (w[K - n] \in b[n] <=> w[K] \in B)}
<1>1. 0 \in S
  BY DEF Level
<1>2. ASSUME NEW n \in Nat, n \in S PROVE n + 1 \in S
  <2>1. SUFFICES ASSUME n + 1 <= K PROVE w[K - (n + 1)] \in b[n + 1] <=> w[K] \in B
    OBVIOUS
  <2>2. PICK k \in 1 .. K : k = K - n
    BY <2>1
  <2>3. K - (n + 1) = k - 1 /\ k - 1 \in 0 .. K /\ n + 1 \in 1 .. K /\ (n + 1) - 1 = n /\ n <= K
    BY <2>1, <2>2
  <2>4. w[k] = g[w[k - 1]] /\ w[k - 1] \in P
    BY <2>3 DEF Walk
  <2>5. b[n + 1] = {j \in P : g[j] \in b[n]}
    BY <2>3 DEF Level
  <2>6. w[k] \in b[n] <=> w[K] \in B
    BY <1>2, <2>2, <2>3
  <2>7. QED
    BY <2>3, <2>4, <2>5, <2>6
<1> HIDE DEF S
<1>3. K \in S
  BY <1>1, <1>2, SetInduction
<1>4. K - K = 0 /\ K <= K
  OBVIOUS
<1>5. w[0] \in b[K] <=> w[K] \in B
  BY <1>3, <1>4 DEF S
<1>6. QED
  BY <1>5 DEF Walk

-----------------------------------------------------------------------------
(* Where the silent nodes lead.                                            *)
Silent(m) == op(m) \in {"LABEL", "HEAD"}
Finals == {x \in Node : ~ Silent(x) /\ op(x) # "JBR"}

Follow(l, t, m, n) ==
  \/ Silent(m) /\ Adj(l, m, n)
  \/ m \in ToSet(l) /\ op(m) = "JBR" /\ n = t[m]

Both(l, t, C) == \A m, n : Follow(l, t, m, n) => (m \in C <=> n \in C)

(* A list whose jumps find their labels.                                   *)
Wired(l, lab, t) ==
  /\ l \in Lists
  /\ \A m \in ToSet(l) : IsLabel(m) => lab[m] = prog[m][2]
  /\ \A n \in ToSet(l) : IsJump(n) => t[n] \in ToSet(l) /\ IsLabel(t[n]) /\ lab[n] = lab[t[n]]

Step(l, t) ==
  [j \in 1 .. Len(l) |-> IF Silent(l[j]) THEN j + 1
                         ELSE IF op(l[j]) = "JBR" THEN Place(l, t[l[j]]) ELSE j]

LEMMA StepFacts ==
  ASSUME Shape, NEW l, NEW lab, NEW t, Wired(l, lab, t)
  PROVE  /\ Step(l, t) \in [1 .. Len(l) -> 1 .. Len(l)]
         /\ \A j \in 1 .. Len(l) :
              /\ Silent(l[j]) => Step(l, t)[j] = j + 1 /\ j + 1 \in 1 .. Len(l)
              /\ op(l[j]) = "JBR" => Step(l, t)[j] = Place(l, t[l[j]]) /\ Place(l, t[l[j]]) \in 1 .. Len(l)
                                     /\ l[Place(l, t[l[j]])] = t[l[j]]
              /\ ~ Silent(l[j]) /\ op(l[j]) # "JBR" => Step(l, t)[j] = j
              /\ Step(l, t)[j] # 1
<1>1. l \in Lists
  BY DEF Wired
<1>2. /\ Len(l) \in Nat /\ l[1] = 0 /\ l[Len(l)] = MaxLen + 1 /\ op(0) = "HEAD" /\ op(MaxLen + 1) = "EROU"
      /\ \A j \in 1 .. Len(l) : l[j] \in ToSet(l)
      /\ Len(l) >= 2
  BY <1>1, ListFacts, NodesFinite DEF Shape
<1>3. ASSUME NEW j \in 1 .. Len(l), Silent(l[j]) PROVE j + 1 \in 1 .. Len(l) /\ j + 1 # 1
  <2>1. j # Len(l)
    BY <1>2, <1>3 DEF Silent
  <2>2. QED
    BY <1>2, <2>1
<1>4. ASSUME NEW j \in 1 .. Len(l), op(l[j]) = "JBR"
      PROVE  /\ Place(l, t[l[j]]) \in 1 .. Len(l) /\ l[Place(l, t[l[j]])] = t[l[j]]
             /\ Place(l, t[l[j]]) # 1
  <2>1. t[l[j]] \in ToSet(l) /\ IsLabel(t[l[j]])
    BY <1>2, <1>4 DEF Wired, IsJump
  <2>2. Place(l, t[l[j]]) \in 1 .. Len(l) /\ l[Place(l, t[l[j]])] = t[l[j]]
    BY <1>1, <2>1, PlaceFacts
  <2>3. Place(l, t[l[j]]) # 1
    BY <1>2, <2>1, <2>2 DEF IsLabel
  <2>4. QED
    BY <2>2, <2>3
<1>5. \A j \in 1 .. Len(l) : Silent(l[j]) => op(l[j]) # "JBR"
  BY DEF Silent
<1>6. \A j \in 1 .. Len(l) : ~ Silent(l[j]) => j # 1
  BY <1>2 DEF Silent
<1>7. QED
  BY <1>3, <1>4, <1>5, <1>6 DEF Step

Bound == 2 * (MaxLen + 2)

LEMMA LenBound ==
  ASSUME NEW l \in Lists
  PROVE  /\ Bound \in Nat /\ Bound >= 1 /\ IsFiniteSet(1 .. Len(l))
         /\ Cardinality(1 .. Len(l)) <= Bound
<1>1. MaxLen \in Nat /\ Len(l) \in Nat /\ Len(l) >= 2
  BY ListFacts, DelJumpsAssumption
<1>2. IsFiniteSet(1 .. Len(l)) /\ Cardinality(1 .. Len(l)) = Len(l)
  BY <1>1, FS_Interval
<1>3. IsFiniteSet(0 .. MaxLen + 1) /\ Cardinality(0 .. MaxLen + 1) = MaxLen + 2
  BY <1>1, FS_Interval
<1>4. Cardinality(1 .. Len(l)) <= Cardinality(Node)
  <2>1. l \in [1 .. Len(l) -> Node]
    BY ListFacts
  <2>2. l \in Injection(1 .. Len(l), Node)
    BY <2>1, ListFacts DEF Injection, IsInjective
  <2>3. QED
    BY <1>2, <1>3, <2>2, FS_Injection DEF ExistsInjection, Node
<1>5. QED
  BY <1>1, <1>2, <1>3, <1>4 DEF Bound, Node

LEMMA LabelPlace ==
  ASSUME Shape, NEW l, NEW lab, NEW t, Wired(l, lab, t), NEW m \in ToSet(l), IsLabel(m)
  PROVE  (CHOOSE k \in DOMAIN l : op(l[k]) = "LABEL" /\ lab[l[k]] = prog[m][2]) = Place(l, m)
<1>1. l \in Lists /\ DOMAIN l = 1 .. Len(l) /\ ToSet(l) \subseteq Node
      /\ \A k \in 1 .. Len(l) : l[k] \in ToSet(l)
  BY ListFacts DEF Wired
<1>2. Place(l, m) \in 1 .. Len(l) /\ l[Place(l, m)] = m
  BY <1>1, PlaceFacts
<1>3. op(m) = "LABEL" /\ lab[m] = prog[m][2]
  BY DEF Wired, IsLabel
<1>4. ASSUME NEW k \in 1 .. Len(l), op(l[k]) = "LABEL", lab[l[k]] = prog[m][2]
      PROVE  k = Place(l, m)
  <2>1. l[k] \in ToSet(l) /\ IsLabel(l[k])
    BY <1>1, <1>4 DEF IsLabel
  <2>2. prog[l[k]][2] = prog[m][2]
    BY <1>4, <2>1 DEF Wired
  <2>3. l[k] = m
    BY <1>1, <2>1, <2>2 DEF Shape
  <2>4. QED
    BY <1>1, <2>3, PlaceIs
<1>5. QED
  BY <1>1, <1>2, <1>3, <1>4

(* Reach is where the walk from place i is after Bound steps.              *)
LEMMA ReachWalk ==
  ASSUME Shape, NEW l, NEW lab, NEW t, Wired(l, lab, t), NEW i \in 1 .. Len(l),
         NEW w, Walk(w, Step(l, t), 1 .. Len(l), i, Bound)
  PROVE  Reach(l, lab, i) = IF op(l[w[Bound]]) \in {"LABEL", "JBR"} THEN NIL ELSE l[w[Bound]]
<1> DEFINE to(n) == CHOOSE k \in DOMAIN l : op(l[k]) = "LABEL" /\ lab[l[k]] = lab[n]
           nx(j) == IF op(l[j]) \in {"LABEL", "HEAD"} THEN j + 1
                    ELSE IF op(l[j]) = "JBR" THEN to(l[j]) ELSE j
           Is(f) == f = [k \in 0 .. Bound |-> IF k = 0 THEN i ELSE nx(f[k - 1])]
           f0 == CHOOSE f : Is(f)
<1>1. Reach(l, lab, i) = IF op(l[f0[Bound]]) \in {"LABEL", "JBR"} THEN NIL ELSE l[f0[Bound]]
  BY DEF Reach, Bound
<1>2. \A j \in 1 .. Len(l) : nx(j) = Step(l, t)[j]
  <2> TAKE j \in 1 .. Len(l)
  <2>1. CASE op(l[j]) \in {"LABEL", "HEAD"}
    BY <2>1, StepFacts DEF Silent
  <2>2. CASE op(l[j]) = "JBR"
    <3>1. l \in Lists /\ l[j] \in ToSet(l)
      BY ListFacts DEF Wired
    <3>2. t[l[j]] \in ToSet(l) /\ IsLabel(t[l[j]]) /\ lab[l[j]] = lab[t[l[j]]]
      BY <2>2, <3>1 DEF Wired, IsJump
    <3>3. lab[t[l[j]]] = prog[t[l[j]]][2]
      BY <3>2 DEF Wired
    <3>4. to(l[j]) = Place(l, t[l[j]])
      BY <3>2, <3>3, LabelPlace
    <3>5. Step(l, t)[j] = Place(l, t[l[j]])
      BY <2>2, StepFacts
    <3> HIDE DEF to
    <3>6. QED
      BY <2>2, <3>4, <3>5
  <2>3. CASE op(l[j]) \notin {"LABEL", "HEAD"} /\ op(l[j]) # "JBR"
    BY <2>3, StepFacts DEF Silent
  <2>4. QED
    BY <2>1, <2>2, <2>3
<1> HIDE DEF nx
<1>3. /\ w \in [0 .. Bound -> 1 .. Len(l)] /\ w[0] = i
      /\ \A k \in 1 .. Bound : w[k] = Step(l, t)[w[k - 1]]
  BY DEF Walk
<1>4. Bound \in Nat
  BY LenBound DEF Wired
<1>5. Is(w)
  <2>1. \A k \in 0 .. Bound : w[k] = IF k = 0 THEN i ELSE nx(w[k - 1])
    <3> TAKE k \in 0 .. Bound
    <3>1. CASE k = 0
      BY <1>3, <3>1
    <3>2. CASE k # 0
      <4>1. k \in 1 .. Bound /\ k - 1 \in 0 .. Bound
        BY <1>4, <3>2
      <4>2. QED
        BY <1>2, <1>3, <3>2, <4>1
    <3>3. QED
      BY <3>1, <3>2
  <2>2. QED
    BY <1>3, <2>1
<1>6. Is(f0)
  BY <1>5
<1> HIDE DEF f0
<1> DEFINE S == {k \in Nat : k <= Bound => f0[k] = w[k]}
<1>7. 0 \in S
  <2>1. 0 \in 0 .. Bound
    BY <1>4
  <2>2. QED
    BY <1>3, <1>6, <2>1
<1>8. ASSUME NEW k \in Nat, k \in S PROVE k + 1 \in S
  <2>1. SUFFICES ASSUME k + 1 <= Bound PROVE f0[k + 1] = w[k + 1]
    OBVIOUS
  <2>2. k + 1 \in 0 .. Bound /\ k + 1 # 0 /\ (k + 1) - 1 = k /\ k <= Bound
    BY <1>4, <2>1
  <2>3. f0[k + 1] = nx(f0[k]) /\ w[k + 1] = nx(w[k])
    BY <1>5, <1>6, <2>2
  <2>4. f0[k] = w[k]
    BY <1>8, <2>2
  <2>5. QED
    BY <2>3, <2>4
<1> HIDE DEF S
<1>9. Bound \in S
  BY <1>4, <1>7, <1>8, SetInduction
<1>10. f0[Bound] = w[Bound]
  BY <1>4, <1>9 DEF S
<1>11. QED
  BY <1>1, <1>10

LEMMA ReachType ==
  ASSUME Shape, NEW l, NEW lab, NEW t, Wired(l, lab, t), NEW i \in 1 .. Len(l)
  PROVE  Reach(l, lab, i) \in Finals \cup {NIL}
<1>0. Bound \in Nat /\ Bound >= 1 /\ l \in Lists
  BY LenBound DEF Wired
<1>1. Step(l, t) \in [1 .. Len(l) -> 1 .. Len(l)] /\ \A j \in 1 .. Len(l) : Step(l, t)[j] # 1
  BY StepFacts
<1>2. PICK w : Walk(w, Step(l, t), 1 .. Len(l), i, Bound)
  BY <1>0, <1>1, WalkExists
<1>3. w[Bound] \in 1 .. Len(l) /\ w[Bound] # 1
  <2>1. Bound \in 1 .. Bound /\ Bound \in 0 .. Bound /\ Bound - 1 \in 0 .. Bound
    BY <1>0
  <2>2. w[Bound] = Step(l, t)[w[Bound - 1]] /\ w[Bound - 1] \in 1 .. Len(l) /\ w[Bound] \in 1 .. Len(l)
    BY <1>2, <2>1 DEF Walk
  <2>3. QED
    BY <1>1, <2>2
<1>4. PICK j \in 1 .. Len(l) : j = w[Bound]
  BY <1>3
<1>5. l[j] \in Node /\ l[j] # 0
  <2>1. 1 \in 1 .. Len(l) /\ l[1] = 0
    BY <1>0, ListFacts
  <2>2. QED
    BY <1>0, <1>3, <1>4, <2>1, ListFacts
<1>6. op(l[j]) # "HEAD"
  BY <1>5 DEF Shape
<1>7. Reach(l, lab, i) = IF op(l[j]) \in {"LABEL", "JBR"} THEN NIL ELSE l[j]
  BY <1>2, <1>4, ReachWalk
<1>8. QED
  BY <1>5, <1>6, <1>7 DEF Finals, Silent

(* The places that lead to x.                                              *)
Leads(l, lab, x) == {m \in ToSet(l) : Reach(l, lab, Place(l, m)) = x}

LEMMA LeadsLeast ==
  ASSUME Shape, NEW l, NEW lab, NEW t, Wired(l, lab, t), NEW x \in Finals
  PROVE  /\ Both(l, t, Leads(l, lab, x))
         /\ x \in ToSet(l) => x \in Leads(l, lab, x)
         /\ \A C : Both(l, t, C) /\ (x \in ToSet(l) => x \in C) => Leads(l, lab, x) \subseteq C
<1> DEFINE P == 1 .. Len(l)
           g == Step(l, t)
           B == {j \in P : l[j] = x}
           K == Bound
<1>0. /\ K \in Nat /\ IsFiniteSet(P) /\ Cardinality(P) <= K /\ l \in Lists
  BY LenBound DEF Wired
<1>1. /\ g \in [P -> P]
      /\ \A j \in P : /\ Silent(l[j]) => g[j] = j + 1 /\ j + 1 \in P
                      /\ op(l[j]) = "JBR" => g[j] \in P /\ l[g[j]] = t[l[j]]
                      /\ ~ Silent(l[j]) /\ op(l[j]) # "JBR" => g[j] = j
  BY StepFacts
<1>2. /\ \A j \in P : l[j] \in ToSet(l) /\ Place(l, l[j]) = j
      /\ \A m \in ToSet(l) : Place(l, m) \in P /\ l[Place(l, m)] = m
  BY <1>0, ListFacts, PlaceIs, PlaceFacts
<1>3. \A j \in B : g[j] \in B
  BY <1>1 DEF Finals
<1> HIDE DEF g, K
<1>4. PICK b : Level(b, g, P, B, K)
  <2>1. B \in SUBSET P
    OBVIOUS
  <2> HIDE DEF B, P
  <2>2. QED
    BY <1>0, <1>1, <2>1, LevelExists
<1>5. /\ b[K] \subseteq P /\ B \subseteq b[K]
      /\ \A j \in P : j \in b[K] <=> g[j] \in b[K]
      /\ \A C : B \subseteq C /\ (\A j \in P : g[j] \in C => j \in C) => b[K] \subseteq C
  <2>1. B \in SUBSET P
    OBVIOUS
  <2> HIDE DEF B, P
  <2>2. QED
    <3>1. Settled(b[K], g, P, B)
      BY <1>0, <1>1, <1>3, <1>4, <2>1, LevelSettles
    <3>2. QED
      BY <3>1 DEF Settled
<1>6. \A j \in P : Reach(l, lab, j) = x <=> j \in b[K]
  <2> TAKE j \in P
  <2>1. PICK w : Walk(w, g, P, j, K)
    <3> HIDE DEF P
    <3>1. QED
      BY <1>0, <1>1, WalkExists
  <2>2. w[K] \in B <=> j \in b[K]
    <3>1. B \in SUBSET P
      OBVIOUS
    <3> HIDE DEF B, P
    <3>2. QED
      BY <1>0, <1>1, <1>4, <2>1, <3>1, WalkLevel
  <2>3. Reach(l, lab, j) = IF op(l[w[K]]) \in {"LABEL", "JBR"} THEN NIL ELSE l[w[K]]
    BY <2>1, ReachWalk DEF g, K
  <2>4. w[K] \in P
    <3>1. K \in 0 .. K
      BY <1>0
    <3>2. QED
      BY <2>1, <3>1 DEF Walk
  <2>5. x # NIL /\ op(x) \notin {"LABEL", "JBR"}
    BY NodesFinite DEF Finals, Silent, NIL, Node
  <2>6. QED
    BY <2>2, <2>3, <2>4, <2>5
<1>7. Leads(l, lab, x) = {m \in ToSet(l) : Place(l, m) \in b[K]}
  BY <1>2, <1>6 DEF Leads
<1> HIDE DEF P
<1>8. ASSUME NEW m, NEW n, Follow(l, t, m, n)
      PROVE  m \in ToSet(l) /\ n \in ToSet(l) /\ g[Place(l, m)] = Place(l, n)
  <2>1. CASE Silent(m) /\ Adj(l, m, n)
    <3>1. m \in ToSet(l) /\ n \in ToSet(l) /\ Place(l, n) = Place(l, m) + 1
      BY <1>0, <2>1, AdjFacts
    <3>2. QED
      BY <1>1, <1>2, <2>1, <3>1
  <2>2. CASE m \in ToSet(l) /\ op(m) = "JBR" /\ n = t[m]
    <3>1. n \in ToSet(l)
      BY <2>2 DEF Wired, IsJump
    <3>2. Place(l, m) \in P /\ l[Place(l, m)] = m
      BY <1>2, <2>2
    <3>3. g[Place(l, m)] \in P /\ l[g[Place(l, m)]] = n
      BY <1>1, <2>2, <3>2
    <3>4. QED
      BY <1>2, <2>2, <3>1, <3>3
  <2>3. QED
    BY <1>8, <2>1, <2>2 DEF Follow
<1>9. Both(l, t, Leads(l, lab, x))
  <2>1. ASSUME NEW m, NEW n, Follow(l, t, m, n)
        PROVE  m \in Leads(l, lab, x) <=> n \in Leads(l, lab, x)
    <3>1. m \in ToSet(l) /\ n \in ToSet(l) /\ g[Place(l, m)] = Place(l, n)
      BY <1>8, <2>1
    <3>2. Place(l, m) \in P
      BY <1>2, <3>1
    <3>3. QED
      BY <1>5, <1>7, <3>1, <3>2
  <2>2. QED
    BY <2>1 DEF Both
<1>10. ASSUME x \in ToSet(l) PROVE x \in Leads(l, lab, x)
  <2>1. Place(l, x) \in B
    BY <1>2, <1>10
  <2>2. QED
    BY <1>5, <1>7, <1>10, <2>1
<1>11. ASSUME NEW C, Both(l, t, C), x \in ToSet(l) => x \in C
       PROVE  Leads(l, lab, x) \subseteq C
  <2> DEFINE D == {j \in P : l[j] \in C}
  <2>1. B \subseteq D
    BY <1>2, <1>11
  <2>2. ASSUME NEW j \in P, g[j] \in D PROVE j \in D
    <3>1. CASE Silent(l[j])
      <4>1. g[j] = j + 1 /\ j + 1 \in P
        BY <1>1, <3>1
      <4>2. Adj(l, l[j], l[j + 1])
        <5>1. j \in 1 .. Len(l) /\ j + 1 \in 1 .. Len(l)
          BY <4>1 DEF P
        <5>2. j \in 1 .. Len(l) - 1
          BY <1>0, <5>1, ListFacts
        <5>3. QED
          BY <1>0, <5>2, AdjAt
      <4>3. QED
        BY <1>11, <2>2, <3>1, <4>1, <4>2 DEF Both, Follow
    <3>2. CASE op(l[j]) = "JBR"
      <4>1. l[g[j]] = t[l[j]] /\ l[j] \in ToSet(l)
        BY <1>1, <1>2, <3>2
      <4>2. QED
        BY <1>11, <2>2, <3>2, <4>1 DEF Both, Follow
    <3>3. CASE ~ Silent(l[j]) /\ op(l[j]) # "JBR"
      BY <1>1, <2>2, <3>3
    <3>4. QED
      BY <3>1, <3>2, <3>3
  <2> HIDE DEF D, B
  <2>3. b[K] \subseteq D
    BY <1>5, <2>1, <2>2
  <2>4. QED
    BY <1>2, <1>7, <2>3 DEF D
<1>12. QED
  BY <1>9, <1>10, <1>11

-----------------------------------------------------------------------------
(* The program, and the nodes of it that lead to the same.                 *)
Target(n) == CHOOSE m \in Node : IsLabel(m) /\ prog[m][2] = prog[n][2]
progT == [n \in Node |-> IF IsJump(n) THEN Target(n) ELSE NIL]

D(x) == Leads(progList, progLab, x)
Same(m, n) == \A x \in Finals : m \in D(x) <=> n \in D(x)

(* List l with jumps to t and negations ng does what the program does.     *)
Flow(l, t, ng) ==
  /\ \A m, n : Follow(l, t, m, n) => Same(m, n)
  /\ \A n, s : op(n) = "STMT" /\ Adj(l, n, s) => Same(s, n + 1)
  /\ \A n, s : op(n) = "CBR" /\ Adj(l, n, s) =>
       IF ng[n] THEN Same(s, Target(n)) /\ Same(t[n], n + 1)
       ELSE Same(s, n + 1) /\ Same(t[n], Target(n))
  /\ \A x \in Finals : \A C : Both(l, t, C) /\ (x \in ToSet(l) => x \in C) =>
       \A m \in ToSet(l) : m \in D(x) => m \in C

LEMMA TargetFacts ==
  ASSUME Shape, NEW n \in Node, IsJump(n)
  PROVE  Target(n) \in Node /\ IsLabel(Target(n)) /\ prog[Target(n)][2] = prog[n][2]
BY DEF Target, Shape

LEMMA ProgWired ==
  ASSUME Shape
  PROVE  Wired(progList, progLab, progT)
<1>1. progList \in Lists /\ ToSet(progList) = Node
  BY ProgFacts
<1>2. \A n \in Node : progLab[n] = prog[n][2]
  BY DEF progLab
<1>3. \A n \in Node : IsJump(n) => progT[n] = Target(n)
  BY DEF progT
<1>4. QED
  BY <1>1, <1>2, <1>3, TargetFacts DEF Wired

LEMMA SameEq ==
  /\ \A m : Same(m, m)
  /\ \A m, n : Same(m, n) => Same(n, m)
  /\ \A m, n, k : Same(m, n) /\ Same(n, k) => Same(m, k)
BY DEF Same

LEMMA DFacts ==
  ASSUME Shape, NEW x \in Finals
  PROVE  x \in D(x) /\ \A m \in Node : m \in D(x) <=> Reach(progList, progLab, m + 1) = x
<1>1. Wired(progList, progLab, progT) /\ ToSet(progList) = Node
      /\ \A m \in Node : Place(progList, m) = m + 1
  BY ProgWired, ProgFacts
<1>2. x \in D(x)
  <2>1. x \in ToSet(progList)
    BY <1>1 DEF Finals
  <2>2. QED
    BY <1>1, <2>1, LeadsLeast DEF D
<1>3. QED
  BY <1>1, <1>2 DEF D, Leads

LEMMA SameReach ==
  ASSUME Shape, NEW m \in Node, NEW n \in Node, Same(m, n)
  PROVE  Reach(progList, progLab, m + 1) = Reach(progList, progLab, n + 1)
<1>1. /\ Reach(progList, progLab, m + 1) \in Finals \cup {NIL}
      /\ Reach(progList, progLab, n + 1) \in Finals \cup {NIL}
  <2>1. Wired(progList, progLab, progT)
    BY ProgWired
  <2>2. m + 1 \in 1 .. Len(progList) /\ n + 1 \in 1 .. Len(progList)
    BY ProgFacts
  <2>3. QED
    BY <2>1, <2>2, ReachType
<1>2. \A x \in Finals : Reach(progList, progLab, m + 1) = x <=> Reach(progList, progLab, n + 1) = x
  BY DFacts DEF Same
<1>3. QED
  BY <1>1, <1>2

(* The flow of the program itself.                                         *)
LEMMA ProgFlow ==
  ASSUME Shape
  PROVE  Flow(progList, progT, progNeg)
<1>1. Wired(progList, progLab, progT)
  BY ProgWired
<1>2. /\ ToSet(progList) = Node
      /\ \A a, b : Adj(progList, a, b) <=> a \in Node /\ a # MaxLen + 1 /\ b = a + 1
  BY ProgFacts
<1>3. ASSUME NEW m, NEW n, Follow(progList, progT, m, n) PROVE Same(m, n)
  <2>1. \A x \in Finals : Both(progList, progT, D(x))
    BY <1>1, LeadsLeast DEF D
  <2>2. QED
    BY <1>3, <2>1 DEF Both, Same
<1>4. \A n, s : op(n) = "STMT" /\ Adj(progList, n, s) => Same(s, n + 1)
  BY <1>2, SameEq
<1>5. ASSUME NEW n, NEW s, op(n) = "CBR", Adj(progList, n, s)
      PROVE  IF progNeg[n] THEN Same(s, Target(n)) /\ Same(progT[n], n + 1)
             ELSE Same(s, n + 1) /\ Same(progT[n], Target(n))
  <2>1. n \in Node /\ s = n + 1
    BY <1>2, <1>5
  <2>2. ~ progNeg[n] /\ progT[n] = Target(n)
    BY <1>5, <2>1 DEF progNeg, progT, IsJump
  <2>3. QED
    BY <2>1, <2>2, SameEq
<1>6. ASSUME NEW x \in Finals, NEW C, Both(progList, progT, C), x \in ToSet(progList) => x \in C,
             NEW m \in ToSet(progList), m \in D(x)
      PROVE  m \in C
  BY <1>1, <1>6, LeadsLeast DEF D
<1>7. QED
  BY <1>3, <1>4, <1>5, <1>6 DEF Flow

(* With the flow of the program, a list reaches what the program reaches.  *)
LEMMA FlowReach ==
  ASSUME Shape, NEW l, NEW lab, NEW t, NEW ng, Wired(l, lab, t), Flow(l, t, ng), NEW m \in ToSet(l)
  PROVE  Reach(l, lab, Place(l, m)) = Reach(progList, progLab, m + 1)
<1>1. l \in Lists /\ m \in Node /\ Place(l, m) \in 1 .. Len(l)
  BY ListFacts, PlaceFacts DEF Wired
<1>2. Reach(l, lab, Place(l, m)) \in Finals \cup {NIL}
  BY <1>1, ReachType
<1>3. Reach(progList, progLab, m + 1) \in Finals \cup {NIL}
  <2>1. Wired(progList, progLab, progT)
    BY ProgWired
  <2>2. m + 1 \in 1 .. Len(progList)
    BY <1>1, ProgFacts
  <2>3. QED
    BY <2>1, <2>2, ReachType
<1>4. ASSUME NEW x \in Finals
      PROVE  Reach(l, lab, Place(l, m)) = x <=> Reach(progList, progLab, m + 1) = x
  <2>1. /\ Both(l, t, Leads(l, lab, x))
        /\ x \in ToSet(l) => x \in Leads(l, lab, x)
        /\ \A C : Both(l, t, C) /\ (x \in ToSet(l) => x \in C) => Leads(l, lab, x) \subseteq C
    BY LeadsLeast
  <2>2. x \in D(x)
    BY DFacts
  <2>3. Both(l, t, D(x))
    BY DEF Flow, Same, Both
  <2>4. Leads(l, lab, x) \subseteq D(x)
    BY <2>1, <2>2, <2>3
  <2>5. m \in D(x) => m \in Leads(l, lab, x)
    BY <2>1 DEF Flow
  <2>6. m \in Leads(l, lab, x) <=> Reach(l, lab, Place(l, m)) = x
    BY DEF Leads
  <2>7. QED
    BY <1>1, <2>4, <2>5, <2>6, DFacts
<1>5. QED
  BY <1>2, <1>3, <1>4

(* What comes after a node of the list.                                    *)
LEMMA NextReach ==
  ASSUME Shape, NEW l, NEW lab, NEW t, NEW ng, Wired(l, lab, t), Flow(l, t, ng),
         NEW n \in ToSet(l), op(n) # "EROU"
  PROVE  \E s \in ToSet(l) : Adj(l, n, s) /\ Reach(l, lab, Place(l, n) + 1) = Reach(progList, progLab, s + 1)
<1>1. l \in Lists /\ n \in Node /\ Place(l, n) \in 1 .. Len(l) /\ l[Place(l, n)] = n
      /\ Len(l) \in Nat /\ l[Len(l)] = MaxLen + 1
  BY ListFacts, PlaceFacts DEF Wired
<1>2. PICK i \in 1 .. Len(l) : i = Place(l, n)
  BY <1>1
<1>3. i # Len(l)
  BY <1>1, <1>2 DEF Shape
<1>4. i \in 1 .. Len(l) - 1 /\ i + 1 \in 1 .. Len(l)
  BY <1>1, <1>3
<1>5. Adj(l, n, l[i + 1])
  BY <1>1, <1>2, <1>4 DEF Adj
<1>6. l[i + 1] \in ToSet(l) /\ Place(l, l[i + 1]) = i + 1
  BY <1>1, <1>4, ListFacts, PlaceIs
<1>7. PICK s \in ToSet(l) : s = l[i + 1]
  BY <1>6
<1>8. Reach(l, lab, Place(l, s)) = Reach(progList, progLab, s + 1)
  BY FlowReach
<1>9. QED
  BY <1>2, <1>5, <1>6, <1>7, <1>8

LEMMA LabelReach ==
  ASSUME Shape, NEW l, NEW lab, NEW t, NEW ng, Wired(l, lab, t), Flow(l, t, ng),
         NEW m \in ToSet(l), IsLabel(m)
  PROVE  Reach(l, lab, CHOOSE k \in DOMAIN l : op(l[k]) = "LABEL" /\ lab[l[k]] = prog[m][2])
           = Reach(progList, progLab, m + 1)
<1>1. (CHOOSE k \in DOMAIN l : op(l[k]) = "LABEL" /\ lab[l[k]] = prog[m][2]) = Place(l, m)
  BY LabelPlace
<1>2. Reach(l, lab, Place(l, m)) = Reach(progList, progLab, m + 1)
  BY FlowReach
<1>3. QED
  BY <1>1, <1>2

LEMMA FlowMeans ==
  ASSUME RefInv, pc # "refcount", Flow(list, ref, neg)
  PROVE  SameFlow
<1>1. /\ Shape /\ Exact(list, labno, ref, refc) /\ list \in Lists /\ ToSet(list) \subseteq Node
  BY IterateFacts
<1>2. Wired(list, labno, ref)
  BY <1>1 DEF Wired, Exact
<1>3. Wired(progList, progLab, progT) /\ Flow(progList, progT, progNeg) /\ ToSet(progList) = Node
  BY <1>1, ProgWired, ProgFlow, ProgFacts
<1>4. Reach(list, labno, 1) = Reach(progList, progLab, 1)
  <2>1. list[1] = 0 /\ 1 \in 1 .. Len(list)
    BY <1>1, ListFacts
  <2>2. 0 \in ToSet(list) /\ Place(list, 0) = 1
    BY <1>1, <2>1, ListFacts, PlaceIs
  <2>3. QED
    BY <1>1, <1>2, <2>2, FlowReach
<1>5. ASSUME NEW n \in ToSet(list)
      PROVE  Succ(list, labno, neg, n) = Succ(progList, progLab, progNeg, n)
  <2>0. n \in Node
    BY <1>1
  <2>1. CASE op(n) = "STMT"
    <3>1. PICK s \in ToSet(list) :
            Adj(list, n, s) /\ Reach(list, labno, Place(list, n) + 1) = Reach(progList, progLab, s + 1)
      BY <1>1, <1>2, <2>1, NextReach
    <3>2. PICK r \in Node :
            Adj(progList, n, r) /\ Reach(progList, progLab, Place(progList, n) + 1) = Reach(progList, progLab, r + 1)
      BY <1>1, <1>3, <2>0, <2>1, NextReach
    <3>3. r = n + 1 /\ Same(s, r)
      BY <2>1, <3>1, <3>2, ProgFacts DEF Flow
    <3>4. Reach(progList, progLab, s + 1) = Reach(progList, progLab, r + 1)
      BY <1>1, <3>3, SameReach
    <3>5. QED
      BY <2>1, <3>1, <3>2, <3>4 DEF Succ
  <2>2. CASE op(n) = "CBR"
    <3>0. IsJump(n)
      BY <2>2 DEF IsJump
    <3>1. PICK s \in ToSet(list) :
            Adj(list, n, s) /\ Reach(list, labno, Place(list, n) + 1) = Reach(progList, progLab, s + 1)
      BY <1>1, <1>2, <2>2, NextReach
    <3>2. PICK r \in Node :
            Adj(progList, n, r) /\ Reach(progList, progLab, Place(progList, n) + 1) = Reach(progList, progLab, r + 1)
      BY <1>1, <1>3, <2>0, <2>2, NextReach
    <3>3. r = n + 1
      BY <3>2, ProgFacts
    <3>4. ref[n] \in ToSet(list) /\ IsLabel(ref[n]) /\ labno[n] = prog[ref[n]][2] /\ ref[n] \in Node
      BY <1>1, <3>0, IterateFacts DEF Exact
    <3>5. Target(n) \in Node /\ IsLabel(Target(n)) /\ progLab[n] = prog[Target(n)][2]
      BY <1>1, <2>0, <3>0, TargetFacts DEF progLab
    <3>6. Reach(list, labno, CHOOSE k \in DOMAIN list : op(list[k]) = "LABEL" /\ labno[list[k]] = labno[n])
            = Reach(progList, progLab, ref[n] + 1)
      BY <1>1, <1>2, <3>4, LabelReach
    <3>7. Reach(progList, progLab,
                CHOOSE k \in DOMAIN progList : op(progList[k]) = "LABEL" /\ progLab[progList[k]] = progLab[n])
            = Reach(progList, progLab, Target(n) + 1)
      BY <1>1, <1>3, <3>5, LabelReach
    <3>8. ~ progNeg[n]
      BY <2>0 DEF progNeg
    <3> DEFINE tk == Reach(list, labno, CHOOSE k \in DOMAIN list : op(list[k]) = "LABEL" /\ labno[list[k]] = labno[n])
               on == Reach(list, labno, Place(list, n) + 1)
               tk0 == Reach(progList, progLab,
                CHOOSE k \in DOMAIN progList : op(progList[k]) = "LABEL" /\ progLab[progList[k]] = progLab[n])
               on0 == Reach(progList, progLab, Place(progList, n) + 1)
    <3>9. Succ(list, labno, neg, n) = IF neg[n] THEN <<on, tk>> ELSE <<tk, on>>
      BY <2>2 DEF Succ
    <3>10. Succ(progList, progLab, progNeg, n) = <<tk0, on0>>
      BY <2>2, <3>8 DEF Succ
    <3> HIDE DEF tk, on, tk0, on0
    <3>11. CASE neg[n]
      <4>1. Same(s, Target(n)) /\ Same(ref[n], r)
        BY <2>2, <3>1, <3>3, <3>11 DEF Flow
      <4>2. on = tk0 /\ tk = on0
        BY <1>1, <3>1, <3>2, <3>4, <3>5, <3>6, <3>7, <4>1, SameReach DEF tk, on, tk0, on0
      <4>3. QED
        BY <3>9, <3>10, <3>11, <4>2
    <3>12. CASE ~ neg[n]
      <4>1. Same(s, r) /\ Same(ref[n], Target(n))
        BY <2>2, <3>1, <3>3, <3>12 DEF Flow
      <4>2. on = on0 /\ tk = tk0
        BY <1>1, <3>1, <3>2, <3>4, <3>5, <3>6, <3>7, <4>1, SameReach DEF tk, on, tk0, on0
      <4>3. QED
        BY <3>9, <3>10, <3>12, <4>2
    <3>13. QED
      BY <3>11, <3>12
  <2>3. CASE op(n) = "GOTO*"
    <3>1. ASSUME NEW x \in InUse
          PROVE  Reach(list, labno, CHOOSE k \in DOMAIN list : op(list[k]) = "LABEL" /\ labno[list[k]] = x)
                 = Reach(progList, progLab,
                         CHOOSE k \in DOMAIN progList : op(progList[k]) = "LABEL" /\ progLab[progList[k]] = x)
      <4>1. PICK m \in Node : IsLabel(m) /\ prog[m][2] = x
        BY <1>1, <2>0, <2>3 DEF Shape
      <4>2. m \in ToSet(list)
        BY <1>1, <4>1 DEF Exact
      <4>3. Reach(list, labno, CHOOSE k \in DOMAIN list : op(list[k]) = "LABEL" /\ labno[list[k]] = x)
              = Reach(progList, progLab, m + 1)
        BY <1>1, <1>2, <4>1, <4>2, LabelReach
      <4>4. Reach(progList, progLab,
                  CHOOSE k \in DOMAIN progList : op(progList[k]) = "LABEL" /\ progLab[progList[k]] = x)
              = Reach(progList, progLab, m + 1)
        BY <1>1, <1>3, <4>1, LabelReach
      <4>5. QED
        BY <4>3, <4>4
    <3>2. Succ(list, labno, neg, n) =
            {Reach(list, labno, CHOOSE k \in DOMAIN list : op(list[k]) = "LABEL" /\ labno[list[k]] = x) : x \in InUse}
      BY <2>3 DEF Succ
    <3>3. Succ(progList, progLab, progNeg, n) =
            {Reach(progList, progLab,
                   CHOOSE k \in DOMAIN progList : op(progList[k]) = "LABEL" /\ progLab[progList[k]] = x) : x \in InUse}
      BY <2>3 DEF Succ
    <3>4. QED
      BY <3>1, <3>2, <3>3
  <2>4. CASE op(n) \notin {"STMT", "CBR", "GOTO*"}
    BY <2>4 DEF Succ
  <2>5. QED
    BY <2>1, <2>2, <2>3, <2>4
<1>6. QED
  BY <1>4, <1>5 DEF SameFlow

LEMMA StartMeans ==
  ASSUME RefInv, pc = "refcount"
  PROVE  SameFlow
<1>1. /\ list = progList /\ neg = progNeg
      /\ labno = progLab
  BY DEF RefInv, progLab
<1>2. QED
  BY <1>1 DEF SameFlow

-----------------------------------------------------------------------------
(* What does not matter to the flow.                                       *)
LEMMA RunSet ==
  ASSUME NEW l, NEW S, NEW i \in Int, NEW j \in Int, i <= j,
         \A k \in i .. j - 1 : l[k] \in S <=> l[k + 1] \in S
  PROVE  l[i] \in S <=> l[j] \in S
<1> DEFINE T == {n \in Nat : i + n <= j => (l[i] \in S <=> l[i + n] \in S)}
<1>1. 0 \in T
  <2>1. i + 0 = i
    OBVIOUS
  <2>2. QED
    BY <2>1
<1>2. ASSUME NEW n \in Nat, n \in T PROVE n + 1 \in T
  <2>1. SUFFICES ASSUME i + (n + 1) <= j PROVE l[i] \in S <=> l[i + (n + 1)] \in S
    OBVIOUS
  <2>2. i + n <= j /\ i + n \in i .. j - 1 /\ i + (n + 1) = (i + n) + 1
    BY <2>1
  <2>3. l[i + n] \in S <=> l[(i + n) + 1] \in S
    BY <2>2
  <2>4. l[i] \in S <=> l[i + n] \in S
    BY <1>2, <2>2
  <2>5. QED
    BY <2>2, <2>3, <2>4
<1> HIDE DEF T
<1>3. Nat \subseteq T
  BY <1>1, <1>2, SetInduction
<1>4. PICK n \in Nat : n = j - i
  OBVIOUS
<1>5. i + n = j /\ i + n <= j
  BY <1>4
<1>6. QED
  BY <1>3, <1>5 DEF T

(* The labels of a run are all in a set closed under Follow, or none is.   *)
LEMMA RunBoth ==
  ASSUME NEW l \in Lists, NEW i \in 1 .. Len(l), NEW j \in 1 .. Len(l), i <= j,
         \A k \in i .. j - 1 : op(l[k]) = "LABEL",
         NEW s, NEW t, NEW C, Both(s, t, C),
         \A x, y : Adj(l, x, y) /\ op(x) = "LABEL" /\ (op(y) = "LABEL" \/ s = l) => Adj(s, x, y),
         op(l[j]) = "LABEL" \/ s = l
  PROVE  l[i] \in C <=> l[j] \in C
<1>1. Len(l) \in Nat
  BY ListFacts
<1>2. ASSUME NEW k \in i .. j - 1 PROVE l[k] \in C <=> l[k + 1] \in C
  <2>1. k \in 1 .. Len(l) - 1 /\ (k + 1 \in i .. j - 1 \/ k + 1 = j)
    BY <1>1
  <2>2. Adj(l, l[k], l[k + 1])
    BY <2>1, AdjAt
  <2>3. op(l[k]) = "LABEL" /\ (op(l[k + 1]) = "LABEL" \/ s = l)
    BY <2>1
  <2>4. Adj(s, l[k], l[k + 1])
    BY <2>2, <2>3
  <2>5. Follow(s, t, l[k], l[k + 1])
    BY <2>3, <2>4 DEF Follow, Silent
  <2>6. QED
    BY <2>5 DEF Both
<1>3. i \in Int /\ j \in Int
  BY <1>1
<1>4. QED
  BY <1>2, <1>3, RunSet

LEMMA RunSame ==
  ASSUME NEW l \in Lists, NEW t, NEW ng, Flow(l, t, ng),
         NEW i \in 1 .. Len(l), NEW j \in 1 .. Len(l), i <= j,
         \A k \in i .. j - 1 : op(l[k]) = "LABEL"
  PROVE  Same(l[i], l[j])
<1>1. ASSUME NEW x \in Finals PROVE l[i] \in D(x) <=> l[j] \in D(x)
  <2>1. Both(l, t, D(x))
    BY DEF Flow, Same, Both
  <2>2. QED
    BY <2>1, RunBoth
<1>2. QED
  BY <1>1 DEF Same

LEMMA FlowSame ==
  ASSUME NEW l, NEW s, NEW t, NEW ng, Flow(l, t, ng), ToSet(s) = ToSet(l),
         \A x, y : Adj(s, x, y) <=> Adj(l, x, y)
  PROVE  Flow(s, t, ng)
<1>1. \A m, n : Follow(s, t, m, n) <=> Follow(l, t, m, n)
  BY DEF Follow
<1>2. \A C : Both(s, t, C) <=> Both(l, t, C)
  BY <1>1 DEF Both
<1>3. QED
  BY <1>1, <1>2 DEF Flow

LEMMA LessCommutes ==
  ASSUME NEW l \in Lists, NEW a \in ToSet(l), NEW b \in ToSet(l), a # b,
         a # 0, a # MaxLen + 1, b # 0, b # MaxLen + 1
  PROVE  /\ ToSet(Less(Less(l, a), b)) = ToSet(Less(Less(l, b), a))
         /\ \A x, y : Adj(Less(Less(l, a), b), x, y) <=> Adj(Less(Less(l, b), a), x, y)
<1>1. /\ Less(l, a) \in Lists /\ ToSet(Less(l, a)) = ToSet(l) \ {a}
      /\ \A x, y : Adj(Less(l, a), x, y) <=> \/ x # a /\ y # a /\ Adj(l, x, y)
                                             \/ Adj(l, x, a) /\ Adj(l, a, y)
  BY LessFacts
<1>2. /\ Less(l, b) \in Lists /\ ToSet(Less(l, b)) = ToSet(l) \ {b}
      /\ \A x, y : Adj(Less(l, b), x, y) <=> \/ x # b /\ y # b /\ Adj(l, x, y)
                                             \/ Adj(l, x, b) /\ Adj(l, b, y)
  BY LessFacts
<1>3. PICK s \in Lists : s = Less(l, a)
  BY <1>1
<1>4. PICK t \in Lists : t = Less(l, b)
  BY <1>2
<1>5. /\ ToSet(Less(s, b)) = ToSet(s) \ {b}
      /\ \A x, y : Adj(Less(s, b), x, y) <=> \/ x # b /\ y # b /\ Adj(s, x, y)
                                             \/ Adj(s, x, b) /\ Adj(s, b, y)
  <2>1. b \in ToSet(s)
    BY <1>1, <1>3
  <2>2. QED
    BY <2>1, LessFacts
<1>6. /\ ToSet(Less(t, a)) = ToSet(t) \ {a}
      /\ \A x, y : Adj(Less(t, a), x, y) <=> \/ x # a /\ y # a /\ Adj(t, x, y)
                                             \/ Adj(t, x, a) /\ Adj(t, a, y)
  <2>1. a \in ToSet(t)
    BY <1>2, <1>4
  <2>2. QED
    BY <2>1, LessFacts
<1>7. ~ (Adj(l, a, b) /\ Adj(l, b, a)) /\ ~ Adj(l, a, a) /\ ~ Adj(l, b, b)
  <2>1. ASSUME Adj(l, a, b), Adj(l, b, a) PROVE FALSE
    <3>1. Place(l, b) = Place(l, a) + 1 /\ Place(l, a) = Place(l, b) + 1
      BY <2>1, AdjFacts
    <3>2. Place(l, a) \in 1 .. Len(l) /\ Place(l, b) \in 1 .. Len(l)
      BY PlaceFacts
    <3>3. QED
      BY <3>1, <3>2
  <2>2. QED
    BY <2>1, AdjFacts
<1>8. \A x, y : Adj(s, x, y) <=> \/ x # a /\ y # a /\ Adj(l, x, y)
                                 \/ Adj(l, x, a) /\ Adj(l, a, y)
  BY <1>1, <1>3
<1>9. \A x, y : Adj(t, x, y) <=> \/ x # b /\ y # b /\ Adj(l, x, y)
                                 \/ Adj(l, x, b) /\ Adj(l, b, y)
  BY <1>2, <1>4
<1>10. ASSUME NEW x, NEW y PROVE Adj(Less(s, b), x, y) <=> Adj(Less(t, a), x, y)
  <2>1. Adj(Less(s, b), x, y) <=> \/ x # b /\ y # b /\ Adj(s, x, y)
                                  \/ Adj(s, x, b) /\ Adj(s, b, y)
    BY <1>5
  <2>2. Adj(Less(t, a), x, y) <=> \/ x # a /\ y # a /\ Adj(t, x, y)
                                  \/ Adj(t, x, a) /\ Adj(t, a, y)
    BY <1>6
  <2>3. /\ Adj(s, x, y) <=> \/ x # a /\ y # a /\ Adj(l, x, y)
                            \/ Adj(l, x, a) /\ Adj(l, a, y)
        /\ Adj(s, x, b) <=> \/ x # a /\ b # a /\ Adj(l, x, b)
                            \/ Adj(l, x, a) /\ Adj(l, a, b)
        /\ Adj(s, b, y) <=> \/ b # a /\ y # a /\ Adj(l, b, y)
                            \/ Adj(l, b, a) /\ Adj(l, a, y)
    BY <1>8
  <2>4. /\ Adj(t, x, y) <=> \/ x # b /\ y # b /\ Adj(l, x, y)
                            \/ Adj(l, x, b) /\ Adj(l, b, y)
        /\ Adj(t, x, a) <=> \/ x # b /\ a # b /\ Adj(l, x, a)
                            \/ Adj(l, x, b) /\ Adj(l, b, a)
        /\ Adj(t, a, y) <=> \/ a # b /\ y # b /\ Adj(l, a, y)
                            \/ Adj(l, a, b) /\ Adj(l, b, y)
    BY <1>9
  <2>5. QED
    BY <1>7, <2>1, <2>2, <2>3, <2>4
<1>11. QED
  BY <1>1, <1>2, <1>3, <1>4, <1>5, <1>6, <1>10

-----------------------------------------------------------------------------
(* The edits that keep the flow.                                           *)
Complete(l, t) ==
  \A x \in Finals : \A C : Both(l, t, C) /\ (x \in ToSet(l) => x \in C) =>
    \A m \in ToSet(l) : m \in D(x) => m \in C

(* A jump is redirected to where its old target leads.                     *)
LEMMA Retarget ==
  ASSUME NEW l \in Lists, NEW t, NEW ng, Flow(l, t, ng), NEW t2,
         \A n \in ToSet(l) : IsJump(n) => Same(t[n], t2[n]),
         \A n \in ToSet(l) : op(n) = "JBR" =>
            \A C : Both(l, t2, C) => (t[n] \in C <=> t2[n] \in C)
  PROVE  Flow(l, t2, ng)
<1>1. ASSUME NEW m, NEW n, Follow(l, t2, m, n) PROVE Same(m, n)
  <2>1. CASE Silent(m) /\ Adj(l, m, n)
    BY <2>1 DEF Follow, Flow
  <2>2. CASE m \in ToSet(l) /\ op(m) = "JBR" /\ n = t2[m]
    <3>1. Follow(l, t, m, t[m]) /\ IsJump(m)
      BY <2>2 DEF Follow, IsJump
    <3>2. Same(m, t[m]) /\ Same(t[m], t2[m])
      BY <2>2, <3>1 DEF Flow
    <3>3. QED
      BY <2>2, <3>2, SameEq
  <2>3. QED
    BY <1>1, <2>1, <2>2 DEF Follow
<1>2. \A n, s : op(n) = "STMT" /\ Adj(l, n, s) => Same(s, n + 1)
  BY DEF Flow
<1>3. ASSUME NEW n, NEW s, op(n) = "CBR", Adj(l, n, s)
      PROVE  IF ng[n] THEN Same(s, Target(n)) /\ Same(t2[n], n + 1)
             ELSE Same(s, n + 1) /\ Same(t2[n], Target(n))
  <2>1. n \in ToSet(l) /\ IsJump(n)
    BY <1>3, AdjFacts DEF IsJump
  <2>2. Same(t2[n], t[n])
    BY <2>1, SameEq
  <2>3. IF ng[n] THEN Same(s, Target(n)) /\ Same(t[n], n + 1)
        ELSE Same(s, n + 1) /\ Same(t[n], Target(n))
    BY <1>3 DEF Flow
  <2>4. QED
    BY <2>2, <2>3, SameEq
<1>4. Complete(l, t2)
  <2>1. ASSUME NEW C, Both(l, t2, C) PROVE Both(l, t, C)
    <3>1. ASSUME NEW m, NEW n, Follow(l, t, m, n) PROVE m \in C <=> n \in C
      <4>1. CASE Silent(m) /\ Adj(l, m, n)
        BY <2>1, <4>1 DEF Both, Follow
      <4>2. CASE m \in ToSet(l) /\ op(m) = "JBR" /\ n = t[m]
        <5>1. m \in C <=> t2[m] \in C
          BY <2>1, <4>2 DEF Both, Follow
        <5>2. QED
          BY <2>1, <4>2, <5>1
      <4>3. QED
        BY <3>1, <4>1, <4>2 DEF Follow
    <3>2. QED
      BY <3>1 DEF Both
  <2>2. QED
    BY <2>1 DEF Complete, Flow
<1>5. QED
  BY <1>1, <1>2, <1>3, <1>4 DEF Flow, Complete

(* A label no jump goes to is removed.                                     *)
LEMMA RemoveLabel ==
  ASSUME Shape, NEW l \in Lists, NEW t, NEW ng, Flow(l, t, ng),
         NEW k \in ToSet(l), IsLabel(k),
         \A n \in ToSet(l) : op(n) = "JBR" => t[n] # k
  PROVE  Flow(Less(l, k), t, ng)
<1>0. k # 0 /\ k # MaxLen + 1
  BY NodesFinite DEF Shape, IsLabel
<1>1. PICK s \in Lists : s = Less(l, k)
  BY <1>0, LessFacts
<1>2. /\ ToSet(s) = ToSet(l) \ {k}
      /\ \A x, y : Adj(s, x, y) <=> \/ x # k /\ y # k /\ Adj(l, x, y)
                                    \/ Adj(l, x, k) /\ Adj(l, k, y)
  BY <1>0, <1>1, LessFacts
<1>3. Silent(k) /\ op(k) = "LABEL"
  BY DEF Silent, IsLabel
<1>4. \A y : Adj(l, k, y) => Same(k, y)
  BY <1>3 DEF Flow, Follow
<1>5. ASSUME NEW m, NEW n, Follow(s, t, m, n) PROVE Same(m, n)
  <2>1. CASE Silent(m) /\ m # k /\ n # k /\ Adj(l, m, n)
    BY <2>1 DEF Follow, Flow
  <2>2. CASE Silent(m) /\ Adj(l, m, k) /\ Adj(l, k, n)
    <3>1. Same(m, k)
      BY <2>2 DEF Follow, Flow
    <3>2. QED
      BY <1>4, <2>2, <3>1, SameEq
  <2>3. CASE m \in ToSet(s) /\ op(m) = "JBR" /\ n = t[m]
    BY <1>2, <2>3 DEF Follow, Flow
  <2>4. QED
    BY <1>2, <1>5, <2>1, <2>2, <2>3 DEF Follow
<1>6. ASSUME NEW n, NEW y, op(n) = "STMT", Adj(s, n, y) PROVE Same(y, n + 1)
  <2>1. CASE Adj(l, n, y)
    BY <1>6, <2>1 DEF Flow
  <2>2. CASE Adj(l, n, k) /\ Adj(l, k, y)
    <3>1. Same(k, n + 1)
      BY <1>6, <2>2 DEF Flow
    <3>2. QED
      BY <1>4, <2>2, <3>1, SameEq
  <2>3. QED
    BY <1>2, <1>6, <2>1, <2>2
<1>7. ASSUME NEW n, NEW y, op(n) = "CBR", Adj(s, n, y)
      PROVE  IF ng[n] THEN Same(y, Target(n)) /\ Same(t[n], n + 1)
             ELSE Same(y, n + 1) /\ Same(t[n], Target(n))
  <2>1. CASE Adj(l, n, y)
    BY <1>7, <2>1 DEF Flow
  <2>2. CASE Adj(l, n, k) /\ Adj(l, k, y)
    <3>1. IF ng[n] THEN Same(k, Target(n)) /\ Same(t[n], n + 1)
          ELSE Same(k, n + 1) /\ Same(t[n], Target(n))
      BY <1>7, <2>2 DEF Flow
    <3>2. QED
      BY <1>4, <2>2, <3>1, SameEq
  <2>3. QED
    BY <1>2, <1>7, <2>1, <2>2
<1>8. ASSUME NEW x \in Finals, NEW C, Both(s, t, C), x \in ToSet(s) => x \in C,
             NEW m \in ToSet(s), m \in D(x)
      PROVE  m \in C
  <2> DEFINE E == {c \in C \cup {k} : IF c = k THEN \E y \in C : Adj(l, k, y) ELSE TRUE}
  <2>1. \A c : c # k => (c \in E <=> c \in C)
    OBVIOUS
  <2>2. k \in E <=> \E y \in C : Adj(l, k, y)
    OBVIOUS
  <2> HIDE DEF E
  <2>3. ASSUME NEW a, NEW b, Follow(l, t, a, b) PROVE a \in E <=> b \in E
    <3>1. CASE Silent(a) /\ Adj(l, a, b)
      <4>1. a # b /\ \A y : Adj(l, a, y) => y = b
        BY <3>1, AdjFacts
      <4>2. CASE a = k
        BY <2>1, <2>2, <3>1, <4>1, <4>2
      <4>3. CASE a # k /\ b = k
        <5>1. b # MaxLen + 1 /\ b \in ToSet(l)
          BY <1>0, <4>3
        <5>2. PICK y : Adj(l, b, y)
          <6>1. Place(l, b) \in 1 .. Len(l) /\ l[Place(l, b)] = b /\ l[Len(l)] = MaxLen + 1 /\ Len(l) \in Nat
            BY <5>1, ListFacts, PlaceFacts
          <6>2. Place(l, b) # Len(l)
            BY <5>1, <6>1
          <6>3. Place(l, b) \in 1 .. Len(l) - 1
            BY <6>1, <6>2
          <6>4. QED
            BY <6>1, <6>3, AdjAt
        <5>3. Adj(s, a, y)
          BY <1>2, <3>1, <4>3, <5>2
        <5>4. a \in C <=> y \in C
          BY <1>8, <3>1, <5>3 DEF Both, Follow
        <5>5. \A z : Adj(l, b, z) => z = y
          BY <5>2, AdjFacts
        <5>6. QED
          BY <2>1, <2>2, <4>3, <5>2, <5>4, <5>5
      <4>4. CASE a # k /\ b # k
        BY <1>2, <1>8, <2>1, <3>1, <4>4 DEF Both, Follow
      <4>5. QED
        BY <4>2, <4>3, <4>4
    <3>2. CASE a \in ToSet(l) /\ op(a) = "JBR" /\ b = t[a]
      <4>1. a # k /\ b # k /\ a \in ToSet(s)
        BY <1>2, <1>3, <3>2
      <4>2. QED
        BY <1>8, <2>1, <3>2, <4>1 DEF Both, Follow
    <3>3. QED
      BY <2>3, <3>1, <3>2 DEF Follow
  <2>4. Both(l, t, E)
    BY <2>3 DEF Both
  <2>5. x # k
    BY <1>3 DEF Finals
  <2>6. x \in ToSet(l) => x \in E
    BY <1>2, <1>8, <2>1, <2>5
  <2>7. m \in ToSet(l) /\ m # k
    BY <1>2
  <2>8. m \in E
    BY <1>8, <2>4, <2>6, <2>7 DEF Flow
  <2>9. QED
    BY <2>1, <2>7, <2>8
<1>9. Flow(s, t, ng)
  BY <1>5, <1>6, <1>7, <1>8 DEF Flow
<1>10. QED
  BY <1>1, <1>9

(* A statement behind a jump is removed.                                   *)
LEMMA RemoveDead ==
  ASSUME Shape, NEW l \in Lists, NEW t, NEW ng, Flow(l, t, ng),
         \A n \in ToSet(l) : IsJump(n) => IsLabel(t[n]),
         NEW d \in Finals, d # MaxLen + 1, NEW b, Adj(l, b, d), op(b) = "JBR"
  PROVE  Flow(Less(l, d), t, ng)
<1>0. d # 0 /\ d \in ToSet(l)
  BY NodesFinite, AdjFacts DEF Shape, Finals, Silent
<1>1. PICK s \in Lists : s = Less(l, d)
  BY <1>0, LessFacts
<1>2. /\ ToSet(s) = ToSet(l) \ {d}
      /\ \A x, y : Adj(s, x, y) <=> \/ x # d /\ y # d /\ Adj(l, x, y)
                                    \/ Adj(l, x, d) /\ Adj(l, d, y)
  BY <1>0, <1>1, LessFacts
<1>3. \A x : Adj(l, x, d) => x = b
  BY AdjFacts
<1>4. ~ Silent(d) /\ op(d) # "JBR" /\ ~ IsLabel(d) /\ ~ Silent(b)
  BY DEF Finals, Silent, IsLabel
<1>5. \A x, y : Adj(s, x, y) /\ op(x) # "JBR" => Adj(l, x, y)
  BY <1>2, <1>3
<1>6. \A x : Silent(x) => op(x) # "JBR"
  BY DEF Silent
<1>7. ASSUME NEW m, NEW n, Follow(s, t, m, n) PROVE Same(m, n)
  <2>1. Follow(l, t, m, n)
    BY <1>2, <1>5, <1>6, <1>7 DEF Follow
  <2>2. QED
    BY <2>1 DEF Flow
<1>8. \A n, y : op(n) = "STMT" /\ Adj(s, n, y) => Same(y, n + 1)
  BY <1>5 DEF Flow
<1>9. ASSUME NEW n, NEW y, op(n) = "CBR", Adj(s, n, y)
      PROVE  IF ng[n] THEN Same(y, Target(n)) /\ Same(t[n], n + 1)
             ELSE Same(y, n + 1) /\ Same(t[n], Target(n))
  BY <1>5, <1>9 DEF Flow
<1>10. ASSUME NEW x \in Finals, NEW C, Both(s, t, C), x \in ToSet(s) => x \in C,
              NEW m \in ToSet(s), m \in D(x)
       PROVE  m \in C
  <2>1. ASSUME NEW a, NEW c, Follow(l, t, a, c) PROVE a \in C \cup {d} <=> c \in C \cup {d}
    <3>1. CASE Silent(a) /\ Adj(l, a, c)
      BY <1>2, <1>3, <1>4, <1>10, <3>1 DEF Both, Follow
    <3>2. CASE a \in ToSet(l) /\ op(a) = "JBR" /\ c = t[a]
      <4>1. IsLabel(c) /\ a # d
        BY <1>4, <3>2 DEF IsJump
      <4>2. QED
        BY <1>2, <1>4, <1>10, <3>2, <4>1 DEF Both, Follow
    <3>3. QED
      BY <2>1, <3>1, <3>2 DEF Follow
  <2>2. Both(l, t, C \cup {d})
    BY <2>1 DEF Both
  <2>3. x \in ToSet(l) => x \in C \cup {d}
    BY <1>2, <1>10
  <2>4. m \in C \cup {d}
    BY <1>2, <1>10, <2>2, <2>3 DEF Flow
  <2>5. QED
    BY <1>2, <2>4
<1>11. Flow(s, t, ng)
  BY <1>7, <1>8, <1>9, <1>10 DEF Flow
<1>12. QED
  BY <1>1, <1>11

(* Jump g goes; what came to it comes to q, which leads where g jumped.    *)
LEMMA ReplaceJump ==
  ASSUME Shape, NEW l \in Lists, NEW t, NEW ng, Flow(l, t, ng),
         \A n \in ToSet(l) : IsJump(n) => IsLabel(t[n]),
         NEW g \in ToSet(l), op(g) = "JBR", NEW q, NEW s \in Lists,
         ToSet(s) = ToSet(l) \ {g},
         \A x, y : Adj(s, x, y) => \/ x # g /\ y # g /\ Adj(l, x, y)
                                   \/ Adj(l, x, g) /\ y = q
                                   \/ op(x) = "JBR",
         \A x, y : Adj(l, x, y) /\ x # g /\ y # g /\ op(x) # "JBR" => Adj(s, x, y),
         \A x : Adj(l, x, g) /\ op(x) # "JBR" => Adj(s, x, q),
         Same(q, t[g]),
         \A C : Both(s, t, C) => (q \in C <=> t[g] \in C)
  PROVE  Flow(s, t, ng)
<1>1. Same(g, t[g]) /\ t[g] # g /\ ~ Silent(g)
  <2>1. IsJump(g) /\ Follow(l, t, g, t[g])
    BY DEF IsJump, Follow
  <2>2. QED
    BY <2>1 DEF Flow, IsLabel, Silent
<1>2. Same(q, g) /\ Same(g, q)
  BY <1>1, SameEq
<1>3. \A x : Silent(x) => op(x) # "JBR"
  BY DEF Silent
<1>4. ASSUME NEW m, NEW n, Follow(s, t, m, n) PROVE Same(m, n)
  <2>1. CASE Silent(m) /\ Adj(l, m, n)
    BY <2>1 DEF Follow, Flow
  <2>2. CASE Silent(m) /\ Adj(l, m, g) /\ n = q
    <3>1. Same(m, g)
      BY <2>2 DEF Follow, Flow
    <3>2. QED
      BY <1>2, <2>2, <3>1, SameEq
  <2>3. CASE m \in ToSet(s) /\ op(m) = "JBR" /\ n = t[m]
    BY <2>3 DEF Follow, Flow
  <2>4. QED
    BY <1>3, <1>4, <2>1, <2>2, <2>3 DEF Follow
<1>5. ASSUME NEW n, NEW y, op(n) = "STMT", Adj(s, n, y) PROVE Same(y, n + 1)
  <2>1. CASE Adj(l, n, y)
    BY <1>5, <2>1 DEF Flow
  <2>2. CASE Adj(l, n, g) /\ y = q
    <3>1. Same(g, n + 1)
      BY <1>5, <2>2 DEF Flow
    <3>2. QED
      BY <1>2, <2>2, <3>1, SameEq
  <2>3. QED
    BY <1>5, <2>1, <2>2
<1>6. ASSUME NEW n, NEW y, op(n) = "CBR", Adj(s, n, y)
      PROVE  IF ng[n] THEN Same(y, Target(n)) /\ Same(t[n], n + 1)
             ELSE Same(y, n + 1) /\ Same(t[n], Target(n))
  <2>1. CASE Adj(l, n, y)
    BY <1>6, <2>1 DEF Flow
  <2>2. CASE Adj(l, n, g) /\ y = q
    <3>1. IF ng[n] THEN Same(g, Target(n)) /\ Same(t[n], n + 1)
          ELSE Same(g, n + 1) /\ Same(t[n], Target(n))
      BY <1>6, <2>2 DEF Flow
    <3>2. QED
      BY <1>2, <2>2, <3>1, SameEq
  <2>3. QED
    BY <1>6, <2>1, <2>2
<1>7. ASSUME NEW x \in Finals, NEW C, Both(s, t, C), x \in ToSet(s) => x \in C,
             NEW m \in ToSet(s), m \in D(x)
      PROVE  m \in C
  <2> DEFINE E == {c \in C \cup {g} : c = g => t[g] \in C}
  <2>1. (\A c : c # g => (c \in E <=> c \in C)) /\ (g \in E <=> t[g] \in C)
    OBVIOUS
  <2> HIDE DEF E
  <2>2. q \in C <=> t[g] \in C
    BY <1>7
  <2>3. ASSUME NEW a, NEW b, Follow(l, t, a, b) PROVE a \in E <=> b \in E
    <3>1. CASE Silent(a) /\ Adj(l, a, b)
      <4>1. a # g /\ op(a) # "JBR"
        BY <1>1, <1>3, <3>1
      <4>2. CASE b = g
        <5>1. Adj(s, a, q)
          BY <3>1, <4>1, <4>2
        <5>2. a \in C <=> q \in C
          BY <1>7, <3>1, <5>1 DEF Both, Follow
        <5>3. QED
          BY <2>1, <2>2, <4>1, <4>2, <5>2
      <4>3. CASE b # g
        <5>1. Adj(s, a, b)
          BY <3>1, <4>1, <4>3
        <5>2. QED
          BY <1>7, <2>1, <3>1, <4>1, <4>3, <5>1 DEF Both, Follow
      <4>4. QED
        BY <4>2, <4>3
    <3>2. CASE a \in ToSet(l) /\ op(a) = "JBR" /\ b = t[a]
      <4>1. IsLabel(b) /\ b # g
        BY <3>2 DEF IsJump, IsLabel
      <4>2. CASE a = g
        BY <2>1, <3>2, <4>1, <4>2
      <4>3. CASE a # g
        BY <1>7, <2>1, <3>2, <4>1, <4>3 DEF Both, Follow
      <4>4. QED
        BY <4>2, <4>3
    <3>3. QED
      BY <2>3, <3>1, <3>2 DEF Follow
  <2>4. Both(l, t, E)
    BY <2>3 DEF Both
  <2>5. x # g
    BY DEF Finals
  <2>6. x \in ToSet(l) => x \in E
    BY <1>7, <2>1, <2>5
  <2>7. m \in ToSet(l) /\ m # g
    OBVIOUS
  <2>8. m \in E
    BY <1>7, <2>4, <2>6, <2>7 DEF Flow
  <2>9. QED
    BY <2>1, <2>7, <2>8
<1>8. QED
  BY <1>4, <1>5, <1>6, <1>7 DEF Flow

(* Branch g over jump j takes the target of j, and j goes; c stands behind *)
(* j and leads where g branched to.                                        *)
LEMMA TurnBranch ==
  ASSUME Shape, NEW l \in Lists, NEW t \in [Node -> Node \cup {NIL}], NEW ng \in [Node -> BOOLEAN],
         Flow(l, t, ng),
         \A n \in ToSet(l) : IsJump(n) => IsLabel(t[n]),
         NEW g \in ToSet(l), op(g) = "CBR", NEW j, op(j) = "JBR", Adj(l, g, j),
         NEW c, Adj(l, j, c), Same(c, t[g])
  PROVE  Flow(Less(l, j), [t EXCEPT ![g] = t[j]], [ng EXCEPT ![g] = ~ @])
<1> DEFINE t2 == [t EXCEPT ![g] = t[j]]
           ng2 == [ng EXCEPT ![g] = ~ @]
<1>0. /\ j \in ToSet(l) /\ j # 0 /\ j # MaxLen + 1 /\ g # j /\ g \in Node /\ j \in Node
      /\ \A x : Adj(l, x, j) => x = g
      /\ \A y : Adj(l, j, y) => y = c
      /\ \A y : Adj(l, g, y) => y = j
  <2>1. ToSet(l) \subseteq Node
    BY ListFacts
  <2>2. QED
    BY <2>1, NodesFinite, AdjFacts DEF Shape
<1>1. PICK s \in Lists : s = Less(l, j)
  BY <1>0, LessFacts
<1>2. /\ ToSet(s) = ToSet(l) \ {j}
      /\ \A x, y : Adj(s, x, y) <=> \/ x # j /\ y # j /\ Adj(l, x, y)
                                    \/ Adj(l, x, j) /\ Adj(l, j, y)
  BY <1>0, <1>1, LessFacts
<1>3. \A x, y : Adj(s, x, y) => (x # g /\ Adj(l, x, y)) \/ (x = g /\ y = c)
  BY <1>0, <1>2
<1>4. /\ t2[g] = t[j] /\ ng2[g] = ~ ng[g]
      /\ \A n \in Node : n # g => t2[n] = t[n] /\ ng2[n] = ng[n]
  BY <1>0
<1>5. ToSet(l) \subseteq Node
  BY ListFacts
<1> HIDE DEF t2, ng2
<1>6. ~ Silent(g) /\ ~ Silent(j) /\ op(g) # "JBR"
  BY DEF Silent
<1>7. Same(j, t[j]) /\ IsLabel(t[j])
  BY <1>0 DEF Flow, Follow, IsJump
<1>8. ASSUME NEW m, NEW n, Follow(s, t2, m, n) PROVE Same(m, n)
  <2>1. Follow(l, t, m, n)
    BY <1>2, <1>3, <1>4, <1>5, <1>6, <1>8 DEF Follow
  <2>2. QED
    BY <2>1 DEF Flow
<1>9. \A n, y : op(n) = "STMT" /\ Adj(s, n, y) => Same(y, n + 1)
  BY <1>3 DEF Flow
<1>10. ASSUME NEW n, NEW y, op(n) = "CBR", Adj(s, n, y)
       PROVE  IF ng2[n] THEN Same(y, Target(n)) /\ Same(t2[n], n + 1)
              ELSE Same(y, n + 1) /\ Same(t2[n], Target(n))
  <2>1. CASE n # g
    <3>1. Adj(l, n, y) /\ n \in Node
      <4>1. Adj(l, n, y)
        BY <1>3, <1>10, <2>1
      <4>2. n \in ToSet(l)
        BY <4>1, AdjFacts
      <4>3. QED
        BY <1>5, <4>1, <4>2
    <3>2. t2[n] = t[n] /\ ng2[n] = ng[n]
      BY <1>4, <2>1, <3>1
    <3>3. QED
      BY <1>10, <3>1, <3>2 DEF Flow
  <2>2. CASE n = g
    <3>1. y = c /\ Same(c, t[g]) /\ Same(j, t[j])
      BY <1>3, <1>7, <1>10, <2>2
    <3>2. IF ng[g] THEN Same(j, Target(g)) /\ Same(t[g], g + 1)
          ELSE Same(j, g + 1) /\ Same(t[g], Target(g))
      BY DEF Flow
    <3>3. IF ng[g] THEN Same(c, g + 1) /\ Same(t[j], Target(g))
          ELSE Same(c, Target(g)) /\ Same(t[j], g + 1)
      BY <3>1, <3>2, SameEq
    <3>4. ng[g] \in BOOLEAN
      BY <1>0
    <3>5. QED
      BY <1>4, <2>2, <3>1, <3>3, <3>4
  <2>3. QED
    BY <2>1, <2>2
<1>11. ASSUME NEW x \in Finals, NEW C, Both(s, t2, C), x \in ToSet(s) => x \in C,
              NEW m \in ToSet(s), m \in D(x)
       PROVE  m \in C
  <2> DEFINE E == {e \in C \cup {j} : e = j => t[j] \in C}
  <2>1. (\A e : e # j => (e \in E <=> e \in C)) /\ (j \in E <=> t[j] \in C)
    OBVIOUS
  <2> HIDE DEF E
  <2>2. ASSUME NEW a, NEW b, Follow(l, t, a, b) PROVE a \in E <=> b \in E
    <3>1. CASE Silent(a) /\ Adj(l, a, b)
      <4>1. a # j /\ b # j
        BY <1>0, <1>6, <3>1
      <4>2. Adj(s, a, b)
        BY <1>2, <3>1, <4>1
      <4>3. QED
        BY <1>11, <2>1, <3>1, <4>1, <4>2 DEF Both, Follow
    <3>2. CASE a \in ToSet(l) /\ op(a) = "JBR" /\ b = t[a]
      <4>1. IsLabel(b) /\ b # j
        BY <3>2 DEF IsJump, IsLabel
      <4>2. CASE a = j
        BY <2>1, <3>2, <4>1, <4>2
      <4>3. CASE a # j
        <5>1. a # g /\ a \in Node
          BY <1>5, <3>2
        <5>2. t2[a] = b /\ a \in ToSet(s)
          BY <1>2, <1>4, <3>2, <4>3, <5>1
        <5>3. QED
          BY <1>11, <2>1, <3>2, <4>1, <4>3, <5>2 DEF Both, Follow
      <4>4. QED
        BY <4>2, <4>3
    <3>3. QED
      BY <2>2, <3>1, <3>2 DEF Follow
  <2>3. Both(l, t, E)
    BY <2>2 DEF Both
  <2>4. x # j
    BY DEF Finals
  <2>5. x \in ToSet(l) => x \in E
    BY <1>2, <1>11, <2>1, <2>4
  <2>6. m \in ToSet(l) /\ m # j
    BY <1>2
  <2>7. m \in E
    BY <1>11, <2>3, <2>5, <2>6 DEF Flow
  <2>8. QED
    BY <2>1, <2>6, <2>7
<1>12. Flow(s, t2, ng2)
  BY <1>8, <1>9, <1>10, <1>11 DEF Flow
<1>13. QED
  BY <1>1, <1>12 DEF t2, ng2

(* After x also a label goes, if the last jump to it has gone.             *)
LEMMA DropBoth ==
  ASSUME Shape, NEW l \in Lists, NEW t, NEW ng,
         NEW x \in ToSet(l), x # 0, x # MaxLen + 1, NEW r \in ToSet(l), IsLabel(r), x # r,
         Flow(Less(l, x), t, ng),
         refc[r] <= 1 => \A n \in ToSet(l) : n # x /\ op(n) = "JBR" => t[n] # r
  PROVE  Flow(Less(decref(l, r), x), t, ng)
<1>1. CASE refc[r] <= 1
  <2>1. r # 0 /\ r # MaxLen + 1
    BY NodesFinite DEF Shape, IsLabel
  <2>2. PICK s \in Lists : s = Less(l, x)
    BY LessFacts
  <2>3. ToSet(s) = ToSet(l) \ {x}
    BY <2>2, LessFacts
  <2>4. r \in ToSet(s) /\ \A n \in ToSet(s) : op(n) = "JBR" => t[n] # r
    BY <1>1, <2>3
  <2>5. Flow(Less(s, r), t, ng)
    BY <2>2, <2>4, RemoveLabel
  <2>6. Flow(Less(Less(l, x), r), t, ng)
    BY <2>2, <2>5
  <2>7. /\ ToSet(Less(Less(l, r), x)) = ToSet(Less(Less(l, x), r))
        /\ \A a, b : Adj(Less(Less(l, r), x), a, b) <=> Adj(Less(Less(l, x), r), a, b)
    BY <2>1, LessCommutes
  <2>8. Flow(Less(Less(l, r), x), t, ng)
    BY <2>6, <2>7, FlowSame
  <2>9. QED
    BY <1>1, <2>8 DEF decref
<1>2. CASE ~ (refc[r] <= 1)
  BY <1>2 DEF decref
<1>3. QED
  BY <1>1, <1>2

-----------------------------------------------------------------------------
(* The steps keep the flow.                                                *)
FlowInv == pc # "refcount" => Flow(list, ref, neg)

LEMMA LaterReach ==
  ASSUME prog' = prog
  PROVE  \A l, lab, i : Reach(l, lab, i)' = Reach(l, lab, i)
<1> TAKE l, lab, i
<1> QED
  BY SMT DEF Reach, op

LEMMA LaterSame ==
  ASSUME prog' = prog
  PROVE  /\ Finals' = Finals
         /\ \A m, n : Same(m, n)' <=> Same(m, n)
         /\ \A x, m : (m \in D(x))' <=> m \in D(x)
<1>1. Finals' = Finals
  BY DEF Finals, Silent, op
<1>2. \A l, lab, i : Reach(l, lab, i)' = Reach(l, lab, i)
  BY LaterReach
<1>3. progLab' = progLab /\ progList' = progList
  BY DEF progLab, progList
<1>4. \A x : D(x)' = D(x)
  BY <1>2, <1>3 DEF D, Leads
<1>5. QED
  BY <1>1, <1>4 DEF Same

LEMMA LaterFlow ==
  ASSUME prog' = prog, Flow(list', ref', neg')
  PROVE  Flow(list, ref, neg)'
<1>1. \A n : op(n)' = op(n)
  BY DEF op
<1>2. \A n : Target(n)' = Target(n)
  BY <1>1 DEF Target, IsLabel
<1>3. /\ Finals' = Finals
      /\ \A m, n : Same(m, n)' <=> Same(m, n)
      /\ \A x, m : (m \in D(x))' <=> m \in D(x)
  BY LaterSame
<1>4. \A l, t, m, n : Follow(l, t, m, n)' <=> Follow(l, t, m, n)
  BY <1>1 DEF Follow, Silent
<1>5. \A l, t, C : Both(l, t, C)' <=> Both(l, t, C)
  BY <1>4 DEF Both
<1>6. QED
  BY <1>1, <1>2, <1>3, <1>4, <1>5 DEF Flow

(* 1.  jumps to jumps *)
LEMMA ThreadFlow ==
  ASSUME RefInv, FlowInv, Thread
  PROVE  FlowInv'
<1>0. pc = "iterate" /\ pc # "refcount" /\ CanThread
  BY DEF Thread, CanThread, Body
<1> DEFINE q == nonlab(ref[p])
           a == AfterLabels(At(ref[p]))
<1>1. /\ q \in ToSet(list) /\ op(q) = "JBR" /\ q # p /\ IsJump(q) /\ IsJump(p) /\ ref[q] # ref[p]
      /\ a \in At(ref[p]) .. Len(list) /\ q = list[a]
      /\ \A k \in At(ref[p]) .. a - 1 : op(list[k]) = "LABEL"
  BY <1>0, ThreadFacts
<1>2. /\ Shape /\ Exact(list, labno, ref, refc) /\ p \in ToSet(list) /\ list \in Lists
      /\ ref[p] \in ToSet(list) /\ IsLabel(ref[p])
      /\ At(ref[p]) \in 1 .. Len(list) /\ list[At(ref[p])] = ref[p]
      /\ ToSet(list) \subseteq Node
  BY <1>0, <1>1, IterateFacts
<1>3. /\ list' = decref(list, ref[p])
      /\ ref' = [ref EXCEPT ![p] = ref[q]]
      /\ UNCHANGED <<prog, neg, p, pc>>
  BY DEF Thread
<1>4. ref \in [Node -> Node \cup {NIL}] /\ Flow(list, ref, neg)
  BY <1>0, <1>2 DEF Exact, FlowInv
<1> DEFINE t2 == [ref EXCEPT ![p] = ref[q]]
<1>5. t2[p] = ref[q] /\ t2[q] = ref[q] /\ \A n \in Node : n # p => t2[n] = ref[n]
  BY <1>1, <1>2, <1>4
<1>6. PICK i \in 1 .. Len(list) : i = At(ref[p])
  BY <1>2
<1>7. PICK b \in 1 .. Len(list) : b = a
  <2>1. Len(list) \in Nat
    BY <1>2, ListFacts
  <2>2. QED
    BY <1>1, <1>2, <2>1
<1> HIDE DEF q, a, t2
<1>8. i <= b /\ list[i] = ref[p] /\ list[b] = q /\ \A k \in i .. b - 1 : op(list[k]) = "LABEL"
  <2>1. Len(list) \in Nat
    BY <1>2, ListFacts
  <2>2. QED
    BY <1>1, <1>2, <1>6, <1>7, <2>1
<1>9. Same(ref[p], ref[q])
  <2>1. Same(list[i], list[b])
    BY <1>2, <1>4, <1>8, RunSame
  <2>2. Same(q, ref[q])
    BY <1>1, <1>4 DEF Flow, Follow
  <2>3. QED
    BY <1>8, <2>1, <2>2, SameEq
<1>10. \A C : Both(list, t2, C) => (ref[p] \in C <=> ref[q] \in C)
  <2>1. ASSUME NEW C, Both(list, t2, C) PROVE ref[p] \in C <=> ref[q] \in C
    <3>1. list[i] \in C <=> list[b] \in C
      BY <1>2, <1>8, <2>1, RunBoth
    <3>2. q \in C <=> t2[q] \in C
      BY <1>1, <2>1 DEF Both, Follow
    <3>3. QED
      BY <1>5, <1>8, <3>1, <3>2
  <2>2. QED
    BY <2>1
<1>11. Flow(list, t2, neg)
  <2>1. \A n \in ToSet(list) : IsJump(n) => Same(ref[n], t2[n])
    BY <1>2, <1>5, <1>9, SameEq
  <2>2. \A n \in ToSet(list) : op(n) = "JBR" => \A C : Both(list, t2, C) => (ref[n] \in C <=> t2[n] \in C)
    BY <1>2, <1>5, <1>10
  <2>3. QED
    BY <1>2, <1>4, <2>1, <2>2, Retarget
<1>12. Flow(decref(list, ref[p]), t2, neg)
  <2>1. CASE refc[ref[p]] <= 1
    <3>1. \A n \in ToSet(list) : IsJump(n) /\ ref[n] = ref[p] => n = p
      BY <1>1, <1>2, <2>1, LastReference
    <3>2. \A n \in ToSet(list) : op(n) = "JBR" => t2[n] # ref[p]
      BY <1>1, <1>2, <1>5, <3>1 DEF IsJump
    <3>3. Flow(Less(list, ref[p]), t2, neg)
      BY <1>2, <1>11, <3>2, RemoveLabel
    <3>4. QED
      BY <2>1, <3>3 DEF decref
  <2>2. CASE ~ (refc[ref[p]] <= 1)
    BY <1>11, <2>2 DEF decref
  <2>3. QED
    BY <2>1, <2>2
<1>13. Flow(list', ref', neg')
  BY <1>3, <1>12 DEF t2
<1>14. QED
  BY <1>3, <1>13, LaterFlow DEF FlowInv

(* 2.  branches over jumps *)
LEMMA InvertFlow ==
  ASSUME RefInv, FlowInv, Invert
  PROVE  FlowInv'
<1>0. pc = "iterate" /\ pc # "refcount" /\ CanInvert
  BY DEF Invert, CanInvert, Body
<1> DEFINE j == forw(p)
<1>1. /\ j \in ToSet(list) /\ IsJump(j) /\ IsJump(p) /\ j # p /\ Adj(list, p, j)
      /\ op(j) = "JBR" /\ op(p) = "CBR" /\ j # 0 /\ j # MaxLen + 1
  BY <1>0, InvertFacts
<1>2. /\ Shape /\ Exact(list, labno, ref, refc) /\ p \in ToSet(list) /\ list \in Lists
      /\ ref[p] \in ToSet(list) /\ IsLabel(ref[p]) /\ p \in Node
      /\ At(ref[p]) \in 1 .. Len(list) /\ list[At(ref[p])] = ref[p]
      /\ ToSet(list) \subseteq Node
      /\ \A n \in ToSet(list) : IsJump(n) => IsLabel(ref[n])
  BY <1>0, <1>1, IterateFacts
<1>3. /\ list' = Less(decref(list, ref[p]), j)
      /\ ref' = [ref EXCEPT ![p] = ref[j]]
      /\ neg' = [neg EXCEPT ![p] = ~ @]
      /\ UNCHANGED <<prog, p, pc>>
  BY DEF Invert
<1>4. ref \in [Node -> Node \cup {NIL}] /\ neg \in [Node -> BOOLEAN] /\ Flow(list, ref, neg)
  BY <1>0, <1>2 DEF Exact, FlowInv, RefInv
<1>5. list[BeforeLabels(At(ref[p]))] = j
  BY <1>0 DEF CanInvert
<1> HIDE DEF j
<1>6. PICK i \in 1 .. Len(list) : i = At(ref[p])
  BY <1>2
<1>7. /\ BeforeLabels(i) \in 1 .. i /\ list[BeforeLabels(i)] = j
      /\ \A k \in BeforeLabels(i) + 1 .. i : op(list[k]) = "LABEL"
  BY <1>2, <1>5, <1>6, BeforeFacts
<1>8. PICK b \in 1 .. i : b = BeforeLabels(i)
  BY <1>7
<1>9. list[i] = ref[p]
  BY <1>2, <1>6
<1>10. b # i
  BY <1>1, <1>2, <1>7, <1>8, <1>9 DEF IsLabel
<1>11. b \in 1 .. Len(list) - 1 /\ b + 1 \in 1 .. Len(list) /\ b + 1 <= i
       /\ \A k \in b + 1 .. i - 1 : op(list[k]) = "LABEL"
  <2>1. Len(list) \in Nat
    BY <1>2, ListFacts
  <2>2. QED
    BY <1>7, <1>8, <1>10, <2>1
<1>12. PICK c : c = list[b + 1]
  OBVIOUS
<1>13. Adj(list, j, c)
  BY <1>2, <1>7, <1>8, <1>11, <1>12, AdjAt
<1>14. Same(c, ref[p])
  BY <1>2, <1>4, <1>9, <1>11, <1>12, RunSame
<1> DEFINE t2 == [ref EXCEPT ![p] = ref[j]]
           ng2 == [neg EXCEPT ![p] = ~ @]
<1>15. Flow(Less(list, j), t2, ng2)
  BY <1>1, <1>2, <1>4, <1>13, <1>14, TurnBranch
<1>16. t2[p] = ref[j] /\ \A n \in Node : n # p => t2[n] = ref[n]
  BY <1>2, <1>4
<1> HIDE DEF t2, ng2
<1>17. refc[ref[p]] <= 1 => \A n \in ToSet(list) : n # j /\ op(n) = "JBR" => t2[n] # ref[p]
  <2>1. ASSUME refc[ref[p]] <= 1, NEW n \in ToSet(list), n # j, op(n) = "JBR" PROVE t2[n] # ref[p]
    <3>1. \A m \in ToSet(list) : IsJump(m) /\ ref[m] = ref[p] => m = p
      BY <1>1, <1>2, <2>1, LastReference
    <3>2. n # p /\ n \in Node /\ IsJump(n)
      BY <1>1, <1>2, <2>1 DEF IsJump
    <3>3. QED
      BY <1>16, <3>1, <3>2
  <2>2. QED
    BY <2>1
<1>18. ref[p] # j
  BY <1>1, <1>2 DEF IsLabel
<1>19. Flow(Less(decref(list, ref[p]), j), t2, ng2)
  BY <1>1, <1>2, <1>15, <1>17, <1>18, DropBoth
<1>20. Flow(list', ref', neg')
  BY <1>3, <1>19 DEF t2, ng2
<1>21. QED
  BY <1>3, <1>20, LaterFlow DEF FlowInv

(* 3.  what follows a jump *)
LEMMA DropNextFlow ==
  ASSUME RefInv, FlowInv, DropNext
  PROVE  FlowInv'
<1>0. pc = "iterate" /\ pc # "refcount" /\ op(p) = "JBR" /\ op(forw(p)) \notin {"LABEL", "EROU"}
  BY DEF DropNext, CanDrop, Body
<1> DEFINE d == forw(p)
<1>1. /\ Shape /\ Exact(list, labno, ref, refc) /\ p \in ToSet(list) /\ list \in Lists
      /\ ToSet(list) \subseteq Node
      /\ \A n \in ToSet(list) : IsJump(n) => IsLabel(ref[n])
  BY <1>0, IterateFacts
<1>2. d \in ToSet(list) /\ d # p /\ d # 0 /\ Adj(list, p, d)
  BY <1>0, <1>1, ForwFacts
<1>3. d # MaxLen + 1 /\ ~ IsLabel(d) /\ ~ Silent(d)
  BY <1>0, <1>1, <1>2, NodesFinite DEF Shape, IsLabel, Silent
<1>4. /\ list' = Less(IF d \in Jumps THEN decref(list, ref[d]) ELSE list, d)
      /\ UNCHANGED <<prog, labno, ref, neg, p, pc>>
  BY DEF DropNext
<1>5. Flow(list, ref, neg)
  BY <1>0 DEF FlowInv
<1> HIDE DEF d
<1>6. Flow(Less(list, d), ref, neg)
  <2>1. CASE op(d) = "JBR"
    <3>1. PICK s \in Lists : s = Less(list, d)
      BY <1>1, <1>2, <1>3, LessFacts
    <3>2. /\ ToSet(s) = ToSet(list) \ {d}
          /\ \A x, y : Adj(s, x, y) <=> \/ x # d /\ y # d /\ Adj(list, x, y)
                                        \/ Adj(list, x, d) /\ Adj(list, d, y)
      BY <1>1, <1>2, <1>3, <3>1, LessFacts
    <3>3. \A x : Adj(list, x, d) => x = p
      BY <1>1, <1>2, AdjFacts
    <3>4. PICK q : q = ref[d]
      OBVIOUS
    <3>5. \A x, y : Adj(s, x, y) => \/ x # d /\ y # d /\ Adj(list, x, y)
                                    \/ Adj(list, x, d) /\ y = q
                                    \/ op(x) = "JBR"
      BY <1>0, <3>2, <3>3
    <3>6. \A x, y : Adj(list, x, y) /\ x # d /\ y # d /\ op(x) # "JBR" => Adj(s, x, y)
      BY <3>2
    <3>7. \A x : Adj(list, x, d) /\ op(x) # "JBR" => Adj(s, x, q)
      BY <1>0, <3>3
    <3>8. Same(q, ref[d]) /\ \A C : Both(s, ref, C) => (q \in C <=> ref[d] \in C)
      BY <3>4, SameEq
    <3>9. Flow(s, ref, neg)
      BY <1>1, <1>2, <1>5, <2>1, <3>2, <3>5, <3>6, <3>7, <3>8, ReplaceJump
    <3>10. QED
      BY <3>1, <3>9
  <2>2. CASE op(d) # "JBR"
    <3>1. d \in Finals
      BY <1>1, <1>2, <1>3, <2>2 DEF Finals
    <3>2. QED
      BY <1>0, <1>1, <1>2, <1>3, <1>5, <3>1, RemoveDead
  <2>3. QED
    BY <2>1, <2>2
<1>7. Flow(list', ref', neg')
  <2>1. CASE IsJump(d)
    <3>1. d \in Jumps
      BY <1>2, <2>1, JumpsAre
    <3>2. ref[d] \in ToSet(list) /\ IsLabel(ref[d]) /\ ref[d] # d
      BY <1>0, <1>2, <2>1, IterateFacts
    <3>3. refc[ref[d]] <= 1 => \A n \in ToSet(list) : n # d /\ op(n) = "JBR" => ref[n] # ref[d]
      BY <1>1, <1>2, <2>1, LastReference DEF IsJump
    <3>4. Flow(Less(decref(list, ref[d]), d), ref, neg)
      BY <1>1, <1>2, <1>3, <1>6, <3>2, <3>3, DropBoth
    <3>5. QED
      BY <1>4, <3>1, <3>4
  <2>2. CASE ~ IsJump(d)
    <3>1. d \notin Jumps
      BY <2>2, JumpsAre
    <3>2. QED
      BY <1>4, <1>6, <3>1
  <2>3. QED
    BY <2>1, <2>2
<1>8. QED
  BY <1>4, <1>7, LaterFlow DEF FlowInv

(* Jumps to what comes next.                                               *)
LEMMA DropJumpFlow ==
  ASSUME RefInv, FlowInv, DropJump
  PROVE  FlowInv'
<1>0. pc = "iterate" /\ pc # "refcount" /\ CanSkip
  BY DEF DropJump, CanSkip, Body
<1>1. /\ op(p) = "JBR" /\ IsJump(p) /\ At(p) + 1 \in 1 .. Len(list)
      /\ At(ref[p]) \in At(p) + 1 .. Len(list)
      /\ \A k \in At(p) + 1 .. At(ref[p]) : op(list[k]) = "LABEL"
  BY <1>0, SkipFacts
<1>2. /\ Shape /\ Exact(list, labno, ref, refc) /\ p \in ToSet(list) /\ list \in Lists
      /\ ref[p] \in ToSet(list) /\ IsLabel(ref[p]) /\ ref[p] # p /\ p # 0 /\ p # MaxLen + 1
      /\ At(p) \in 1 .. Len(list) /\ list[At(p)] = p
      /\ At(ref[p]) \in 1 .. Len(list) /\ list[At(ref[p])] = ref[p]
      /\ ToSet(list) \subseteq Node
      /\ \A n \in ToSet(list) : IsJump(n) => IsLabel(ref[n])
  BY <1>0, <1>1, IterateFacts
<1>3. /\ list' = Less(decref(list, ref[p]), p)
      /\ UNCHANGED <<prog, labno, ref, neg, pc>>
  BY DEF DropJump
<1>4. Flow(list, ref, neg)
  BY <1>0 DEF FlowInv
<1>5. PICK i \in 1 .. Len(list) - 1 : i = At(p)
  <2>1. Len(list) \in Nat
    BY <1>2, ListFacts
  <2>2. QED
    BY <1>1, <1>2, <2>1
<1>6. PICK m \in 1 .. Len(list) : m = At(ref[p])
  BY <1>2
<1>7. /\ i + 1 \in 1 .. Len(list) /\ i + 1 <= m /\ list[i] = p /\ list[m] = ref[p]
      /\ \A k \in i + 1 .. m : op(list[k]) = "LABEL"
  <2>1. Len(list) \in Nat
    BY <1>2, ListFacts
  <2>2. QED
    BY <1>1, <1>2, <1>5, <1>6, <2>1
<1>8. PICK q : q = list[i + 1]
  OBVIOUS
<1>9. Adj(list, p, q)
  BY <1>2, <1>7, <1>8, AdjAt
<1>10. \A k \in i + 1 .. m - 1 : op(list[k]) = "LABEL"
  BY <1>7
<1>11. op(list[m]) = "LABEL"
  BY <1>2, <1>7 DEF IsLabel
<1>12. Same(q, ref[p])
  BY <1>2, <1>4, <1>7, <1>8, <1>10, RunSame
<1>13. PICK s \in Lists : s = Less(list, p)
  BY <1>2, LessFacts
<1>14. /\ ToSet(s) = ToSet(list) \ {p}
       /\ \A x, y : Adj(s, x, y) <=> \/ x # p /\ y # p /\ Adj(list, x, y)
                                     \/ Adj(list, x, p) /\ Adj(list, p, y)
  BY <1>2, <1>13, LessFacts
<1>15. \A y : Adj(list, p, y) => y = q
  BY <1>2, <1>9, AdjFacts
<1>16. \A x, y : Adj(list, x, y) /\ op(x) = "LABEL" /\ (op(y) = "LABEL" \/ s = list) => Adj(s, x, y)
  <2>1. s # list
    BY <1>2, <1>14
  <2>2. QED
    BY <1>1, <1>14, <2>1
<1>17. \A C : Both(s, ref, C) => (q \in C <=> ref[p] \in C)
  BY <1>2, <1>7, <1>8, <1>10, <1>11, <1>16, RunBoth
<1>18. /\ \A x, y : Adj(s, x, y) => \/ x # p /\ y # p /\ Adj(list, x, y)
                                    \/ Adj(list, x, p) /\ y = q
                                    \/ op(x) = "JBR"
       /\ \A x, y : Adj(list, x, y) /\ x # p /\ y # p /\ op(x) # "JBR" => Adj(s, x, y)
       /\ \A x : Adj(list, x, p) /\ op(x) # "JBR" => Adj(s, x, q)
  BY <1>9, <1>14, <1>15
<1>19. Flow(s, ref, neg)
  BY <1>1, <1>2, <1>4, <1>12, <1>14, <1>17, <1>18, ReplaceJump
<1>20. refc[ref[p]] <= 1 => \A n \in ToSet(list) : n # p /\ op(n) = "JBR" => ref[n] # ref[p]
  BY <1>1, <1>2, LastReference DEF IsJump
<1>21. Flow(Less(decref(list, ref[p]), p), ref, neg)
  BY <1>2, <1>13, <1>19, <1>20, DropBoth
<1>22. Flow(list', ref', neg')
  BY <1>3, <1>21
<1>23. QED
  BY <1>3, <1>22, LaterFlow DEF FlowInv

(* 4.  pieces of code *)
LEMMA MoveFlow ==
  ASSUME RefInv, FlowInv, codemove
  PROVE  FlowInv'
<1>0. pc = "iterate" /\ pc # "refcount" /\ CanMove
  BY DEF codemove, CanMove, Body
<1>1. PICK i \in Int, a \in Int, b \in Int, m \in Int :
        /\ i = At(p) /\ a = firstOf(p) /\ b = lastOf(p) /\ m = At(ref[p])
        /\ 2 <= i /\ i < Len(list) /\ 2 <= a /\ a <= m /\ m < b /\ b < Len(list)
        /\ i < a - 1 \/ i > b + 1
        /\ op(p) = "JBR" /\ IsJump(p) /\ list[i] = p /\ list[m] = ref[p]
        /\ op(list[b]) = "JBR" /\ op(list[a - 1]) = "JBR"
        /\ \A k \in a .. m : op(list[k]) = "LABEL"
  BY <1>0, PieceFacts
<1>2. /\ Shape /\ Exact(list, labno, ref, refc) /\ p \in ToSet(list) /\ list \in Lists
      /\ ref[p] \in ToSet(list) /\ IsLabel(ref[p]) /\ ref[p] # p
      /\ \A n \in ToSet(list) : IsJump(n) => IsLabel(ref[n])
  BY <1>0, <1>1, IterateFacts
<1> DEFINE l == Moved(list, i, a, b)
<1>3. /\ list' = decref(l, ref[p])
      /\ UNCHANGED <<prog, labno, ref, neg, pc>>
  BY <1>1 DEF codemove
<1>4. /\ l \in Lists /\ ToSet(l) = ToSet(list) \ {p}
      /\ \A x, y : Adj(l, x, y) => \/ x # p /\ y # p /\ Adj(list, x, y)
                                   \/ x = list[i - 1] /\ y = list[a]
                                   \/ x = list[b]
                                   \/ x = list[a - 1]
      /\ \A x, y : Adj(list, x, y) /\ x # p /\ y # p /\ x # list[b] /\ x # list[a - 1] => Adj(l, x, y)
      /\ Adj(l, list[i - 1], list[a])
  <2>1. a <= b
    BY <1>1
  <2>2. /\ l \in Lists /\ ToSet(l) = ToSet(list) \ {list[i]}
        /\ \A x, y : Adj(l, x, y) => \/ x # list[i] /\ y # list[i] /\ Adj(list, x, y)
                                     \/ x = list[i - 1] /\ y = list[a]
                                     \/ x = list[b]
                                     \/ x = list[a - 1]
        /\ \A x, y : Adj(list, x, y) /\ x # list[i] /\ y # list[i] /\ x # list[b] /\ x # list[a - 1]
                       => Adj(l, x, y)
        /\ Adj(l, list[i - 1], list[a])
    BY <1>1, <1>2, <2>1, MovedFacts
  <2>3. QED
    BY <1>1, <2>2
<1> HIDE DEF l
<1>5. PICK s \in Lists : s = l
  BY <1>4
<1>6. Flow(list, ref, neg)
  BY <1>0 DEF FlowInv
<1>7. PICK q : q = list[a]
  OBVIOUS
<1>8. a \in 1 .. Len(list) /\ m \in 1 .. Len(list) /\ a <= m
      /\ (\A k \in a .. m - 1 : op(list[k]) = "LABEL") /\ op(list[m]) = "LABEL"
  BY <1>1
<1>9. Same(q, ref[p])
  BY <1>1, <1>2, <1>6, <1>7, <1>8, RunSame
<1>10. \A x : Adj(list, x, p) <=> x = list[i - 1]
  <2>1. PICK k \in 1 .. Len(list) - 1 : k = i - 1
    BY <1>1
  <2>2. k + 1 = i
    BY <2>1
  <2>3. Adj(list, list[k], list[k + 1])
    BY <1>2, AdjAt
  <2>4. Adj(list, list[i - 1], p)
    BY <1>1, <2>1, <2>2, <2>3
  <2>5. QED
    BY <1>2, <2>4, AdjFacts
<1>11. \A x, y : Adj(s, x, y) => \/ x # p /\ y # p /\ Adj(list, x, y)
                                 \/ Adj(list, x, p) /\ y = q
                                 \/ op(x) = "JBR"
  BY <1>1, <1>4, <1>5, <1>7, <1>10
<1>12. \A x, y : Adj(list, x, y) /\ x # p /\ y # p /\ op(x) # "JBR" => Adj(s, x, y)
  BY <1>1, <1>4, <1>5
<1>13. \A x : Adj(list, x, p) /\ op(x) # "JBR" => Adj(s, x, q)
  BY <1>4, <1>5, <1>7, <1>10
<1>14. \A x, y : Adj(list, x, y) /\ op(x) = "LABEL" /\ (op(y) = "LABEL" \/ s = list) => Adj(s, x, y)
  <2>1. s # list
    BY <1>2, <1>4, <1>5
  <2>2. QED
    BY <1>1, <1>12, <2>1
<1>15. \A C : Both(s, ref, C) => (q \in C <=> ref[p] \in C)
  BY <1>1, <1>2, <1>7, <1>8, <1>14, RunBoth
<1>16. ToSet(s) = ToSet(list) \ {p}
  BY <1>4, <1>5
<1>17. Flow(s, ref, neg)
  BY <1>1, <1>2, <1>6, <1>9, <1>11, <1>12, <1>13, <1>15, <1>16, ReplaceJump
<1>18. Flow(decref(s, ref[p]), ref, neg)
  <2>1. CASE refc[ref[p]] <= 1
    <3>1. \A n \in ToSet(s) : op(n) = "JBR" => ref[n] # ref[p]
      BY <1>1, <1>2, <1>16, <2>1, LastReference DEF IsJump
    <3>2. ref[p] \in ToSet(s)
      BY <1>2, <1>16
    <3>3. Flow(Less(s, ref[p]), ref, neg)
      BY <1>2, <1>17, <3>1, <3>2, RemoveLabel
    <3>4. QED
      BY <2>1, <3>3 DEF decref
  <2>2. CASE ~ (refc[ref[p]] <= 1)
    BY <1>17, <2>2 DEF decref
  <2>3. QED
    BY <2>1, <2>2
<1>19. Flow(list', ref', neg')
  BY <1>3, <1>5, <1>18
<1>20. QED
  BY <1>3, <1>19, LaterFlow DEF FlowInv

-----------------------------------------------------------------------------
(* refcount keeps the flow.                                                *)
LEMMA AdjIs ==
  ASSUME NEW s \in Lists, Incr(s), NEW a \in ToSet(s), NEW b \in ToSet(s), a < b,
         \A c \in ToSet(s) : c <= a \/ c >= b
  PROVE  Adj(s, a, b)
<1>1. PICK i \in 1 .. Len(s) : s[i] = a
  BY ListFacts
<1>2. PICK j \in 1 .. Len(s) : s[j] = b
  BY ListFacts
<1>3. Len(s) \in Nat /\ \A k \in 1 .. Len(s) : s[k] \in Int /\ s[k] \in ToSet(s)
  BY ListFacts DEF Node
<1>4. i < j
  <2>1. ~ (j < i) /\ j # i
    BY <1>1, <1>2, <1>3 DEF Incr
  <2>2. QED
    BY <1>3, <2>1
<1>5. i \in 1 .. Len(s) - 1 /\ i + 1 \in 1 .. Len(s) /\ i < i + 1 /\ (i + 1 = j \/ i + 1 < j)
  BY <1>3, <1>4
<1>6. s[i] < s[i + 1] /\ (i + 1 = j \/ s[i + 1] < s[j])
  BY <1>5 DEF Incr
<1>7. s[i + 1] \in ToSet(s) /\ s[i + 1] \in Int /\ s[i] \in Int /\ s[j] \in Int
  BY <1>3, <1>5
<1>8. ~ (s[i + 1] <= a)
  BY <1>1, <1>6, <1>7
<1>9. s[i + 1] >= b
  BY <1>7, <1>8
<1>10. s[i + 1] = b
  BY <1>2, <1>6, <1>7, <1>9
<1>11. QED
  BY <1>1, <1>5, <1>10 DEF Adj

LEMMA IncrAdj ==
  ASSUME NEW s \in Lists, Incr(s), NEW l \in Lists, Incr(l), ToSet(s) = ToSet(l)
  PROVE  \A a, b : Adj(s, a, b) <=> Adj(l, a, b)
<1>1. ASSUME NEW a, NEW b, Adj(s, a, b) PROVE Adj(l, a, b)
  BY <1>1, AdjIncr, AdjFacts, AdjIs
<1>2. ASSUME NEW a, NEW b, Adj(l, a, b) PROVE Adj(s, a, b)
  BY <1>2, AdjIncr, AdjFacts, AdjIs
<1>3. QED
  BY <1>1, <1>2

LEMMA LessIncr ==
  ASSUME NEW l \in Lists, Incr(l), NEW n \in ToSet(l)
  PROVE  Incr(Less(l, n))
<1>1. l \in Seq(Node) /\ Len(l) \in Nat
  BY ListFacts
<1>2. PICK q \in 1 .. Len(l) : q = Place(l, n)
  BY PlaceFacts
<1>3. PICK s : s = RemoveAt(l, q)
  OBVIOUS
<1>4. /\ Len(s) = Len(l) - 1
      /\ \A i \in 1 .. Len(l) - 1 : s[i] = IF i < q THEN l[i] ELSE l[i + 1]
  BY <1>1, <1>3, RemoveAtFacts
<1>5. ASSUME NEW i \in 1 .. Len(s), NEW j \in 1 .. Len(s), i < j PROVE s[i] < s[j]
  <2>1. PICK f \in 1 .. Len(l) : f = IF i < q THEN i ELSE i + 1
    BY <1>1, <1>4
  <2>2. PICK g \in 1 .. Len(l) : g = IF j < q THEN j ELSE j + 1
    BY <1>1, <1>4
  <2>3. f < g
    BY <1>1, <1>5, <2>1, <2>2
  <2>4. s[i] = l[f] /\ s[j] = l[g]
    BY <1>4, <2>1, <2>2
  <2>5. QED
    BY <2>3, <2>4 DEF Incr
<1>6. QED
  BY <1>2, <1>3, <1>5 DEF Incr, Less

LEMMA Filtered ==
  ASSUME Shape, NEW t, NEW ng, Flow(progList, t, ng), NEW R \in SUBSET Node,
         \A m \in R : IsLabel(m),
         \A n \in Node : op(n) = "JBR" => t[n] \notin R,
         NEW s \in Lists, Incr(s), ToSet(s) = Node \ R
  PROVE  Flow(s, t, ng)
<1> DEFINE Before(n) == {m \in R : m < n}
           Good(n, l) == l \in Lists /\ Incr(l) /\ ToSet(l) = Node \ Before(n) /\ Flow(l, t, ng)
           S == {n \in Nat : \E l : Good(n, l)}
<1>1. 0 \in S
  <2>1. Before(0) = {}
    <3>1. \A m \in Node : ~ (m < 0)
      BY DEF Node
    <3>2. \A m \in R : ~ (m < 0)
      BY <3>1
    <3>3. QED
      BY <3>2
  <2>2. Good(0, progList)
    BY <2>1, ProgFacts
  <2> HIDE DEF Good
  <2>3. QED
    BY <2>2
<1>2. ASSUME NEW n \in Nat, n \in S PROVE n + 1 \in S
  <2>1. PICK l : Good(n, l)
    BY <1>2
  <2>2. \A m \in R : m \in Int
    BY DEF Node
  <2>3. n + 1 \in Nat
    OBVIOUS
  <2>4. CASE n \notin R
    <3>1. Before(n + 1) = Before(n)
      BY <2>2, <2>4
    <3>2. Good(n + 1, l)
      BY <2>1, <3>1
    <3> HIDE DEF Good
    <3>3. QED
      BY <2>3, <3>2
  <2>5. CASE n \in R
    <3>1. Before(n + 1) = Before(n) \cup {n} /\ n \notin Before(n)
      <4>1. \A m \in Int : m < n + 1 <=> (m < n \/ m = n)
        OBVIOUS
      <4>2. \A m \in R : m < n + 1 <=> (m < n \/ m = n)
        BY <2>2, <4>1
      <4>3. ~ (n < n)
        OBVIOUS
      <4>4. QED
        BY <2>5, <4>2, <4>3
    <3>2. l \in Lists /\ Incr(l) /\ ToSet(l) = Node \ Before(n) /\ Flow(l, t, ng)
      BY <2>1
    <3>3. Before(n) \subseteq R
      OBVIOUS
    <3> HIDE DEF Before
    <3>4. n \in ToSet(l) /\ IsLabel(n) /\ n # 0 /\ n # MaxLen + 1
      BY <2>5, <3>1, <3>2, NodesFinite DEF Shape, IsLabel
    <3>5. /\ Less(l, n) \in Lists /\ Incr(Less(l, n))
          /\ ToSet(Less(l, n)) = Node \ Before(n + 1)
      BY <3>1, <3>2, <3>4, LessFacts, LessIncr
    <3>6. \A m \in ToSet(l) : op(m) = "JBR" => t[m] # n
      BY <2>5, <3>2
    <3>7. Flow(Less(l, n), t, ng)
      BY <3>2, <3>4, <3>6, RemoveLabel
    <3>8. Good(n + 1, Less(l, n))
      BY <3>5, <3>7
    <3> HIDE DEF Good
    <3>9. QED
      BY <2>3, <3>8
  <2>6. QED
    BY <2>4, <2>5
<1> HIDE DEF S
<1>3. Nat \subseteq S
  BY <1>1, <1>2, SetInduction
<1>4. MaxLen + 2 \in Nat
  BY DelJumpsAssumption
<1>5. PICK l : Good(MaxLen + 2, l)
  <2> HIDE DEF Good
  <2>1. QED
    BY <1>3, <1>4 DEF S
<1>6. Before(MaxLen + 2) = R
  <2>1. \A m \in Node : m < MaxLen + 2
    BY DelJumpsAssumption DEF Node
  <2>2. \A m \in R : m < MaxLen + 2
    BY <2>1
  <2>3. QED
    BY <2>2
<1>7. l \in Lists /\ Incr(l) /\ ToSet(l) = ToSet(s) /\ Flow(l, t, ng)
  BY <1>5, <1>6
<1>8. \A a, b : Adj(s, a, b) <=> Adj(l, a, b)
  BY <1>7, IncrAdj
<1>9. QED
  BY <1>7, <1>8, FlowSame

LEMMA RefcountFlow ==
  ASSUME RefInv, refcount
  PROVE  FlowInv'
<1>1. /\ Shape /\ list = progList /\ neg = progNeg /\ labno = [n \in Node |-> prog[n][2]]
  BY DEF RefInv, refcount
<1>2. /\ Exact(list', labno', ref', refc')
      /\ ToSet(list') = {m \in Node : Kept(refc', m)} /\ Incr(list')
  BY RefcountExact
<1>3. /\ ref' = [n \in Node |-> IF n \in Jumps THEN LastLabel(n) ELSE NIL]
      /\ UNCHANGED <<prog, neg>>
  BY DEF refcount
<1>4. /\ progList \in Lists /\ ToSet(progList) = Node
      /\ Len(progList) = MaxLen + 2
      /\ \A n \in Node : n + 1 \in 1 .. Len(progList) /\ progList[n + 1] = n
  BY ProgFacts
<1>5. PICK t : t = ref'
  OBVIOUS
<1>6. \A n \in Node : IsJump(n) => t[n] = LastLabel(n)
  BY <1>1, <1>3, <1>4, <1>5, JumpsAre
<1>7. Flow(progList, progT, progNeg)
  BY <1>1, ProgFlow
<1>8. ASSUME NEW n \in Node, IsJump(n)
      PROVE  Same(progT[n], t[n]) /\ \A C : Both(progList, t, C) => (progT[n] \in C <=> t[n] \in C)
  <2>1. PICK m \in Node : /\ IsLabel(m) /\ prog[m][2] = prog[n][2]
                          /\ LastLabel(n) \in Node /\ m <= LastLabel(n)
                          /\ \A k \in m .. LastLabel(n) : IsLabel(k)
    BY <1>1, <1>8, LastLabelFacts
  <2>2. progT[n] = m
    <3>1. Target(n) = m
      BY <1>1, <1>8, <2>1, TargetFacts DEF Shape
    <3>2. QED
      BY <1>8, <3>1 DEF progT
  <2>3. PICK z \in Node : z = LastLabel(n)
    BY <2>1
  <2>4. PICK i \in 1 .. Len(progList) : i = m + 1
    BY <1>4
  <2>5. PICK j \in 1 .. Len(progList) : j = z + 1
    BY <1>4
  <2>6. progList[i] = m /\ progList[j] = z
    BY <1>4, <2>4, <2>5
  <2>7. i <= j
    BY <2>1, <2>3, <2>4, <2>5 DEF Node
  <2>8. \A k \in i .. j - 1 : op(progList[k]) = "LABEL"
    <3> TAKE k \in i .. j - 1
    <3>1. PICK y \in m .. z : y = k - 1
      BY <2>4, <2>5 DEF Node
    <3>2. y \in Node /\ y + 1 = k
      <4>1. m \in Int /\ z \in Int /\ 0 <= m /\ z <= MaxLen + 1 /\ MaxLen \in Int
        BY <2>1, <2>3, DelJumpsAssumption DEF Node
      <4>2. y \in Int /\ m <= y /\ y <= z /\ k \in Int
        BY <2>4, <2>5, <3>1, <4>1
      <4>3. y + 1 = k /\ 0 <= y /\ y <= MaxLen + 1
        BY <3>1, <4>1, <4>2
      <4>4. QED
        BY <4>2, <4>3 DEF Node
    <3>3. progList[k] = y
      BY <1>4, <3>2
    <3>4. QED
      BY <2>1, <2>3, <3>3 DEF IsLabel
  <2>9. Same(m, z)
    BY <1>4, <1>7, <2>6, <2>7, <2>8, RunSame
  <2>10. ASSUME NEW C, Both(progList, t, C) PROVE m \in C <=> z \in C
    BY <1>4, <2>6, <2>7, <2>8, <2>10, RunBoth
  <2>11. QED
    BY <1>6, <1>8, <2>2, <2>3, <2>9, <2>10
<1>9. Flow(progList, t, progNeg)
  <2>1. \A n \in ToSet(progList) : IsJump(n) => Same(progT[n], t[n])
    BY <1>4, <1>8
  <2>2. \A n \in ToSet(progList) : op(n) = "JBR" =>
          \A C : Both(progList, t, C) => (progT[n] \in C <=> t[n] \in C)
    BY <1>4, <1>8 DEF IsJump
  <2>3. QED
    BY <1>4, <1>7, <2>1, <2>2, Retarget
<1>10. PICK s : s = list'
  OBVIOUS
<1>11. PICK R : R = {m \in Node : ~ Kept(refc', m)}
  OBVIOUS
<1>12. s \in Lists /\ Incr(s) /\ ToSet(s) = Node \ R /\ R \in SUBSET Node
  <2>1. list' \in Lists
    BY <1>2 DEF Exact
  <2>2. QED
    BY <1>2, <1>10, <1>11, <2>1
<1>13. \A m \in R : IsLabel(m)
  BY <1>11 DEF Kept, IsLabel
<1>14. \A n \in Node : op(n) = "JBR" => t[n] \notin R
  <2>1. \A n \in ToSet(s) : IsJump(n) => t[n] \in ToSet(s)
    BY <1>2, <1>5, <1>10 DEF Exact
  <2>2. \A n \in Node : op(n) = "JBR" => n \in ToSet(s) /\ IsJump(n)
    BY <1>12, <1>13 DEF IsJump, IsLabel
  <2>3. QED
    BY <1>12, <2>1, <2>2
<1>15. Flow(s, t, progNeg)
  BY <1>1, <1>9, <1>12, <1>13, <1>14, Filtered
<1>16. Flow(list', ref', neg')
  BY <1>1, <1>3, <1>5, <1>10, <1>15
<1>17. QED
  BY <1>3, <1>16, LaterFlow DEF FlowInv

LEMMA NextFlow ==
  ASSUME RefInv, FlowInv, [Next]_vars
  PROVE  FlowInv'
<1>1. CASE refcount
  BY <1>1, RefcountFlow
<1>2. CASE Thread
  BY <1>2, ThreadFlow
<1>3. CASE Invert
  BY <1>3, InvertFlow
<1>4. CASE DropNext
  BY <1>4, DropNextFlow
<1>5. CASE DropJump
  BY <1>5, DropJumpFlow
<1>6. CASE codemove
  BY <1>6, MoveFlow
<1>7. CASE Forward \/ PassEnd \/ UNCHANGED vars
  <2>1. UNCHANGED <<prog, list, ref, neg>> /\ (pc' # "refcount" => pc # "refcount")
    BY <1>7 DEF Forward, PassEnd, vars
  <2>2. CASE pc # "refcount"
    <3>1. Flow(list', ref', neg')
      BY <2>1, <2>2 DEF FlowInv
    <3>2. QED
      BY <2>1, <3>1, LaterFlow DEF FlowInv
  <2>3. CASE pc = "refcount"
    BY <2>1, <2>3 DEF FlowInv
  <2>4. QED
    BY <2>2, <2>3
<1>8. QED
  BY <1>1, <1>2, <1>3, <1>4, <1>5, <1>6, <1>7 DEF Next, Finished

(* At every step of deljumps the function does what it did: after each     *)
(* statement that is left, for either outcome of a branch, comes the one   *)
(* that came next in the program, whatever refcount, iterate and codemove  *)
(* have redirected, inverted, dropped and moved.                           *)
THEOREM FlowKept == Spec => []SameFlow
<1>1. Init => RefInv /\ FlowInv
  BY InitRef DEF Init, FlowInv
<1>2. RefInv /\ FlowInv /\ [Next]_vars => RefInv' /\ FlowInv'
  BY NextRef, NextFlow
<1>3. RefInv /\ FlowInv => SameFlow
  BY FlowMeans, StartMeans DEF FlowInv
<1>4. QED
  BY <1>1, <1>2, <1>3, PTL DEF Spec
=============================================================================
