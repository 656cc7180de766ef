-------------------------- MODULE SpillLoopProofs --------------------------
(***************************************************************************)
(* Proofs that every round of ngenregs makes progress and that the         *)
(* callee-saved registers have their values again when a function returns, *)
(* whatever the numbers of registers, variables and statements.            *)
(***************************************************************************)
EXTENDS SpillLoop, FiniteSetTheorems, WellFoundedInduction, TLAPS

-----------------------------------------------------------------------------
(* A set of natural numbers has a least element.                           *)
LEMMA LeastNat ==
  ASSUME NEW S, S \subseteq Nat, S # {}
  PROVE  \E n \in S : \A m \in S : n <= m
<1>1. PICK n \in S : \A m \in S : <<m, n>> \notin OpToRel(<, Nat)
  BY WFMin, NatLessThanWellFounded
<1>2. \A m \in S : ~(m < n)
  BY <1>1 DEF OpToRel
<1>3. QED
  BY <1>2

(* Induction: what holds of 0 and, with a number, of the next, holds.  The *)
(* library's theorems have a predicate as parameter, which no prover here  *)
(* can instantiate; a set says the same.                                   *)
LEMMA SetInduction ==
  ASSUME NEW S, 0 \in S, \A n \in Nat : n \in S => n + 1 \in S
  PROVE  Nat \subseteq S
<1>1. SUFFICES ASSUME Nat \ S # {} PROVE FALSE
  OBVIOUS
<1>2. PICK n \in Nat \ S : \A m \in Nat \ S : n <= m
  BY <1>1, LeastNat
<1>3. n # 0 /\ n - 1 \in Nat /\ n - 1 \in S
  BY <1>2
<1>4. QED
  BY <1>2, <1>3

-----------------------------------------------------------------------------

-----------------------------------------------------------------------------
(* Types, and: what is spilled was still to be coloured; the attempts are  *)
(* not used up while rounds go on.                                         *)
SpillTypes ==
  /\ phase \in {"alloc", "rewrite", "perms", "done", "comperr"}
  /\ loc \in [Var -> {"temp", "frame", "arg", "wild"}]
  /\ nsavregs \subseteq Perm
  /\ beenhere \in Nat

SpillInv ==
  /\ SpillTypes
  /\ phase = "rewrite" => spilled \subseteq Unsaved \cup InRegister \cup Stmt
  /\ phase \in {"alloc", "rewrite"} => beenhere <= MAXLOOP

(* Nodes only ever leave the registers. *)
LEMMA Shrinking ==
  ASSUME SpillInv, NEW V, NEW c \in [Var -> {"0", "argreg", "class"}], NEW P,
         P \subseteq Perm, nsavregs' = nsavregs \cup P, loc' = leafrewrite(V, c)
  PROVE  /\ loc' \in [Var -> {"temp", "frame", "arg", "wild"}]
         /\ Unsaved' = Unsaved \ P
         /\ InRegister' = InRegister \ V
<1>1. Unsaved' = Unsaved \ P
  BY DEF Unsaved, Perm
<1>2. \A v \in Var : longtemp(c[v]) \in {"frame", "arg", "wild"}
  BY DEF longtemp
<1>3. loc' \in [Var -> {"temp", "frame", "arg", "wild"}]
  BY <1>2 DEF SpillInv, SpillTypes, leafrewrite
<1>4. \A v \in Var : loc'[v] = IF v \in V /\ loc[v] = "temp" THEN longtemp(c[v]) ELSE loc[v]
  BY DEF leafrewrite
<1>5. InRegister' = InRegister \ V
  BY <1>2, <1>4 DEF InRegister
<1>6. QED
  BY <1>1, <1>3, <1>5

LEMMA ClassTypes ==
  /\ temparg \in [Var -> {"0", "argreg", "class"}]
  /\ allocated \in [Var -> {"0", "argreg", "class"}]
  BY DEF temparg, allocated

LEMMA Counts ==
  ASSUME SpillInv
  PROVE  /\ IsFiniteSet(Unsaved) /\ Cardinality(Unsaved) \in Nat
         /\ IsFiniteSet(InRegister) /\ Cardinality(InRegister) \in Nat
<1>1. IsFiniteSet(Perm)
  BY FS_Interval, SpillAssumption DEF Perm
<1>2. IsFiniteSet(Unsaved) /\ IsFiniteSet(InRegister)
  <2>1. Unsaved \subseteq Perm /\ InRegister \subseteq Var /\ IsFiniteSet(Var)
    BY SpillAssumption DEF Unsaved, InRegister
  <2>2. QED
    BY <1>1, <2>1, FS_Subset
<1>3. QED
  BY <1>2, FS_CardinalityType

(* What SMALL stores, as a change of the two sets. *)
LEMMA SmallShrinks ==
  ASSUME SpillInv, SMALL
  PROVE  \E l : /\ loc' \in [Var -> {"temp", "frame", "arg", "wild"}]
                /\ nsavregs' \subseteq Perm
                /\ Unsaved' = Unsaved \ {l}
                /\ InRegister' = InRegister \ {l}
<1>1. PICK l \in {longsp} \cup Unsaved \cup InRegister : Stored(l)
  BY DEF SMALL
<1>2. loc' = leafrewrite({l}, allocated)
  BY <1>1 DEF Stored
<1>3. CASE l \in Perm
  <2>1. nsavregs' = nsavregs \cup {l} /\ {l} \subseteq Perm
    BY <1>1, <1>3 DEF Stored
  <2>2. QED
    BY <1>2, <2>1, Shrinking, ClassTypes DEF SpillInv, SpillTypes
<1>4. CASE l \notin Perm
  <2>1. PICK P : P = {l} \cap Perm
    OBVIOUS
  <2>2. nsavregs' = nsavregs \cup P /\ P \subseteq Perm
    BY <1>1, <1>4, <2>1 DEF Stored
  <2>3. /\ loc' \in [Var -> {"temp", "frame", "arg", "wild"}]
        /\ Unsaved' = Unsaved \ P
        /\ InRegister' = InRegister \ {l}
    BY <1>2, <2>2, Shrinking, ClassTypes
  <2>4. Unsaved \ P = Unsaved \ {l}
    BY <1>4, <2>1 DEF Unsaved
  <2>5. QED
    BY <2>2, <2>3, <2>4 DEF SpillInv, SpillTypes
<1>5. QED
  BY <1>3, <1>4

LEMMA OnlyPermShrinks ==
  ASSUME SpillInv, ONLYPERM
  PROVE  /\ loc' \in [Var -> {"temp", "frame", "arg", "wild"}]
         /\ nsavregs' \subseteq Perm
         /\ Unsaved' = Unsaved \ spilled
         /\ InRegister' = InRegister \ spilled
<1>1. nsavregs' = nsavregs \cup (spilled \cap Perm) /\ loc' = leafrewrite(spilled \cap Var, temparg)
  BY DEF ONLYPERM
<1>2. /\ loc' \in [Var -> {"temp", "frame", "arg", "wild"}]
      /\ Unsaved' = Unsaved \ (spilled \cap Perm)
      /\ InRegister' = InRegister \ (spilled \cap Var)
  <2>1. spilled \cap Perm \subseteq Perm
    OBVIOUS
  <2>2. QED
    BY <1>1, <2>1, Shrinking, ClassTypes
<1>3. /\ Unsaved \ (spilled \cap Perm) = Unsaved \ spilled
      /\ InRegister \ (spilled \cap Var) = InRegister \ spilled
  BY DEF Unsaved, InRegister
<1>4. QED
  BY <1>1, <1>2, <1>3 DEF SpillInv, SpillTypes

-----------------------------------------------------------------------------
LEMMA SpillInit == Init => SpillInv
  BY SpillAssumption DEF Init, SpillInv, SpillTypes

LEMMA SpillStep ==
  ASSUME SpillInv, [Next]_vars
  PROVE  SpillInv'
<1>1. CASE Spill
  BY <1>1 DEF Spill, SpillInv, SpillTypes, Unsaved, InRegister
<1>2. CASE Colored
  BY <1>2 DEF Colored, SpillInv, SpillTypes
<1>3. CASE ONLYPERM
  BY <1>3, OnlyPermShrinks DEF ONLYPERM, SpillInv, SpillTypes
<1>4. CASE SMALL
  <2>1. loc' \in [Var -> {"temp", "frame", "arg", "wild"}] /\ nsavregs' \subseteq Perm
    BY <1>4, SmallShrinks
  <2>2. /\ phase' = IF beenhere = MAXLOOP THEN "comperr" ELSE "alloc"
        /\ beenhere' = beenhere + 1
        /\ beenhere \in Nat /\ beenhere <= MAXLOOP /\ MAXLOOP \in Nat
    BY <1>4, SpillAssumption DEF SMALL, SpillInv, SpillTypes
  <2>3. QED
    BY <2>1, <2>2 DEF SpillInv, SpillTypes
<1>5. CASE TopNode
  BY <1>5 DEF TopNode, SpillInv, SpillTypes
<1>6. CASE SavePerms
  BY <1>6 DEF SavePerms, InPlace, Swap, SaveMove, PermsDone, AtPerm, SpillInv, SpillTypes
<1>7. CASE UNCHANGED vars
  BY <1>7 DEF vars, SpillInv, SpillTypes, Unsaved, InRegister
<1>8. QED
  BY <1>1, <1>2, <1>3, <1>4, <1>5, <1>6, <1>7 DEF Next, Rewrite, Ended

(* Taking something out of one of two finite sets shrinks their sizes' sum. *)
LEMMA Fewer ==
  ASSUME NEW A, IsFiniteSet(A), NEW B, IsFiniteSet(B), NEW S
  PROVE  /\ Cardinality(A \ S) <= Cardinality(A)
         /\ Cardinality(B \ S) <= Cardinality(B)
         /\ S \cap (A \cup B) # {} =>
              Cardinality(A \ S) < Cardinality(A) \/ Cardinality(B \ S) < Cardinality(B)
<1>1. \A T : IsFiniteSet(T) => /\ Cardinality(T \ S) \in Nat /\ Cardinality(T) \in Nat
                               /\ Cardinality(T \ S) <= Cardinality(T)
                               /\ Cardinality(T) = Cardinality(T \ S) => T = T \ S
  <2>1. TAKE T
  <2>2. HAVE IsFiniteSet(T)
  <2>3. T \ S \in SUBSET T
    OBVIOUS
  <2>4. QED
    BY <2>2, <2>3, FS_Subset, FS_CardinalityType
<1>2. S \cap (A \cup B) # {} => A # A \ S \/ B # B \ S
  OBVIOUS
<1>3. QED
  BY <1>1, <1>2

(* Each round that colours again has something less to lose: a node left   *)
(* the registers for good, or one of the MAXLOOP attempts is gone.         *)
THEOREM Progress == Spec => RoundsShrink
<1>1. ASSUME SpillInv, [Next]_vars, phase = "rewrite", phase' = "alloc"
      PROVE  Left' < Left
  <2>1. /\ IsFiniteSet(Unsaved) /\ IsFiniteSet(InRegister)
        /\ Cardinality(Unsaved) \in Nat /\ Cardinality(InRegister) \in Nat
        /\ Cardinality(Unsaved') \in Nat /\ Cardinality(InRegister') \in Nat
        /\ beenhere \in Nat /\ MAXLOOP \in Nat
    <3>1. SpillInv'
      BY <1>1, SpillStep
    <3>2. Cardinality(Unsaved') \in Nat /\ Cardinality(InRegister') \in Nat
      <4>1. /\ IsFiniteSet(Perm)
            /\ Unsaved' \subseteq Perm
        BY FS_Interval, SpillAssumption DEF Perm, Unsaved
      <4>2. IsFiniteSet(Var) /\ InRegister' \subseteq Var
        BY SpillAssumption DEF InRegister
      <4>3. QED
        BY <4>1, <4>2, FS_Subset, FS_CardinalityType
    <3>3. QED
      BY <1>1, <3>2, Counts, SpillAssumption DEF SpillInv, SpillTypes
  <2>2. CASE ONLYPERM
    <3>1. /\ Unsaved' = Unsaved \ spilled /\ InRegister' = InRegister \ spilled
          /\ beenhere' = beenhere
      BY <1>1, <2>2, OnlyPermShrinks DEF ONLYPERM
    <3>2. spilled \cap (Unsaved \cup InRegister) # {}
      BY <1>1, <2>2, SpillAssumption DEF ONLYPERM, SpillInv
    <3>3. /\ Cardinality(Unsaved') <= Cardinality(Unsaved)
          /\ Cardinality(InRegister') <= Cardinality(InRegister)
          /\ \/ Cardinality(Unsaved') < Cardinality(Unsaved)
             \/ Cardinality(InRegister') < Cardinality(InRegister)
      BY <2>1, <3>1, <3>2, Fewer
    <3>4. QED
      BY <2>1, <3>1, <3>3 DEF Left
  <2>3. CASE SMALL
    <3>1. PICK l : Unsaved' = Unsaved \ {l} /\ InRegister' = InRegister \ {l}
      BY <1>1, <2>3, SmallShrinks
    <3>2. beenhere' = beenhere + 1
      BY <2>3 DEF SMALL
    <3>3. /\ Cardinality(Unsaved') <= Cardinality(Unsaved)
          /\ Cardinality(InRegister') <= Cardinality(InRegister)
      BY <2>1, <3>1, Fewer
    <3>4. QED
      BY <2>1, <3>2, <3>3 DEF Left
  <2>4. ONLYPERM \/ SMALL
    BY <1>1 DEF Next, Rewrite, Spill, Colored, TopNode, SavePerms, InPlace, Swap,
                SaveMove, PermsDone, AtPerm, Ended, vars
  <2>5. QED
    BY <2>2, <2>3, <2>4
<1>2. SpillInv /\ [Next]_vars => [phase = "rewrite" /\ phase' = "alloc" => Left' < Left]_vars
  BY <1>1
<1>3. QED
  BY <1>2, SpillInit, SpillStep, PTL DEF Spec, RoundsShrink

-----------------------------------------------------------------------------
(* The registers after a list of moves.  AfterMoves is a recursive         *)
(* function on the prefixes of the list; Trace says what it is defined by, *)
(* and by induction there is exactly one such function.                    *)
Value == Reg \cup {Junk}
Move == Reg \X Reg

Moved(R, m) == [R EXCEPT ![m[1]] = R[m[2]]]

Trace(f, R, mv, n) ==
  f = [k \in 0 .. n |-> IF k = 0 THEN R ELSE Moved(f[k - 1], mv[k])]

LEMMA MovedType ==
  ASSUME NEW R \in [Reg -> Value], NEW m \in Move
  PROVE  /\ Moved(R, m) \in [Reg -> Value]
         /\ Moved(R, m)[m[1]] = R[m[2]]
         /\ \A r \in Reg \ {m[1]} : Moved(R, m)[r] = R[r]
  BY DEF Moved, Move

LEMMA TraceType ==
  ASSUME NEW R \in [Reg -> Value], NEW mv \in Seq(Move), NEW n \in 0 .. Len(mv), NEW f,
         Trace(f, R, mv, n)
  PROVE  \A k \in 0 .. n : f[k] \in [Reg -> Value]
<1> DEFINE S == {k \in Nat : k <= n => f[k] \in [Reg -> Value]}
<1>1. 0 \in S
  BY DEF Trace
<1>2. ASSUME NEW k \in Nat, k \in S PROVE k + 1 \in S
  <2>1. SUFFICES ASSUME k + 1 <= n PROVE f[k + 1] \in [Reg -> Value]
    OBVIOUS
  <2>2. f[k] \in [Reg -> Value]
    BY <1>2, <2>1
  <2>3. f[k + 1] = Moved(f[k], mv[k + 1])
    BY <2>1 DEF Trace
  <2>4. mv[k + 1] \in Move
    BY <2>1
  <2>5. QED
    BY <2>2, <2>3, <2>4, MovedType
<1> HIDE DEF S
<1>3. Nat \subseteq S
  BY <1>1, <1>2, SetInduction
<1>4. QED
  BY <1>3 DEF S

LEMMA TraceUnique ==
  ASSUME NEW R, NEW mv, NEW n \in Nat, NEW f, NEW g,
         Trace(f, R, mv, n), Trace(g, R, mv, n)
  PROVE  f = g
<1> DEFINE S == {k \in Nat : k <= n => f[k] = g[k]}
<1>1. 0 \in S
  BY DEF Trace
<1>2. ASSUME NEW k \in Nat, k \in S PROVE k + 1 \in S
  <2>1. SUFFICES ASSUME k + 1 <= n PROVE f[k + 1] = g[k + 1]
    OBVIOUS
  <2>2. f[k] = g[k]
    BY <1>2, <2>1
  <2>3. f[k + 1] = Moved(f[k], mv[k + 1]) /\ g[k + 1] = Moved(g[k], mv[k + 1])
    BY <2>1 DEF Trace
  <2>4. QED
    BY <2>2, <2>3
<1>3. Nat \subseteq S
  <2> HIDE DEF S
  <2>1. QED
    BY <1>1, <1>2, SetInduction
<1>4. \A k \in 0 .. n : f[k] = g[k]
  BY <1>3
<1>5. QED
  BY <1>4 DEF Trace

(* What follows depends on the moves up to n only, and can go on.          *)
LEMMA TraceExtends ==
  ASSUME NEW R, NEW mv, NEW mw, NEW n \in Nat, \A k \in 1 .. n : mw[k] = mv[k],
         NEW f, Trace(f, R, mv, n)
  PROVE  \E g : Trace(g, R, mw, n + 1) /\ g[n + 1] = Moved(f[n], mw[n + 1])
<1> DEFINE g == [k \in 0 .. n + 1 |-> IF k = n + 1 THEN Moved(f[n], mw[n + 1]) ELSE f[k]]
<1>1. \A k \in 0 .. n : g[k] = f[k]
  OBVIOUS
<1>2. g[n + 1] = Moved(f[n], mw[n + 1]) /\ g[n + 1] = Moved(g[n], mw[n + 1])
  BY <1>1
<1>3. DOMAIN g = 0 .. n + 1 /\ g = [k \in DOMAIN g |-> g[k]]
  OBVIOUS
<1> HIDE DEF g
<1>4. \A k \in 0 .. n : f[k] = IF k = 0 THEN R ELSE Moved(f[k - 1], mv[k])
  BY DEF Trace
<1>5. \A k \in 0 .. n : g[k] = IF k = 0 THEN R ELSE Moved(g[k - 1], mw[k])
  BY <1>1, <1>4
<1>6. \A k \in 0 .. n + 1 : g[k] = IF k = 0 THEN R ELSE Moved(g[k - 1], mw[k])
  <2>1. \A k \in 0 .. n + 1 : k \in 0 .. n \/ (k = n + 1 /\ k - 1 = n /\ k # 0)
    OBVIOUS
  <2>2. QED
    BY <1>2, <1>5, <2>1
<1>7. g = [k \in 0 .. n + 1 |-> IF k = 0 THEN R ELSE Moved(g[k - 1], mw[k])]
  BY <1>3, <1>6
<1>8. Trace(g, R, mw, n + 1)
  BY <1>7 DEF Trace
<1>9. QED
  BY <1>2, <1>8

LEMMA TraceExists ==
  ASSUME NEW R, NEW mv, NEW n \in Nat
  PROVE  \E f : Trace(f, R, mv, n)
<1> DEFINE S == {k \in Nat : \E f : Trace(f, R, mv, k)}
<1>1. 0 \in S
  <2>1. Trace([k \in 0 .. 0 |-> R], R, mv, 0)
    BY DEF Trace
  <2>2. QED
    BY <2>1
<1>2. ASSUME NEW k \in Nat, k \in S PROVE k + 1 \in S
  <2>1. PICK f : Trace(f, R, mv, k)
    BY <1>2
  <2>2. \E g : Trace(g, R, mv, k + 1)
    BY <2>1, TraceExtends
  <2>3. QED
    BY <2>2
<1> HIDE DEF S
<1>3. Nat \subseteq S
  BY <1>1, <1>2, SetInduction
<1>4. QED
  BY <1>3 DEF S

LEMMA AfterMovesIs ==
  ASSUME NEW R, NEW mv, Len(mv) \in Nat, NEW f, Trace(f, R, mv, Len(mv))
  PROVE  AfterMoves(R, mv) = f[Len(mv)]
<1> DEFINE g == CHOOSE g : Trace(g, R, mv, Len(mv))
<1>1. AfterMoves(R, mv) = g[Len(mv)]
  BY DEF AfterMoves, Trace, Moved
<1>2. Trace(g, R, mv, Len(mv))
  OBVIOUS
<1> HIDE DEF g
<1>3. QED
  BY <1>1, <1>2, TraceUnique

LEMMA NoMoves ==
  ASSUME NEW R
  PROVE  AfterMoves(R, <<>>) = R
<1>1. Len(<<>>) = 0
  OBVIOUS
<1>2. PICK f : Trace(f, R, <<>>, 0)
  BY TraceExists
<1>3. AfterMoves(R, <<>>) = f[0]
  BY <1>1, <1>2, AfterMovesIs
<1>4. QED
  BY <1>2, <1>3 DEF Trace

LEMMA AfterMovesType ==
  ASSUME NEW R \in [Reg -> Value], NEW mv \in Seq(Move)
  PROVE  AfterMoves(R, mv) \in [Reg -> Value]
<1>1. Len(mv) \in Nat
  OBVIOUS
<1>2. PICK f : Trace(f, R, mv, Len(mv))
  BY <1>1, TraceExists
<1>3. QED
  BY <1>1, <1>2, AfterMovesIs, TraceType

LEMMA OneMoveMore ==
  ASSUME NEW R, NEW mv \in Seq(Move), NEW m \in Move
  PROVE  AfterMoves(R, Append(mv, m)) = Moved(AfterMoves(R, mv), m)
<1> DEFINE mw == Append(mv, m)
           n == Len(mv)
<1>1. n \in Nat /\ Len(mw) = n + 1 /\ mw[n + 1] = m /\ \A k \in 1 .. n : mw[k] = mv[k]
  OBVIOUS
<1> HIDE DEF mw
<1>2. PICK f : Trace(f, R, mv, n)
  BY <1>1, TraceExists
<1>3. PICK g : Trace(g, R, mw, n + 1) /\ g[n + 1] = Moved(f[n], mw[n + 1])
  BY <1>1, <1>2, TraceExtends
<1>4. AfterMoves(R, mv) = f[n] /\ AfterMoves(R, mw) = g[n + 1]
  BY <1>1, <1>2, <1>3, AfterMovesIs
<1>5. QED
  BY <1>1, <1>3, <1>4 DEF mw

LEMMA OneMoveBefore ==
  ASSUME NEW R, NEW mv \in Seq(Move), NEW m \in Move
  PROVE  AfterMoves(R, <<m>> \o mv) = AfterMoves(Moved(R, m), mv)
<1> DEFINE mw == <<m>> \o mv
           n == Len(mv)
<1>1. n \in Nat /\ Len(mw) = n + 1 /\ mw[1] = m /\ \A k \in 1 .. n : mw[k + 1] = mv[k]
  OBVIOUS
<1> HIDE DEF mw
<1>2. PICK f : Trace(f, Moved(R, m), mv, n)
  BY <1>1, TraceExists
<1>3. \A k \in 0 .. n : f[k] = IF k = 0 THEN Moved(R, m) ELSE Moved(f[k - 1], mv[k])
  BY <1>2 DEF Trace
<1> DEFINE g == [k \in 0 .. n + 1 |-> IF k = 0 THEN R ELSE f[k - 1]]
<1>4. g[0] = R /\ \A k \in 1 .. n + 1 : g[k] = f[k - 1]
  BY <1>1
<1>5. DOMAIN g = 0 .. n + 1 /\ g = [k \in DOMAIN g |-> g[k]]
  OBVIOUS
<1> HIDE DEF g
<1>6. \A k \in 1 .. n + 1 : g[k] = Moved(g[k - 1], mw[k])
  <2> SUFFICES ASSUME NEW k \in 1 .. n + 1
               PROVE  g[k] = Moved(g[k - 1], mw[k])
    OBVIOUS
  <2>1. CASE k = 1
    BY <1>1, <1>3, <1>4, <2>1
  <2>2. CASE k # 1
    <3>1. k - 1 \in 1 .. n /\ k - 1 # 0 /\ k - 1 \in 0 .. n
      BY <1>1, <2>2
    <3>2. f[k - 1] = Moved(f[k - 1 - 1], mv[k - 1])
      BY <1>3, <3>1
    <3>3. mw[k] = mv[k - 1] /\ g[k - 1] = f[k - 1 - 1] /\ g[k] = f[k - 1]
      BY <1>1, <1>4, <3>1
    <3>4. QED
      BY <3>2, <3>3
  <2>3. QED
    BY <2>1, <2>2
<1>7. \A k \in 0 .. n + 1 : g[k] = IF k = 0 THEN R ELSE Moved(g[k - 1], mw[k])
  BY <1>1, <1>4, <1>6
<1>8. Trace(g, R, mw, n + 1)
  BY <1>5, <1>7 DEF Trace
<1>9. AfterMoves(Moved(R, m), mv) = f[n] /\ AfterMoves(R, mw) = g[n + 1]
  BY <1>1, <1>2, <1>8, AfterMovesIs
<1>10. QED
  BY <1>1, <1>4, <1>9 DEF mw

-----------------------------------------------------------------------------
(* Where the value of callee-saved register p is while the body runs, if   *)
(* the registers below i are settled and those of M were moved.            *)
Place(M, p) == IF p < i /\ p \notin M THEN permregs[p] ELSE color[p]

(* No two values are in one register, nor in one that the body writes; ... *)
Apart(M) ==
  /\ \A p, q \in Unsaved : Place(M, p) = Place(M, q) => p = q
  /\ \A p \in Unsaved : Place(M, p) \notin used

(* ... no later move writes what an earlier one still has to read: of two  *)
(* moved registers the later is not kept in the place of the earlier; ...  *)
Undisturbed(M) ==
  \A q \in M, p \in Unsaved : (p \in M /\ p > q) \/ p >= i => color[p] # permregs[q]

(* ... the moves of the prologue bring each value where it is kept, ...    *)
Saves(M) ==
  \A R \in [Reg -> Value] :
    /\ \A q \in M : AfterMoves(R, entry)[color[q]] = R[permregs[q]]
    /\ \A r \in Reg : (\A q \in M : color[q] # r) => AfterMoves(R, entry)[r] = R[r]

(* ... and those of the epilogue bring it back.                            *)
Restores(M) ==
  \A R \in [Reg -> Value] :
    /\ \A q \in M : AfterMoves(R, exit)[permregs[q]] = R[color[q]]
    /\ \A r \in Reg : (\A q \in M : permregs[q] # r) => AfterMoves(R, exit)[r] = R[r]

Settled(M) ==
  /\ \A p \in M : p < i
  /\ Apart(M)
  /\ Undisturbed(M)
  /\ Saves(M)
  /\ Restores(M)

(* The inductive invariant.  M are the registers whose values were moved   *)
(* so far; the others below i are where they belong or on the stack.       *)
PermTypes ==
  /\ i \in 1 .. NPerm + 1
  /\ color \in [Perm -> Reg \cup {0}]
  /\ entry \in Seq(Move) /\ exit \in Seq(Move)
  /\ nsavregs \subseteq Perm

PermInv ==
  /\ PermTypes
  /\ phase \in {"alloc", "rewrite"} => i = 1 /\ entry = <<>> /\ exit = <<>>
  /\ phase \in {"perms", "done"} =>
       /\ \A p \in Unsaved : color[p] \in Reg
       /\ \A p \in nsavregs : color[p] = 0
       /\ \E M \in SUBSET Unsaved : Settled(M)
  /\ phase = "done" => i = NPerm + 1

LEMMA PermInitial == Init => PermInv
  BY SpillAssumption DEF Init, PermInv, PermTypes, Perm

(* Colours without conflict keep the values apart before anything is       *)
(* moved.                                                                  *)
LEMMA ColoredPerms ==
  ASSUME SpillInv, PermInv, Colored
  PROVE  PermInv'
<1>1. PICK c \in [Unsaved -> Reg] :
        /\ \A p, q \in Unsaved : c[p] = c[q] => p = q
        /\ color' = [p \in Perm |-> IF p \in Unsaved THEN c[p] ELSE 0]
        /\ used' = Reg \ {c[p] : p \in Unsaved}
  BY DEF Colored
<1>2. /\ UNCHANGED <<nsavregs, i, entry, exit>> /\ Unsaved' = Unsaved /\ phase' = "perms"
      /\ i = 1 /\ entry = <<>> /\ exit = <<>>
  BY DEF Colored, Unsaved, PermInv
<1>3. /\ color' \in [Perm -> Reg \cup {0}]
      /\ \A p \in Unsaved : color'[p] = c[p] /\ color'[p] \in Reg
      /\ \A p \in nsavregs : color'[p] = 0
  BY <1>1 DEF PermInv, PermTypes, Unsaved
<1>4. Settled({})'
  <2>1. \A p \in Unsaved : Place({}, p)' = c[p]
    BY <1>2, <1>3 DEF Place, Unsaved, Perm
  <2>2. Apart({})'
    BY <1>1, <1>2, <2>1 DEF Apart
  <2>3. Saves({})' /\ Restores({})'
    BY <1>2, NoMoves DEF Saves, Restores
  <2>4. Undisturbed({})'
    BY DEF Undisturbed
  <2>5. QED
    BY <2>2, <2>3, <2>4 DEF Settled
<1>5. PermTypes'
  BY <1>2, <1>3 DEF PermInv, PermTypes
<1>6. {} \in SUBSET Unsaved'
  OBVIOUS
<1>7. QED
  BY <1>2, <1>3, <1>4, <1>5, <1>6 DEF PermInv

(* A register that is where it should be, or is saved on the stack.        *)
LEMMA InPlaceSettles ==
  ASSUME PermInv, InPlace, NEW M \in SUBSET Unsaved, Settled(M)
  PROVE  Settled(M)'
<1>1. /\ UNCHANGED <<nsavregs, color, used, entry, exit>> /\ Unsaved' = Unsaved /\ i' = i + 1
      /\ i \in Nat /\ \A p \in Unsaved : p \in Nat
  BY DEF InPlace, Unsaved, PermInv, PermTypes, Perm
<1>2. \A p \in Unsaved : Place(M, p)' = Place(M, p)
  BY <1>1 DEF InPlace, Place, Unsaved
<1>3. Apart(M)'
  BY <1>1, <1>2 DEF Settled, Apart
<1>4. Undisturbed(M)'
  BY <1>1 DEF Settled, Undisturbed
<1>5. Saves(M)' /\ Restores(M)'
  BY <1>1 DEF Settled, Saves, Restores
<1>6. \A p \in M : p < i'
  BY <1>1 DEF Settled
<1>7. QED
  BY <1>3, <1>4, <1>5, <1>6 DEF Settled

(* The register goes to whoever has it, who goes where this one was.       *)
LEMMA SwapSettles ==
  ASSUME NoRegisterZero, PermInv, Swap, NEW M \in SUBSET Unsaved, Settled(M)
  PROVE  /\ Settled(M)'
         /\ color' \in [Perm -> Reg \cup {0}]
         /\ \A p \in Unsaved' : color'[p] \in Reg
         /\ \A p \in nsavregs' : color'[p] = 0
<1>1. /\ UNCHANGED <<nsavregs, used, entry, exit>> /\ Unsaved' = Unsaved /\ i' = i + 1
      /\ i \in Unsaved /\ \A p \in Unsaved : p \in Nat
  BY DEF Swap, AtPerm, Unsaved, PermInv, PermTypes, Perm
<1> PICK k : k = i
  OBVIOUS
<1> PICK j : j = First(Taker)
  OBVIOUS
<1>2. j \in Taker
  <2>1. Taker \subseteq Nat /\ Taker # {}
    BY DEF Swap, Taker, PermInv, PermTypes
  <2>2. QED
    BY <2>1, LeastNat DEF First
<1>3. color' = [color EXCEPT ![j] = color[i]]
  BY DEF Swap
<1>4. j \in Perm /\ j > i /\ color[j] = permregs[i]
  BY <1>1, <1>2, SpillAssumption DEF Taker, Perm, Unsaved
<1>5. phase = "perms"
  BY DEF Swap, AtPerm
<1>6. j \in Unsaved
  BY <1>1, <1>4, <1>5 DEF PermInv, NoRegisterZero, Unsaved
<1>7. /\ color'[j] = color[i]
      /\ \A p \in Perm \ {j} : color'[p] = color[p]
  BY <1>3, <1>4 DEF PermInv, PermTypes
<1>8. \A p \in M : p < i /\ p \in Perm \ {j}
  BY <1>1, <1>4 DEF Settled, Unsaved
<1>9. /\ Place(M, k)' = Place(M, j)
      /\ Place(M, j)' = Place(M, k)
      /\ \A p \in Unsaved \ {k, j} : Place(M, p)' = Place(M, p)
  <2>1. i \notin M /\ j \notin M
    BY <1>1, <1>4, <1>8
  <2>2. Place(M, k)' = permregs[i] /\ Place(M, j) = color[j]
    BY <1>1, <1>4, <1>6, <2>1 DEF Place
  <2>3. Place(M, k) = color[i] /\ Place(M, j)' = color[i]
    BY <1>1, <1>4, <1>6, <1>7, <2>1 DEF Place
  <2>4. ASSUME NEW p \in Unsaved \ {k, j} PROVE Place(M, p)' = Place(M, p)
    BY <1>1, <1>7 DEF Place, Unsaved
  <2>5. QED
    BY <1>4, <2>2, <2>3, <2>4
<1>10. Apart(M)'
  BY <1>1, <1>6, <1>9 DEF Settled, Apart
<1>11. Undisturbed(M)'
  <2> SUFFICES ASSUME NEW q \in M, NEW p \in Unsaved, (p \in M /\ p > q) \/ p >= i + 1
               PROVE  color'[p] # permregs[q]
    BY <1>1 DEF Undisturbed
  <2>1. CASE p = j
    BY <1>1, <1>7, <2>1 DEF Settled, Undisturbed
  <2>2. CASE p # j
    BY <1>1, <1>7, <2>2 DEF Settled, Undisturbed, Unsaved
  <2>3. QED
    BY <2>1, <2>2
<1>12. Saves(M)' /\ Restores(M)'
  BY <1>1, <1>7, <1>8 DEF Settled, Saves, Restores
<1>13. \A p \in M : p < i'
  BY <1>1, <1>8
<1>14. Settled(M)'
  BY <1>10, <1>11, <1>12, <1>13 DEF Settled
<1>15. /\ color' \in [Perm -> Reg \cup {0}]
       /\ \A p \in Unsaved' : color'[p] \in Reg
       /\ \A p \in nsavregs' : color'[p] = 0
  <2>1. color[i] \in Reg
    BY <1>1, <1>5 DEF PermInv
  <2>2. color' \in [Perm -> Reg \cup {0}]
    BY <1>3, <2>1 DEF PermInv, PermTypes
  <2>3. \A p \in Unsaved : color'[p] \in Reg
    BY <1>5, <1>7, <2>1 DEF PermInv, Unsaved
  <2>4. \A p \in nsavregs : color'[p] = 0
    BY <1>5, <1>6, <1>7 DEF PermInv, PermTypes, Unsaved
  <2>5. QED
    BY <1>1, <2>2, <2>3, <2>4
<1>16. QED
  BY <1>14, <1>15

(* The register is moved at the start of the function and back at its end. *)
LEMMA SaveMoveSettles ==
  ASSUME PermInv, SaveMove, NEW M \in SUBSET Unsaved, Settled(M), NEW k, k = i
  PROVE  /\ Settled(M \cup {k})'
         /\ k \in Unsaved
         /\ entry' \in Seq(Move) /\ exit' \in Seq(Move)
<1>1. /\ UNCHANGED <<nsavregs, color, used>> /\ Unsaved' = Unsaved /\ i' = i + 1
      /\ i \in Unsaved /\ \A p \in Unsaved : p \in Nat /\ p \in Perm
  BY DEF SaveMove, AtPerm, Unsaved, PermInv, PermTypes, Perm
<1> PICK N : N = M \cup {k}
  OBVIOUS
<1> DEFINE in == <<color[i], permregs[i]>>
           out == <<permregs[i], color[i]>>
<1>2. /\ \A p \in Unsaved : color[p] \in Reg
      /\ \A p \in Unsaved : permregs[p] \in Reg
      /\ \A p, q \in Unsaved : permregs[p] = permregs[q] => p = q
      /\ in \in Move /\ out \in Move
      /\ entry \in Seq(Move) /\ exit \in Seq(Move)
  BY <1>1, SpillAssumption DEF SaveMove, AtPerm, PermInv, PermTypes, Move
<1>3. entry' = <<in>> \o entry /\ exit' = Append(exit, out)
  BY DEF SaveMove
<1>4. entry' \in Seq(Move) /\ exit' \in Seq(Move)
  BY <1>2, <1>3
<1>5. \A p \in M : p \in Unsaved /\ p < i
  BY DEF Settled
<1>6. \A p \in Unsaved : Place(N, p)' = Place(M, p)
  BY <1>1, <1>5 DEF Place
<1>7. Apart(N)'
  <2>1. Apart(M)
    BY DEF Settled
  <2>2. Unsaved' = Unsaved /\ used' = used
    BY <1>1
  <2>3. QED
    BY <1>6, <2>1, <2>2 DEF Apart
<1>8. Undisturbed(N)'
  <2> SUFFICES ASSUME NEW q \in N, NEW p \in Unsaved, (p \in N /\ p > q) \/ p >= i + 1
               PROVE  color[p] # permregs[q]
    BY <1>1 DEF Undisturbed
  <2>1. CASE q = i
    <3>1. p \in i + 1 .. NPerm
      BY <1>1, <1>5, <2>1 DEF Perm
    <3>2. QED
      BY <2>1, <3>1 DEF SaveMove, Taker
  <2>2. CASE q # i
    BY <1>1, <2>2 DEF Settled, Undisturbed
  <2>3. QED
    BY <2>1, <2>2
<1>9. \A q \in M : color[i] # permregs[q] /\ color[i] # color[q]
  <2>1. ASSUME NEW q \in M PROVE color[i] # permregs[q] /\ color[i] # color[q]
    <3>1. color[i] # permregs[q]
      BY <1>1 DEF Settled, Undisturbed
    <3>2. Place(M, k) = color[i] /\ Place(M, q) = color[q] /\ q # i
      BY <1>1, <1>5 DEF Place
    <3>3. QED
      BY <1>1, <1>5, <3>1, <3>2 DEF Settled, Apart
  <2>2. QED
    BY <2>1
<1>10. Saves(N)'
  <2> SUFFICES ASSUME NEW R \in [Reg -> Value]
               PROVE  /\ \A q \in N : AfterMoves(R, entry')[color[q]] = R[permregs[q]]
                      /\ \A r \in Reg : (\A q \in N : color[q] # r) =>
                                           AfterMoves(R, entry')[r] = R[r]
    BY <1>1 DEF Saves
  <2> DEFINE Q == Moved(R, in)
  <2>1. AfterMoves(R, entry') = AfterMoves(Q, entry)
    BY <1>2, <1>3, OneMoveBefore
  <2>2. /\ Q \in [Reg -> Value]
        /\ Q[color[i]] = R[permregs[i]]
        /\ \A r \in Reg \ {color[i]} : Q[r] = R[r]
    BY <1>2, MovedType
  <2> HIDE DEF Q
  <2>3. /\ \A q \in M : AfterMoves(Q, entry)[color[q]] = Q[permregs[q]]
        /\ \A r \in Reg : (\A q \in M : color[q] # r) => AfterMoves(Q, entry)[r] = Q[r]
    BY <2>2 DEF Settled, Saves
  <2>4. \A q \in M : AfterMoves(Q, entry)[color[q]] = R[permregs[q]]
    BY <1>2, <1>5, <1>9, <2>2, <2>3
  <2>5. AfterMoves(Q, entry)[color[i]] = R[permregs[i]]
    BY <1>1, <1>2, <1>9, <2>2, <2>3
  <2>6. \A r \in Reg : (\A q \in N : color[q] # r) => AfterMoves(Q, entry)[r] = R[r]
    BY <2>2, <2>3
  <2>7. QED
    BY <2>1, <2>4, <2>5, <2>6
<1>11. Restores(N)'
  <2> SUFFICES ASSUME NEW R \in [Reg -> Value]
               PROVE  /\ \A q \in N : AfterMoves(R, exit')[permregs[q]] = R[color[q]]
                      /\ \A r \in Reg : (\A q \in N : permregs[q] # r) =>
                                           AfterMoves(R, exit')[r] = R[r]
    BY <1>1 DEF Restores
  <2> DEFINE Q == AfterMoves(R, exit)
  <2>1. AfterMoves(R, exit') = Moved(Q, out)
    BY <1>2, <1>3, OneMoveMore
  <2>2. Q \in [Reg -> Value]
    BY <1>2, AfterMovesType
  <2>3. /\ \A q \in M : Q[permregs[q]] = R[color[q]]
        /\ \A r \in Reg : (\A q \in M : permregs[q] # r) => Q[r] = R[r]
    BY DEF Settled, Restores
  <2> HIDE DEF Q
  <2>4. /\ Moved(Q, out)[permregs[i]] = Q[color[i]]
        /\ \A r \in Reg \ {permregs[i]} : Moved(Q, out)[r] = Q[r]
    BY <1>2, <2>2, MovedType
  <2>5. Q[color[i]] = R[color[i]]
    BY <1>1, <1>2, <1>9, <2>3
  <2>6. \A q \in M : permregs[q] # permregs[i] /\ permregs[q] \in Reg
    BY <1>1, <1>2, <1>5
  <2>7. QED
    BY <2>1, <2>3, <2>4, <2>5, <2>6
<1>12. \A p \in N : p < i'
  BY <1>1, <1>5
<1>13. QED
  BY <1>1, <1>4, <1>7, <1>8, <1>10, <1>11, <1>12 DEF Settled

(* One case for each action.                                               *)
LEMMA PermStep ==
  ASSUME NoRegisterZero, SpillInv, PermInv, [Next]_vars
  PROVE  PermInv'
<1>1. CASE Spill
  BY <1>1 DEF Spill, PermInv, PermTypes
<1>2. CASE Colored
  BY <1>2, ColoredPerms
<1>3. CASE Rewrite
  <2>1. UNCHANGED <<i, color, entry, exit>> /\ phase' \in {"alloc", "comperr"}
        /\ phase = "rewrite"
    BY <1>3 DEF Rewrite, ONLYPERM, SMALL, TopNode
  <2>2. nsavregs' \subseteq Perm
    BY <1>3, SpillStep DEF Next, SpillInv, SpillTypes
  <2>3. QED
    BY <2>1, <2>2 DEF PermInv, PermTypes
<1>4. CASE InPlace \/ Swap \/ SaveMove
  <2>1. PICK M \in SUBSET Unsaved : Settled(M)
    BY <1>4 DEF InPlace, Swap, SaveMove, AtPerm, PermInv
  <2>2. /\ phase = "perms" /\ phase' = "perms" /\ Unsaved' = Unsaved
        /\ nsavregs' = nsavregs /\ i' \in 1 .. NPerm + 1
    BY <1>4, SpillAssumption DEF InPlace, Swap, SaveMove, AtPerm, Unsaved, PermInv, PermTypes
  <2>3. CASE InPlace
    <3>1. UNCHANGED <<color, entry, exit>>
      BY <2>3 DEF InPlace
    <3>2. QED
      BY <2>1, <2>2, <2>3, <3>1, InPlaceSettles DEF PermInv, PermTypes
  <2>4. CASE Swap
    <3>1. UNCHANGED <<entry, exit>>
      BY <2>4 DEF Swap
    <3>2. QED
      BY <2>1, <2>2, <2>4, <3>1, SwapSettles DEF PermInv, PermTypes
  <2>5. CASE SaveMove
    <3>1. color' = color
      BY <2>5 DEF SaveMove
    <3> PICK k : k = i
      OBVIOUS
    <3>2. /\ Settled(M \cup {k})' /\ M \cup {k} \in SUBSET Unsaved'
          /\ entry' \in Seq(Move) /\ exit' \in Seq(Move)
      BY <2>1, <2>2, <2>5, SaveMoveSettles
    <3>3. \E N \in SUBSET Unsaved' : Settled(N)'
      BY <3>2
    <3>4. QED
      BY <2>2, <3>1, <3>2, <3>3 DEF PermInv, PermTypes
  <2>6. QED
    BY <1>4, <2>3, <2>4, <2>5
<1>5. CASE PermsDone \/ UNCHANGED vars
  <2>1. UNCHANGED <<nsavregs, color, used, i, entry, exit>> /\ Unsaved' = Unsaved
    BY <1>5 DEF PermsDone, vars, Unsaved
  <2>2. \A M : Settled(M) => Settled(M)'
    BY <2>1 DEF Settled, Apart, Place, Undisturbed, Saves, Restores
  <2>3. CASE PermsDone
    <3>1. phase = "perms" /\ phase' = "done" /\ i = NPerm + 1
      BY <2>3, SpillAssumption DEF PermsDone, PermInv, PermTypes
    <3>2. QED
      BY <2>1, <2>2, <3>1 DEF PermInv, PermTypes
  <2>4. CASE UNCHANGED vars
    <3>1. phase' = phase
      BY <2>4 DEF vars
    <3>2. QED
      BY <2>1, <2>2, <3>1 DEF PermInv, PermTypes
  <2>5. QED
    BY <1>5, <2>3, <2>4
<1>6. QED
  BY <1>1, <1>2, <1>3, <1>4, <1>5 DEF Next, SavePerms, Ended

(* When all registers are settled the moves in and out cancel.             *)
LEMMA SettledRestores ==
  ASSUME PermInv, phase = "done", NEW p \in Perm
  PROVE  AtReturn[permregs[p]] = permregs[p]
<1>1. PICK M \in SUBSET Unsaved : Settled(M)
  BY DEF PermInv
<1> DEFINE start == AfterMoves([r \in Reg |-> r], entry)
           body == [r \in Reg |-> IF r \in used THEN Junk ELSE start[r]]
           end == AfterMoves(body, exit)
           x == permregs[p]
<1>2. AtReturn = [r \in Reg |-> IF \E q \in nsavregs : permregs[q] = r THEN r ELSE end[r]]
  BY DEF AtReturn
<1>3. x \in Reg /\ \A q \in Perm : permregs[q] = x => q = p
  BY SpillAssumption
<1>4. CASE p \in nsavregs
  BY <1>2, <1>3, <1>4
<1>5. CASE p \notin nsavregs
  <2>1. p \in Unsaved /\ p < i /\ \A q \in nsavregs : permregs[q] # x
    BY <1>3, <1>5, SpillAssumption DEF Unsaved, PermInv, PermTypes, Perm
  <2>2. \A q \in M : color[q] \in Reg /\ color[q] = Place(M, q) /\ q \in Unsaved /\ q \in Perm
    BY <1>1 DEF Place, PermInv, Unsaved
  <2>3. [r \in Reg |-> r] \in [Reg -> Value]
    BY DEF Value
  <2>4. start \in [Reg -> Value]
    BY <2>3, AfterMovesType DEF PermInv, PermTypes
  <2>5. /\ \A q \in M : start[color[q]] = permregs[q]
        /\ \A r \in Reg : (\A q \in M : color[q] # r) => start[r] = r
    <3>1. \A q \in M : permregs[q] \in Reg
      BY <2>2, SpillAssumption
    <3>2. QED
      BY <1>1, <2>3, <3>1 DEF Settled, Saves
  <2> HIDE DEF start
  <2>6. body \in [Reg -> Value] /\ \A r \in Reg \ used : body[r] = start[r]
    BY <2>4 DEF Value
  <2> HIDE DEF body
  <2>7. /\ \A q \in M : end[permregs[q]] = body[color[q]]
        /\ \A r \in Reg : (\A q \in M : permregs[q] # r) => end[r] = body[r]
    BY <1>1, <2>6 DEF Settled, Restores
  <2> HIDE DEF end
  <2>8. end[x] = x
    <3>1. CASE p \in M
      <4>1. color[p] \in Reg \ used
        BY <1>1, <2>1, <2>2, <3>1 DEF Settled, Apart
      <4>2. QED
        BY <2>5, <2>6, <2>7, <3>1, <4>1
    <3>2. CASE p \notin M
      <4>1. Place(M, p) = x
        BY <2>1, <3>2 DEF Place
      <4>2. x \in Reg \ used /\ \A q \in M : color[q] # x
        BY <1>1, <1>3, <2>1, <2>2, <3>2, <4>1 DEF Settled, Apart
      <4>3. \A q \in M : permregs[q] # x
        BY <1>3, <2>2, <3>2
      <4>4. QED
        BY <1>3, <2>5, <2>6, <2>7, <4>2, <4>3
    <3>3. QED
      BY <3>1, <3>2
  <2>9. QED
    BY <1>2, <1>3, <2>1, <2>8
<1>6. QED
  BY <1>4, <1>5

(* At the return every callee-saved register holds what it held at the     *)
(* call, whether it was left alone, kept in another register or saved on   *)
(* the stack, and in whatever order the swaps were made (regs.c            *)
(* 3110-3159).                                                             *)
THEOREM RegistersSurvive ==
  ASSUME NoRegisterZero
  PROVE  Spec => []PermsRestored
<1>1. Init => SpillInv /\ PermInv
  BY SpillInit, PermInitial
<1>2. SpillInv /\ PermInv /\ [Next]_vars => SpillInv' /\ PermInv'
  BY SpillStep, PermStep
<1>3. PermInv => PermsRestored
  BY SettledRestores DEF PermsRestored
<1>4. QED
  BY <1>1, <1>2, <1>3, PTL DEF Spec

=============================================================================
