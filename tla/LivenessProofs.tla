--------------------------- MODULE LivenessProofs ---------------------------
(***************************************************************************)
(* When the sweeps of Build end, gen, killed, in and out solve the flow    *)
(* equations, for every program, any number of blocks, and whatever dce    *)
(* removes between two analyses.                                           *)
(*                                                                         *)
(* That solution is liveness itself: in and out hold a variable exactly    *)
(* where a path reads it before it is assigned.  dce then removes only     *)
(* what is dead, though it does not compute the sets again after each      *)
(* removal, and what insnwalk reads from them links all that is live       *)
(* together.  Sweeps and removals do not start one another for ever.       *)
(***************************************************************************)
EXTENDS Liveness, FiniteSetTheorems, SequenceTheorems, WellFoundedInduction, TLAPS


-----------------------------------------------------------------------------
(* A set of natural numbers has a least element.                           *)
LEMMA LeastNat ==
  ASSUME NEW S, S \subseteq Nat, S # {}
  PROVE  \E n \in S : \A m \in S : n <= m
<1>1. PICK n \in S : \A m \in S : <<m, n>> \notin OpToRel(<, Nat)
  BY WFMin, NatLessThanWellFounded
<1>2. \A m \in S : ~(m < n)
  BY <1>1 DEF OpToRel
<1>3. QED
  BY <1>2

(* Induction: what holds of 0 and, with a number, of the next, holds.  The *)
(* library's theorems have a predicate as parameter, which no prover here  *)
(* can instantiate; a set says the same.                                   *)
LEMMA SetInduction ==
  ASSUME NEW S, 0 \in S, \A n \in Nat : n \in S => n + 1 \in S
  PROVE  Nat \subseteq S
<1>1. SUFFICES ASSUME Nat \ S # {} PROVE FALSE
  OBVIOUS
<1>2. PICK n \in Nat \ S : \A m \in Nat \ S : n <= m
  BY <1>1, LeastNat
<1>3. n # 0 /\ n - 1 \in Nat /\ n - 1 \in S
  BY <1>2
<1>4. QED
  BY <1>2, <1>3

(* A function on 0 .. N given by its first value and the step from each to *)
(* the next, and that there is one.                                        *)
Stepped(g, T, base, G, N) ==
  /\ g \in [0 .. N -> T]
  /\ g[0] = base
  /\ \A n \in 1 .. N : g[n] = G[<<n, g[n - 1]>>]

LEMMA RecursionExists ==
  ASSUME NEW T, NEW base \in T, NEW N \in Nat, NEW G \in [(1 .. N) \X T -> T]
  PROVE  \E g : Stepped(g, T, base, G, N)
<1> DEFINE S == {n \in Nat : n <= N => \E g : Stepped(g, T, base, G, n)}
<1>1. 0 \in S
  <2>1. Stepped([n \in 0 .. 0 |-> base], T, base, G, 0)
    BY DEF Stepped
  <2>2. QED
    BY <2>1
<1>2. ASSUME NEW n \in Nat, n \in S PROVE n + 1 \in S
  <2>1. SUFFICES ASSUME n + 1 <= N PROVE \E g : Stepped(g, T, base, G, n + 1)
    OBVIOUS
  <2>2. PICK k : k = n + 1
    OBVIOUS
  <2>3. /\ k \in 1 .. N /\ n \in 0 .. n /\ k \in 0 .. k /\ k \notin 0 .. n /\ k - 1 = n
        /\ \A m \in 0 .. k : m # k => m \in 0 .. n
        /\ \A m \in 1 .. k : m \in 0 .. k /\ m - 1 \in 0 .. n /\ (m # k => m \in 1 .. n)
        /\ 0 \in 0 .. n /\ \A m \in 0 .. n : m \in 0 .. k /\ m # k
    BY <2>1, <2>2
  <2>4. PICK f : Stepped(f, T, base, G, n)
    BY <1>2, <2>2, <2>3
  <2>5. PICK t \in T : t = G[<<k, f[n]>>]
    BY <2>3, <2>4 DEF Stepped
  <2>6. PICK g : g = [m \in 0 .. k |-> IF m = k THEN t ELSE f[m]]
    OBVIOUS
  <2>7. g \in [0 .. k -> T] /\ g[0] = base
    BY <2>3, <2>4, <2>6 DEF Stepped
  <2>8. \A m \in 1 .. k : g[m] = G[<<m, g[m - 1]>>]
    BY <2>3, <2>4, <2>5, <2>6 DEF Stepped
  <2>9. Stepped(g, T, base, G, k)
    BY <2>7, <2>8 DEF Stepped
  <2>10. QED
    BY <2>2, <2>9
<1> HIDE DEF S
<1>3. N \in S
  BY <1>1, <1>2, SetInduction
<1>4. QED
  BY <1>3 DEF S

-----------------------------------------------------------------------------

AtEnd(b) == IF b = NBlocks THEN Perm ELSE {}

FromChildren(b) == UNION {in[c] : c \in child(b)}

(* The two flow equations at b, and the half of them that always holds:    *)
(* a sweep only adds to the sets what the equations ask for.               *)
OutSolved(b) == out[b] = FromChildren(b) \cup AtEnd(b)
InSolved(b)  == in[b] = gen[b] \cup (out[b] \ killed[b])
OutBound(b)  == AtEnd(b) \subseteq out[b] /\ out[b] \subseteq FromChildren(b) \cup AtEnd(b)
InBound(b)   == in[b] \subseteq gen[b] \cup (out[b] \ killed[b])

FlowTypes ==
  /\ jump \in [Block -> Jump]
  /\ bblocks \subseteq Block
  /\ bb \in Int
  /\ again \in BOOLEAN
  /\ DOMAIN in = Block
  /\ DOMAIN out = Block
  /\ in = [b \in Block |-> in[b]]
  /\ out = [b \in Block |-> out[b]]

Bounds == phase = "sweep" => \A b \in Block : OutBound(b) /\ InBound(b)

(* What this sweep has seen and left unchanged is solved. *)
SweptSolved ==
  phase = "sweep" /\ ~ again =>
    \A b \in bblocks : b > bb => OutSolved(b) /\ InSolved(b)

AllSolved ==
  phase \in {"dce", "walk", "done"} => \A b \in bblocks : OutSolved(b) /\ InSolved(b)

FlowInv == FlowTypes /\ Bounds /\ SweptSolved /\ AllSolved

-----------------------------------------------------------------------------

LEMMA ChildIsBlock ==
  ASSUME jump \in [Block -> Jump], NEW b \in Block
  PROVE  child(b) \subseteq Block
<1>1. NBlocks \in Nat
  BY LivenessAssumption
<1>2. jump[b].to \in Block
  BY DEF Jump
<1> QED
  BY <1>1, <1>2 DEF child, Block

(* child depends on the jumps only.                                        *)
LEMMA SameChildren ==
  ASSUME jump' = jump
  PROVE  \A b : child(b)' = child(b)
BY DEF child

(* A step that leaves the flow sets alone leaves the equations alone.      *)
LEMMA SameEquations ==
  ASSUME jump' = jump, gen' = gen, killed' = killed, in' = in, out' = out
  PROVE  \A b : /\ OutSolved(b)' <=> OutSolved(b)
                /\ InSolved(b)' <=> InSolved(b)
                /\ OutBound(b)' <=> OutBound(b)
                /\ InBound(b)' <=> InBound(b)
BY SameChildren DEF OutSolved, InSolved, OutBound, InBound, FromChildren, AtEnd

LEMMA InitFlow == Init => FlowInv
<1> SUFFICES ASSUME Init PROVE FlowInv
  OBVIOUS
<1>1. jump \in [Block -> Jump]
  BY LivenessAssumption DEF Init
<1>2. bb \in Int
  BY LivenessAssumption DEF Init
<1> QED
  BY <1>1, <1>2 DEF Init, FlowInv, FlowTypes, Bounds, SweptSolved, AllSolved

LEMMA AnalysisFlow == FlowInv /\ LivenessAnalysis => FlowInv'
<1> SUFFICES ASSUME FlowInv, LivenessAnalysis PROVE FlowInv'
  OBVIOUS
<1> USE DEF LivenessAnalysis
<1>1. NBlocks \in Nat
  BY LivenessAssumption
<1>2. FlowTypes'
  <2>1. jump' = jump /\ bblocks' = bblocks /\ bb' \in Int
    BY <1>1 DEF program
  <2>2. in' = [b \in Block |-> IF b \in bblocks THEN unionize(b) ELSE {}]
        /\ out' = [b \in Block |-> IF b = NBlocks THEN Perm ELSE {}]
    OBVIOUS
  <2>3. again' = FALSE
    OBVIOUS
  <2> HIDE DEF LivenessAnalysis
  <2> QED
    BY <2>1, <2>2, <2>3 DEF FlowInv, FlowTypes
<1>3. Bounds'
  <2> SUFFICES ASSUME NEW b \in Block PROVE OutBound(b)' /\ InBound(b)'
    BY DEF Bounds
  <2>1. out'[b] = AtEnd(b) /\ in'[b] = gen'[b]
    BY DEF AtEnd
  <2> QED
    BY <2>1 DEF OutBound, InBound, AtEnd
<1>4. SweptSolved'
  <2> SUFFICES ASSUME NEW b \in bblocks', b > bb' PROVE FALSE
    BY DEF SweptSolved
  <2>1. b \in 1 .. NBlocks /\ bb' = NBlocks
    BY DEF FlowInv, FlowTypes, Block
  <2> QED
    BY <1>1, <2>1
<1>5. AllSolved'
  BY DEF AllSolved
<1> QED
  BY <1>2, <1>3, <1>4, <1>5 DEF FlowInv

LEMMA SweepFlow == FlowInv /\ Sweep => FlowInv'
<1> SUFFICES ASSUME FlowInv, Sweep PROVE FlowInv'
  OBVIOUS
<1>0. jump' = jump /\ gen' = gen /\ killed' = killed /\ bblocks' = bblocks
      /\ phase = "sweep" /\ phase' = "sweep" /\ bb' = bb - 1
  BY DEF Sweep, program
<1>1. \A b : child(b)' = child(b)
  BY <1>0, SameChildren
<1>2. FlowTypes
  BY DEF FlowInv
<1>3. \A b \in Block : OutBound(b) /\ InBound(b)
  BY <1>0 DEF FlowInv, Bounds
<1>4. AllSolved'
  BY <1>0 DEF AllSolved
<1>5. CASE bb \notin bblocks
  <2>1. in' = in /\ out' = out /\ again' = again
    BY <1>5 DEF Sweep
  <2>2. FlowTypes'
    BY <1>0, <1>2, <2>1 DEF FlowTypes
  <2>3. Bounds'
    BY <1>0, <1>3, <2>1, SameEquations DEF Bounds
  <2>4. SweptSolved'
    <3> SUFFICES ASSUME ~ again', NEW b \in bblocks, b > bb - 1
                 PROVE  OutSolved(b)' /\ InSolved(b)'
      BY <1>0 DEF SweptSolved
    <3>1. b > bb
      <4>1. b \in Int /\ bb \in Int /\ b # bb
        BY <1>2, <1>5, LivenessAssumption DEF FlowTypes, Block
      <4> QED
        BY <4>1
    <3>2. OutSolved(b) /\ InSolved(b)
      BY <1>0, <2>1, <3>1 DEF FlowInv, SweptSolved
    <3> QED
      BY <1>0, <2>1, <3>2, SameEquations
  <2> QED
    BY <1>4, <2>2, <2>3, <2>4 DEF FlowInv
<1>6. CASE bb \in bblocks
  <2>1. bb \in Block
    BY <1>2, <1>6 DEF FlowTypes
  <2>2. /\ out' = [out EXCEPT ![bb] = @ \cup FromChildren(bb)]
        /\ in' = [in EXCEPT ![bb] = gen[bb] \cup (out'[bb] \ killed[bb])]
        /\ again' = (again \/ out' # out \/ in' # in)
    BY <1>6 DEF Sweep, Flow, FromChildren
  <2>3. /\ out'[bb] = out[bb] \cup FromChildren(bb)
        /\ in'[bb] = gen[bb] \cup (out'[bb] \ killed[bb])
    BY <1>2, <2>1, <2>2 DEF FlowTypes
  <2>4. \A b \in Block : b # bb => out'[b] = out[b] /\ in'[b] = in[b]
    BY <1>2, <2>1, <2>2 DEF FlowTypes
  <2>5. FlowTypes'
    <3>1. DOMAIN in' = Block /\ DOMAIN out' = Block
      BY <1>2, <2>2 DEF FlowTypes
    <3>2. in' = [b \in Block |-> in'[b]] /\ out' = [b \in Block |-> out'[b]]
      BY <1>2, <2>2 DEF FlowTypes
    <3>3. again' \in BOOLEAN
      BY <2>2
    <3> QED
      BY <1>0, <1>2, <3>1, <3>2, <3>3 DEF FlowTypes
  <2>6. \A b \in Block : out[b] \subseteq out'[b] /\ in[b] \subseteq in'[b]
    <3> SUFFICES ASSUME NEW b \in Block
                 PROVE  out[b] \subseteq out'[b] /\ in[b] \subseteq in'[b]
      OBVIOUS
    <3>1. CASE b # bb
      BY <2>4, <3>1
    <3>2. CASE b = bb
      <4>1. in[bb] \subseteq gen[bb] \cup (out[bb] \ killed[bb])
        BY <1>3, <2>1 DEF InBound
      <4> QED
        BY <2>3, <3>2, <4>1
    <3> QED
      BY <3>1, <3>2
  <2>7. \A b \in Block : FromChildren(b) \subseteq FromChildren(b)'
    <3> SUFFICES ASSUME NEW b \in Block, NEW v \in FromChildren(b)
                 PROVE  v \in FromChildren(b)'
      OBVIOUS
    <3>1. PICK c \in child(b) : v \in in[c]
      BY DEF FromChildren
    <3>2. c \in Block
      BY <1>2, ChildIsBlock DEF FlowTypes
    <3>3. v \in in'[c] /\ c \in child(b)'
      BY <1>1, <2>6, <3>1, <3>2
    <3> QED
      BY <3>3 DEF FromChildren
  <2>8. Bounds'
    <3> SUFFICES ASSUME NEW b \in Block PROVE OutBound(b)' /\ InBound(b)'
      BY <1>0 DEF Bounds
    <3>1. OutBound(b) /\ InBound(b) /\ AtEnd(b)' = AtEnd(b)
      BY <1>3 DEF AtEnd
    <3>2. out[b] \subseteq out'[b] /\ FromChildren(b) \subseteq FromChildren(b)'
      BY <2>6, <2>7
    <3>3. CASE b # bb
      BY <1>0, <2>4, <3>1, <3>2, <3>3 DEF OutBound, InBound
    <3>4. CASE b = bb
      BY <1>0, <2>3, <3>1, <3>2, <3>4 DEF OutBound, InBound
    <3> QED
      BY <3>3, <3>4
  <2>9. SweptSolved'
    <3> SUFFICES ASSUME ~ again', NEW b \in bblocks, b > bb - 1
                 PROVE  OutSolved(b)' /\ InSolved(b)'
      BY <1>0 DEF SweptSolved
    <3>1. ~ again /\ out' = out /\ in' = in
      BY <2>2
    <3>2. OutSolved(b) /\ InSolved(b)
      <4>1. CASE b = bb
        <5>1. out[bb] = out[bb] \cup FromChildren(bb)
              /\ in[bb] = gen[bb] \cup (out[bb] \ killed[bb])
          BY <2>3, <3>1
        <5>2. OutBound(bb)
          BY <1>3, <2>1
        <5> QED
          BY <4>1, <5>1, <5>2 DEF OutSolved, InSolved, OutBound
      <4>2. CASE b # bb
        <5>1. b \in Int /\ bb \in Int
          BY <1>2, LivenessAssumption DEF FlowTypes, Block
        <5>2. b > bb
          BY <4>2, <5>1
        <5> QED
          BY <1>0, <3>1, <5>2 DEF FlowInv, SweptSolved
      <4> QED
        BY <4>1, <4>2
    <3> QED
      BY <1>0, <3>1, <3>2, SameEquations
  <2> QED
    BY <1>4, <2>5, <2>8, <2>9 DEF FlowInv
<1> QED
  BY <1>5, <1>6

LEMMA SweepEndFlow == FlowInv /\ SweepEnd => FlowInv'
<1> SUFFICES ASSUME FlowInv, SweepEnd PROVE FlowInv'
  OBVIOUS
<1>0. /\ jump' = jump /\ bblocks' = bblocks
      /\ gen' = gen /\ killed' = killed /\ in' = in /\ out' = out
      /\ phase = "sweep" /\ bb = 0 /\ again' = FALSE
  BY DEF SweepEnd, program, sets
<1>1. NBlocks \in Nat
  BY LivenessAssumption
<1>2. bb' \in Int
  BY <1>1 DEF SweepEnd
<1>3. FlowTypes'
  BY <1>0, <1>2 DEF FlowInv, FlowTypes
<1>4. \A b \in bblocks : b \in Int /\ b > 0 /\ b <= NBlocks
  BY <1>1 DEF FlowInv, FlowTypes, Block
<1>5. CASE again
  <2>1. bb' = NBlocks /\ phase' = "sweep"
    BY <1>0, <1>5 DEF SweepEnd
  <2>2. Bounds'
    BY <1>0, SameEquations DEF FlowInv, Bounds
  <2>3. SweptSolved'
    <3>1. \A b \in bblocks : ~ (b > NBlocks)
      BY <1>1, <1>4
    <3> QED
      BY <1>0, <2>1, <3>1 DEF SweptSolved
  <2> QED
    BY <1>3, <2>1, <2>2, <2>3 DEF FlowInv, AllSolved
<1>6. CASE ~ again
  <2>1. phase' = "dce"
    BY <1>6 DEF SweepEnd
  <2>2. \A b \in bblocks : OutSolved(b) /\ InSolved(b)
    BY <1>0, <1>4, <1>6 DEF FlowInv, SweptSolved
  <2>3. AllSolved'
    BY <1>0, <2>2, SameEquations DEF AllSolved
  <2> QED
    BY <1>3, <2>1, <2>3 DEF FlowInv, Bounds, SweptSolved
<1> QED
  BY <1>5, <1>6

(* Once the sweeps are over, dce may take blocks off the list and start a  *)
(* new analysis, and nothing else touches the flow sets.                   *)
LEMMA AfterSweeps ==
  ASSUME FlowInv, jump' = jump, sets' = sets, again' = again,
         phase \in {"dce", "walk", "done"},
         phase' \in {"dce", "walk", "done", "analyse"},
         bblocks' \subseteq bblocks, bb' \in Int
  PROVE  FlowInv'
<1>1. gen' = gen /\ killed' = killed /\ in' = in /\ out' = out
  BY DEF sets
<1>2. FlowTypes'
  BY <1>1 DEF FlowInv, FlowTypes
<1>3. AllSolved'
  BY <1>1, SameEquations DEF FlowInv, AllSolved
<1> QED
  BY <1>2, <1>3 DEF FlowInv, Bounds, SweptSolved

LEMMA DceFlow == FlowInv /\ dce => FlowInv'
<1> SUFFICES ASSUME FlowInv, dce PROVE FlowInv'
  OBVIOUS
<1>0. bb \in Int
  BY DEF FlowInv, FlowTypes
<1>1. CASE dceEnter
  BY <1>0, <1>1, AfterSweeps DEF dceEnter, NextBlock, program
<1>2. CASE dceKeep
  BY <1>0, <1>2, AfterSweeps DEF dceKeep, AtStmt, program
<1>3. CASE dceStrip
  BY <1>0, <1>3, AfterSweeps DEF dceStrip, AtStmt
<1>4. CASE dceRemove
  <2>1. bblocks' \subseteq bblocks
    BY <1>4 DEF dceRemove
  <2>2. bb' \in Int
    BY <1>0, <1>4 DEF dceRemove, NextBlock
  <2> QED
    BY <1>4, <2>1, <2>2, AfterSweeps DEF dceRemove, AtStmt
<1>5. CASE dceNext
  BY <1>0, <1>5, AfterSweeps DEF dceNext, NextBlock, program
<1>6. CASE dceEnd
  BY <1>6, AfterSweeps DEF dceEnd, program
<1> QED
  BY <1>1, <1>2, <1>3, <1>4, <1>5, <1>6 DEF dce

LEMMA StepFlow == FlowInv /\ [Next]_vars => FlowInv'
<1> SUFFICES ASSUME FlowInv, [Next]_vars PROVE FlowInv'
  OBVIOUS
<1>0. bb \in Int
  BY DEF FlowInv, FlowTypes
<1>1. CASE LivenessAnalysis
  BY <1>1, AnalysisFlow
<1>2. CASE Sweep
  BY <1>2, SweepFlow
<1>3. CASE SweepEnd
  BY <1>3, SweepEndFlow
<1>4. CASE dce
  BY <1>4, DceFlow
<1>5. CASE insnwalk
  BY <1>0, <1>5, AfterSweeps DEF insnwalk, program
<1>6. CASE BuildDone
  BY <1>0, <1>6, AfterSweeps DEF BuildDone, program
<1>7. CASE UNCHANGED vars
  <2>1. /\ jump' = jump /\ bblocks' = bblocks /\ phase' = phase /\ bb' = bb
        /\ gen' = gen /\ killed' = killed /\ in' = in /\ out' = out /\ again' = again
    BY <1>7 DEF vars
  <2>2. FlowTypes'
    BY <2>1 DEF FlowInv, FlowTypes
  <2> QED
    BY <2>1, <2>2, SameEquations DEF FlowInv, Bounds, SweptSolved, AllSolved
<1> QED
  BY <1>1, <1>2, <1>3, <1>4, <1>5, <1>6, <1>7 DEF Next, Finished

LEMMA FlowIsSolved == FlowInv => Solved
BY DEF FlowInv, AllSolved, Solved, OutSolved, InSolved, FromChildren, AtEnd

(* Build: when the loop over the blocks ends because a sweep changed       *)
(* nothing, and from then on until the next analysis, the sets of every    *)
(* listed block solve the flow equations.                                  *)
THEOREM FixedPoint == Spec => []Solved
<1>1. Spec => []FlowInv
  BY InitFlow, StepFlow, PTL DEF Spec
<1> QED
  BY <1>1, FlowIsSolved, PTL

-----------------------------------------------------------------------------
(* Is the value of v after the k-th of the statements s wanted, by one of  *)
(* them before it is assigned or, since v is in U, behind them?            *)
Wanted(s, U, v, k) ==
  \/ \E j \in k + 1 .. Len(s) : v \in s[j].use /\ \A i \in k + 1 .. j - 1 : s[i].def # v
  \/ v \in U /\ \A i \in k + 1 .. Len(s) : s[i].def # v

LEMMA WantedEnd ==
  ASSUME NEW s \in Seq(Stmt), NEW U, NEW v
  PROVE  Wanted(s, U, v, Len(s)) <=> v \in U
<1>1. Len(s) \in Nat
  OBVIOUS
<1>2. Len(s) + 1 .. Len(s) = {}
  BY <1>1
<1>3. QED
  BY <1>2 DEF Wanted

LEMMA WantedStep ==
  ASSUME NEW s \in Seq(Stmt), NEW U, NEW v, NEW k \in 1 .. Len(s)
  PROVE  Wanted(s, U, v, k - 1) <=> v \in s[k].use \/ (Wanted(s, U, v, k) /\ s[k].def # v)
<1>1. Len(s) \in Nat /\ (k - 1) + 1 = k /\ k \in k .. Len(s) /\ k .. k - 1 = {}
  OBVIOUS
<1>2. \A j \in k .. Len(s) : j = k \/ j \in k + 1 .. Len(s)
  BY <1>1
<1>3. \A j \in k + 1 .. Len(s) : j \in k .. Len(s) /\ k \in k .. j - 1
  BY <1>1
<1>4. \A j \in k + 1 .. Len(s) : \A i \in k .. j - 1 : i = k \/ i \in k + 1 .. j - 1
  BY <1>1
<1>5. \A j \in k + 1 .. Len(s) : \A i \in k + 1 .. j - 1 : i \in k .. j - 1
  BY <1>1
<1> HIDE DEF Stmt
<1>6. ASSUME Wanted(s, U, v, k - 1)
      PROVE  v \in s[k].use \/ (Wanted(s, U, v, k) /\ s[k].def # v)
  <2>1. CASE v \in U /\ \A i \in k .. Len(s) : s[i].def # v
    BY <1>1, <1>3, <2>1 DEF Wanted
  <2>2. CASE \E j \in k .. Len(s) : v \in s[j].use /\ \A i \in k .. j - 1 : s[i].def # v
    <3>1. PICK j \in k .. Len(s) : v \in s[j].use /\ \A i \in k .. j - 1 : s[i].def # v
      BY <2>2
    <3>2. CASE j = k
      BY <3>1, <3>2
    <3>3. CASE j # k
      <4>1. j \in k + 1 .. Len(s)
        BY <1>2, <3>3
      <4>2. s[k].def # v /\ \A i \in k + 1 .. j - 1 : s[i].def # v
        BY <1>3, <1>5, <3>1, <4>1
      <4>3. QED
        BY <3>1, <4>1, <4>2 DEF Wanted
    <3>4. QED
      BY <3>2, <3>3
  <2>3. QED
    BY <1>1, <1>6, <2>1, <2>2 DEF Wanted
<1>7. ASSUME v \in s[k].use
      PROVE  Wanted(s, U, v, k - 1)
  BY <1>1, <1>7 DEF Wanted
<1>8. ASSUME Wanted(s, U, v, k), s[k].def # v
      PROVE  Wanted(s, U, v, k - 1)
  <2>1. CASE v \in U /\ \A i \in k + 1 .. Len(s) : s[i].def # v
    <3>1. \A i \in k .. Len(s) : s[i].def # v
      BY <1>2, <1>8, <2>1
    <3>2. QED
      BY <1>1, <2>1, <3>1 DEF Wanted
  <2>2. CASE \E j \in k + 1 .. Len(s) : v \in s[j].use /\ \A i \in k + 1 .. j - 1 : s[i].def # v
    <3>1. PICK j \in k + 1 .. Len(s) : v \in s[j].use /\ \A i \in k + 1 .. j - 1 : s[i].def # v
      BY <2>2
    <3>2. j \in k .. Len(s) /\ \A i \in k .. j - 1 : s[i].def # v
      BY <1>3, <1>4, <1>8, <3>1
    <3>3. QED
      BY <1>1, <3>1, <3>2 DEF Wanted
  <2>3. QED
    BY <1>8, <2>1, <2>2 DEF Wanted
<1>9. QED
  BY <1>6, <1>7, <1>8

(* What LiveAt computes backwards is what a look forward finds.            *)
LEMMA LiveAtMeans ==
  ASSUME NEW b \in Block, body[b] \in Seq(Stmt), NEW L,
         NEW k \in 0 .. Len(body[b]), NEW v
  PROVE  v \in LiveAt(b, L, k) <=> Wanted(body[b], jump[b].use \cup L, v, k)
<1>1. PICK s : s = body[b]
  OBVIOUS
<1>2. PICK u : u = jump[b].use
  OBVIOUS
<1>3. s \in Seq(Stmt) /\ Len(s) \in Nat /\ k \in 0 .. Len(s)
  BY <1>1
<1>4. PICK N : N = Len(s)
  OBVIOUS
<1> DEFINE T == SUBSET (L \cup u \cup Var)
           G == [x \in (1 .. N) \X T |-> (x[2] \ {s[N - x[1] + 1].def}) \cup s[N - x[1] + 1].use]
           F(h) == [n \in 0 .. N |->
                     IF n = 0 THEN L \cup u
                     ELSE (h[n - 1] \ {s[N - n + 1].def}) \cup s[N - n + 1].use]
           f == CHOOSE h : h = F(h)
<1>5. LiveAt(b, L, k) = f[N - k]
  BY <1>1, <1>2, <1>4 DEF LiveAt
<1>6. \A n \in 1 .. N : N - n + 1 \in 1 .. N /\ s[N - n + 1] \in Stmt
  BY <1>3, <1>4
<1>7. \A n \in 1 .. N : s[N - n + 1].use \subseteq Var
  BY <1>6 DEF Stmt
<1>8. G \in [(1 .. N) \X T -> T]
  <2>1. ASSUME NEW x \in (1 .. N) \X T
        PROVE  (x[2] \ {s[N - x[1] + 1].def}) \cup s[N - x[1] + 1].use \in T
    <3>1. x[1] \in 1 .. N /\ x[2] \in T
      OBVIOUS
    <3>2. QED
      BY <1>7, <3>1
  <2>2. QED
    BY <2>1
<1>9. L \cup u \in T /\ N \in Nat
  BY <1>3, <1>4
<1>10. PICK h : Stepped(h, T, L \cup u, G, N)
  <2> HIDE DEF G, T
  <2>1. QED
    BY <1>8, <1>9, RecursionExists
<1>11. \A n \in 0 .. N : n # 0 => n \in 1 .. N /\ n - 1 \in 0 .. N
  BY <1>9
<1>12. \A n \in 1 .. N : h[n] = (h[n - 1] \ {s[N - n + 1].def}) \cup s[N - n + 1].use
  <2> TAKE n \in 1 .. N
  <2>1. h[n - 1] \in T
    BY <1>9, <1>10 DEF Stepped
  <2>2. <<n, h[n - 1]>> \in (1 .. N) \X T
    BY <2>1
  <2>3. QED
    BY <1>10, <2>2 DEF Stepped
<1>13. h = F(h)
  <2> HIDE DEF G, T
  <2>1. \A n \in 0 .. N : h[n] = F(h)[n]
    BY <1>10, <1>11, <1>12 DEF Stepped
  <2>2. DOMAIN h = 0 .. N /\ h = [n \in 0 .. N |-> h[n]]
    BY <1>10 DEF Stepped
  <2>3. QED
    BY <2>1, <2>2
<1>14. f = F(f)
  <2> HIDE DEF F
  <2>1. QED
    BY <1>13
<1> HIDE DEF f, G, T
<1>15. /\ f[0] = L \cup u
       /\ \A n \in 1 .. N : f[n] = (f[n - 1] \ {s[N - n + 1].def}) \cup s[N - n + 1].use
  <2>1. PICK g : g = f
    OBVIOUS
  <2>2. g = F(g)
    BY <1>14, <2>1
  <2>3. g[0] = L \cup u
    BY <1>9, <2>2
  <2>4. \A n \in 1 .. N : g[n] = (g[n - 1] \ {s[N - n + 1].def}) \cup s[N - n + 1].use
    BY <1>9, <2>2
  <2>5. QED
    BY <2>1, <2>3, <2>4
<1> HIDE DEF F
<1> DEFINE U == u \cup L
           S == {n \in Nat : n <= N => \A x : x \in f[n] <=> Wanted(s, U, x, N - n)}
<1>16. 0 \in S
  <2>1. N - 0 = N
    BY <1>9
  <2>2. QED
    BY <1>3, <1>4, <1>15, <2>1, WantedEnd
<1> HIDE DEF U
<1>17. ASSUME NEW n \in Nat, n \in S PROVE n + 1 \in S
  <2>1. ASSUME n + 1 <= N
        PROVE  \A x : x \in f[n + 1] <=> Wanted(s, U, x, N - (n + 1))
    <3>1. PICK m : m = N - n
      OBVIOUS
    <3>2. /\ n + 1 \in 1 .. N /\ n <= N /\ (n + 1) - 1 = n /\ N - (n + 1) + 1 = m
          /\ m \in 1 .. Len(s) /\ N - (n + 1) = m - 1
      BY <1>4, <1>9, <2>1, <3>1
    <3>3. \A x : x \in f[n] <=> Wanted(s, U, x, m)
      BY <1>17, <3>1, <3>2
    <3>4. f[n + 1] = (f[n] \ {s[m].def}) \cup s[m].use
      BY <1>15, <3>2
    <3> HIDE DEF S
    <3>5. \A x : Wanted(s, U, x, m - 1) <=> x \in s[m].use \/ (Wanted(s, U, x, m) /\ s[m].def # x)
      BY <1>3, <3>2, WantedStep
    <3>6. QED
      BY <3>2, <3>3, <3>4, <3>5
  <2>2. n + 1 \in Nat
    OBVIOUS
  <2>3. QED
    BY <2>1, <2>2
<1> HIDE DEF S
<1>18. Nat \subseteq S
  BY <1>16, <1>17, SetInduction
<1>19. N - k \in Nat /\ N - k <= N /\ N - (N - k) = k
  BY <1>3, <1>4
<1>20. v \in f[N - k] <=> Wanted(s, U, v, k)
  BY <1>18, <1>19 DEF S
<1>21. QED
  BY <1>1, <1>2, <1>5, <1>20 DEF U

-----------------------------------------------------------------------------
(* Taking an assignment away whose variable is not wanted makes nothing    *)
(* wanted, neither before it nor at the start of the block.                *)
LEMMA WithoutFacts ==
  ASSUME NEW s \in Seq(Stmt), NEW p \in 1 .. Len(s)
  PROVE  LET t == Without(s, p) IN
         /\ t \in Seq(Stmt)
         /\ Len(t) = Len(s) - 1
         /\ \A i \in 1 .. Len(t) : t[i] = IF i < p THEN s[i] ELSE s[i + 1]
<1> DEFINE a == SubSeq(s, 1, p - 1)
           c == SubSeq(s, p + 1, Len(s))
<1>1. Len(s) \in Nat
  OBVIOUS
<1>2. a \in Seq(Stmt) /\ Len(a) = p - 1 /\ \A i \in 1 .. p - 1 : a[i] = s[i]
  BY <1>1
<1>3. c \in Seq(Stmt) /\ Len(c) = Len(s) - p /\ \A i \in 1 .. Len(s) - p : c[i] = s[i + p]
  BY <1>1
<1> HIDE DEF a, c
<1>4. /\ a \o c \in Seq(Stmt) /\ Len(a \o c) = Len(a) + Len(c)
      /\ \A i \in 1 .. Len(a) : (a \o c)[i] = a[i]
      /\ \A i \in 1 .. Len(c) : (a \o c)[i + Len(a)] = c[i]
  <2>1. a \in Seq(Stmt) /\ c \in Seq(Stmt)
    BY <1>2, <1>3
  <2>2. QED
    BY <2>1
<1> DEFINE t == a \o c
<1> HIDE DEF t
<1>5. ASSUME NEW i \in 1 .. Len(s) - 1
      PROVE  t[i] = IF i < p THEN s[i] ELSE s[i + 1]
  <2>1. CASE i < p
    <3>1. i \in 1 .. Len(a) /\ i \in 1 .. p - 1
      BY <1>1, <1>2, <2>1
    <3>2. QED
      BY <1>2, <1>4, <2>1, <3>1 DEF t
  <2>2. CASE ~ (i < p)
    <3>1. i - (p - 1) \in 1 .. Len(s) - p /\ (i - (p - 1)) + p = i + 1
          /\ (i - (p - 1)) + Len(a) = i
      BY <1>1, <1>2, <2>2
    <3>2. i - (p - 1) \in 1 .. Len(c)
      BY <1>3, <3>1
    <3>3. t[i] = c[i - (p - 1)]
      BY <1>4, <3>1, <3>2 DEF t
    <3>4. QED
      BY <1>3, <2>2, <3>1, <3>3
  <2>3. QED
    BY <2>1, <2>2
<1>6. t \in Seq(Stmt) /\ Len(t) = Len(s) - 1
  <2>1. Len(a) + Len(c) = Len(s) - 1
    BY <1>1, <1>2, <1>3
  <2>2. QED
    BY <1>4, <2>1 DEF t
<1>7. Without(s, p) = t
  BY DEF Without, t, a, c
<1>8. QED
  BY <1>5, <1>6, <1>7

LEMMA RemovedWanted ==
  ASSUME NEW s \in Seq(Stmt), NEW U, NEW p \in 1 .. Len(s), ~ Wanted(s, U, s[p].def, p),
         NEW v
  PROVE  /\ Wanted(Without(s, p), U, v, 0) => Wanted(s, U, v, 0)
         /\ Wanted(Without(s, p), U, v, p - 1) => Wanted(s, U, v, p)
<1> DEFINE t == Without(s, p)
           g(i) == IF i < p THEN i ELSE i + 1
<1>1. /\ t \in Seq(Stmt) /\ Len(t) = Len(s) - 1 /\ Len(s) \in Nat
      /\ \A i \in 1 .. Len(t) : t[i] = s[g(i)]
  <2>1. \A i \in 1 .. Len(t) : t[i] = IF i < p THEN s[i] ELSE s[i + 1]
    BY WithoutFacts
  <2>2. QED
    BY <2>1, WithoutFacts
<1> HIDE DEF t
<1>2. \A i \in 1 .. Len(t) : g(i) \in 1 .. Len(s) /\ g(i) # p
  BY <1>1
(* Every statement of s but the p-th is one of t, in the same order.       *)
<1>3. \A m \in 1 .. Len(s) : m # p => \E i \in 1 .. Len(t) : g(i) = m
  <2> TAKE m \in 1 .. Len(s)
  <2>1. CASE m < p
    BY <1>1, <2>1
  <2>2. CASE m > p
    <3>1. m - 1 \in 1 .. Len(t) /\ g(m - 1) = m
      BY <1>1, <2>2
    <3>2. QED
      BY <3>1
  <2>3. QED
    BY <2>1, <2>2
<1>4. \A i, j \in 1 .. Len(t) : g(i) < g(j) => i < j
  BY <1>1
<1>5. ASSUME NEW k \in {0, p - 1}, NEW kk \in {0, p}, (k = 0 /\ kk = 0) \/ (k = p - 1 /\ kk = p),
             Wanted(t, U, v, k)
      PROVE  Wanted(s, U, v, kk)
  <2>1. \A i \in 1 .. Len(t) : i >= k + 1 <=> g(i) >= kk + 1
    BY <1>1, <1>5
  <2>2. \A i \in 1 .. Len(t) : g(i) \in 1 .. Len(s) /\ t[i] = s[g(i)]
    BY <1>1, <1>2
  <2> HIDE DEF g
  <2>3. k \in Int /\ kk \in Int /\ k >= 0 /\ kk >= 0
    BY <1>5
  <2>4. CASE v \in U /\ \A i \in k + 1 .. Len(t) : t[i].def # v
    <3>1. ASSUME NEW m \in kk + 1 .. Len(s), m # p PROVE s[m].def # v
      <4>1. m \in 1 .. Len(s)
        BY <1>1, <2>3
      <4>2. PICK i \in 1 .. Len(t) : g(i) = m
        BY <1>3, <3>1, <4>1
      <4>3. i \in k + 1 .. Len(t)
        BY <1>1, <2>1, <2>3, <4>1, <4>2
      <4>4. QED
        BY <2>2, <2>4, <4>2, <4>3
    <3>2. CASE s[p].def # v
      <4>1. \A m \in kk + 1 .. Len(s) : s[m].def # v
        BY <3>1, <3>2
      <4>2. QED
        BY <2>4, <4>1 DEF Wanted
    <3>3. CASE s[p].def = v
      <4>1. \A m \in p + 1 .. Len(s) : m \in kk + 1 .. Len(s) /\ m # p
        BY <1>1, <1>5
      <4>2. \A m \in p + 1 .. Len(s) : s[m].def # v
        BY <3>1, <4>1
      <4>3. QED
        BY <2>4, <3>3, <4>2 DEF Wanted
    <3>4. QED
      BY <3>2, <3>3
  <2>5. CASE \E j \in k + 1 .. Len(t) : v \in t[j].use /\ \A i \in k + 1 .. j - 1 : t[i].def # v
    <3>1. PICK j \in k + 1 .. Len(t) : v \in t[j].use /\ \A i \in k + 1 .. j - 1 : t[i].def # v
      BY <2>5
    <3>2. PICK n : n = g(j)
      OBVIOUS
    <3>3. j \in 1 .. Len(t) /\ n \in 1 .. Len(s) /\ n >= kk + 1 /\ v \in s[n].use /\ n # p
      <4>1. j \in 1 .. Len(t) /\ j >= k + 1
        BY <1>1, <2>3
      <4>2. n \in 1 .. Len(s) /\ t[j] = s[n] /\ n # p
        BY <1>2, <2>2, <3>2, <4>1
      <4>3. QED
        BY <2>1, <3>1, <3>2, <4>1, <4>2
    <3>4. ASSUME NEW m \in kk + 1 .. n - 1, m # p PROVE s[m].def # v
      <4>1. m \in 1 .. Len(s) /\ m < n /\ m >= kk + 1
        BY <1>1, <2>3, <3>3
      <4>2. PICK i \in 1 .. Len(t) : g(i) = m
        BY <1>3, <3>4, <4>1
      <4>3. i < j /\ i >= k + 1
        BY <1>4, <2>1, <3>2, <3>3, <4>1, <4>2
      <4>4. i \in k + 1 .. j - 1
        BY <1>1, <2>3, <3>3, <4>3
      <4>5. QED
        BY <2>2, <3>1, <4>2, <4>4
    <3>5. n \in kk + 1 .. Len(s)
      BY <1>1, <2>3, <3>3
    <3>6. CASE s[p].def # v \/ n < p
      <4>1. \A m \in kk + 1 .. n - 1 : m = p => s[p].def # v
        BY <1>1, <2>3, <3>3, <3>6
      <4>2. \A m \in kk + 1 .. n - 1 : s[m].def # v
        BY <3>4, <4>1
      <4>3. QED
        BY <3>3, <3>5, <4>2 DEF Wanted
    <3>7. CASE s[p].def = v /\ n > p
      <4>1. \A m \in p + 1 .. n - 1 : m \in kk + 1 .. n - 1 /\ m # p
        BY <1>1, <1>5, <3>3
      <4>2. \A m \in p + 1 .. n - 1 : s[m].def # v
        BY <3>4, <4>1
      <4>3. n \in p + 1 .. Len(s)
        BY <1>1, <3>3, <3>7
      <4>4. QED
        BY <3>3, <3>7, <4>2, <4>3 DEF Wanted
    <3>8. QED
      BY <3>3, <3>6, <3>7
  <2>6. QED
    BY <1>5, <2>4, <2>5 DEF Wanted
<1>6. Wanted(t, U, v, 0) => Wanted(s, U, v, 0)
  <2>1. 0 \in {0, p - 1} /\ 0 \in {0, p}
    OBVIOUS
  <2>2. QED
    BY <1>5, <2>1
<1>7. Wanted(t, U, v, p - 1) => Wanted(s, U, v, p)
  <2>1. p - 1 \in {0, p - 1} /\ p \in {0, p}
    OBVIOUS
  <2>2. QED
    BY <1>5, <2>1
<1>8. QED
  BY <1>6, <1>7 DEF t

(* The same for an assignment that is only stripped of its left side.      *)
Stripped(s, p) == [s EXCEPT ![p].def = NoVar]

LEMMA StrippedFacts ==
  ASSUME NEW s \in Seq(Stmt), NEW p \in 1 .. Len(s), NEW t, t = Stripped(s, p)
  PROVE  /\ t \in Seq(Stmt) /\ Len(t) = Len(s) /\ Len(s) \in Nat
         /\ t[p] \in Stmt /\ t[p].def = NoVar /\ t[p].use = s[p].use
         /\ \A i \in 1 .. Len(s) : i # p => t[i] = s[i]
<1>1. PICK r : r = [s[p] EXCEPT !.def = NoVar]
  OBVIOUS
<1>2. s[p] \in Stmt /\ Len(s) \in Nat
  OBVIOUS
<1>3. r \in Stmt /\ r.def = NoVar /\ r.use = s[p].use
  BY <1>1, <1>2 DEF Stmt
<1>4. t \in Seq(Stmt) /\ Len(t) = Len(s)
      /\ t[p] = r /\ \A i \in 1 .. Len(s) : i # p => t[i] = s[i]
  <2>1. t = [s EXCEPT ![p] = r]
    BY <1>1 DEF Stripped
  <2>2. QED
    BY <1>3, <2>1
<1>5. QED
  BY <1>2, <1>3, <1>4

LEMMA StrippedWanted ==
  ASSUME NEW s \in Seq(Stmt), NEW U, NEW p \in 1 .. Len(s), ~ Wanted(s, U, s[p].def, p),
         NEW v, v # NoVar, NEW t, t = Stripped(s, p)
  PROVE  /\ Wanted(t, U, v, 0) => Wanted(s, U, v, 0)
         /\ Wanted(t, U, v, p - 1) => v \in s[p].use \/ Wanted(s, U, v, p)
<1>1. PICK r : r = t[p]
  OBVIOUS
<1>2. s[p] \in Stmt /\ Len(s) \in Nat
  OBVIOUS
<1>3. r \in Stmt /\ r.def = NoVar /\ r.use = s[p].use
  BY <1>1, StrippedFacts
<1>4. t \in Seq(Stmt) /\ Len(t) = Len(s)
      /\ t[p] = r /\ \A i \in 1 .. Len(s) : i # p => t[i] = s[i]
  BY <1>1, StrippedFacts
<1>5. \A i \in 1 .. Len(s) : t[i].use = s[i].use /\ (i # p => t[i].def = s[i].def)
  BY <1>3, <1>4
<1>6. \A k \in {0} : Wanted(t, U, v, k) => Wanted(s, U, v, k)
  <2>1. ASSUME Wanted(t, U, v, 0) PROVE Wanted(s, U, v, 0)
    <3>1. CASE v \in U /\ \A i \in 0 + 1 .. Len(t) : t[i].def # v
      <4>1. \A i \in 1 .. Len(s) : i # p => s[i].def # v
        BY <1>4, <1>5, <3>1
      <4>2. CASE s[p].def # v
        <5>1. \A i \in 0 + 1 .. Len(s) : s[i].def # v
          BY <4>1, <4>2
        <5>2. QED
          BY <3>1, <5>1 DEF Wanted
      <4>3. CASE s[p].def = v
        <5>1. \A i \in p + 1 .. Len(s) : i \in 1 .. Len(s) /\ i # p
          BY <1>2
        <5>2. \A i \in p + 1 .. Len(s) : s[i].def # v
          BY <4>1, <5>1
        <5>3. QED
          BY <3>1, <4>3, <5>2 DEF Wanted
      <4>4. QED
        BY <4>2, <4>3
    <3>2. CASE \E j \in 0 + 1 .. Len(t) : v \in t[j].use /\ \A i \in 0 + 1 .. j - 1 : t[i].def # v
      <4>1. PICK j \in 1 .. Len(s) : v \in s[j].use /\ \A i \in 1 .. j - 1 : t[i].def # v
        BY <1>4, <1>5, <3>2
      <4>2. \A i \in 1 .. j - 1 : i \in 1 .. Len(s)
        BY <1>2
      <4>3. \A i \in 1 .. j - 1 : i # p => s[i].def # v
        BY <1>5, <4>1, <4>2
      <4>4. CASE s[p].def # v \/ j <= p
        <5>1. \A i \in 1 .. j - 1 : i = p => s[p].def # v
          BY <1>2, <4>4
        <5>2. \A i \in 0 + 1 .. j - 1 : s[i].def # v
          BY <4>3, <5>1
        <5>3. j \in 0 + 1 .. Len(s)
          OBVIOUS
        <5>4. QED
          BY <4>1, <5>2, <5>3 DEF Wanted
      <4>5. CASE s[p].def = v /\ j > p
        <5>1. \A i \in p + 1 .. j - 1 : i \in 1 .. j - 1 /\ i # p
          BY <1>2
        <5>2. \A i \in p + 1 .. j - 1 : s[i].def # v
          BY <4>3, <5>1
        <5>3. j \in p + 1 .. Len(s)
          BY <1>2, <4>5
        <5>4. QED
          BY <4>1, <4>5, <5>2, <5>3 DEF Wanted
      <4>6. QED
        BY <1>2, <4>4, <4>5
    <3>3. QED
      BY <2>1, <3>1, <3>2 DEF Wanted
  <2>2. QED
    BY <2>1
<1>7. ASSUME Wanted(t, U, v, p - 1) PROVE v \in s[p].use \/ Wanted(s, U, v, p)
  <2>1. v \in t[p].use \/ Wanted(t, U, v, p)
    <3>1. p \in 1 .. Len(t)
      BY <1>4
    <3>2. QED
      BY <1>4, <1>7, <3>1, WantedStep
  <2>2. ASSUME Wanted(t, U, v, p) PROVE Wanted(s, U, v, p)
    <3>1. \A i \in p + 1 .. Len(s) : t[i].use = s[i].use /\ t[i].def = s[i].def
      <4>1. \A i \in p + 1 .. Len(s) : i \in 1 .. Len(s) /\ i # p
        BY <1>2
      <4>2. QED
        BY <1>5, <4>1
    <3>2. \A j \in p + 1 .. Len(s) : \A i \in p + 1 .. j - 1 : i \in p + 1 .. Len(s)
      BY <1>2
    <3>3. CASE v \in U /\ \A i \in p + 1 .. Len(t) : t[i].def # v
      BY <1>4, <3>1, <3>3 DEF Wanted
    <3>4. CASE \E j \in p + 1 .. Len(t) : v \in t[j].use /\ \A i \in p + 1 .. j - 1 : t[i].def # v
      <4>1. PICK j \in p + 1 .. Len(s) : v \in t[j].use /\ \A i \in p + 1 .. j - 1 : t[i].def # v
        BY <1>4, <3>4
      <4>2. v \in s[j].use /\ \A i \in p + 1 .. j - 1 : s[i].def # v
        BY <3>1, <3>2, <4>1
      <4>3. QED
        BY <4>2 DEF Wanted
    <3>5. QED
      BY <2>2, <3>3, <3>4 DEF Wanted
  <2>3. QED
    BY <1>3, <1>4, <2>1, <2>2
<1>8. QED
  BY <1>6, <1>7

-----------------------------------------------------------------------------
(* Needing(v) is the least set of blocks closed under the ways in which a  *)
(* block may need v: NBlocks steps are enough, since each but the last     *)
(* finds another block.                                                    *)
Closed(v, X) ==
  \A b \in Block :
    \/ ReadFirst(v, b, 0)
    \/ v \in Perm /\ b = NBlocks
    \/ Kept(v, b, 0) /\ child(b) \cap X # {}
    => b \in X

Spread(h, B, K, C) ==
  [n \in 0 .. NBlocks |->
    IF n = 0 THEN B
    ELSE h[n - 1] \cup {b \in Block : b \in K /\ C[b] \cap h[n - 1] # {}}]

(* h starts with B and adds the blocks of K with a child in what it has.   *)
Spreads(h, N, B, K, C) ==
  /\ DOMAIN h = 0 .. N
  /\ h[0] = B
  /\ \A n \in 1 .. N : h[n] = h[n - 1] \cup {b \in Block : b \in K /\ C[b] \cap h[n - 1] # {}}

LEMMA SpreadSettles ==
  ASSUME NEW B \in SUBSET Block, NEW K, NEW C, NEW h, Spreads(h, NBlocks, B, K, C)
  PROVE  /\ h[NBlocks] \subseteq Block /\ B \subseteq h[NBlocks]
         /\ \A b \in Block : b \in K /\ C[b] \cap h[NBlocks] # {} => b \in h[NBlocks]
         /\ \A X : /\ B \subseteq X
                   /\ \A b \in Block : b \in K /\ C[b] \cap X # {} => b \in X
                   => h[NBlocks] \subseteq X
<1> DEFINE N == NBlocks
           D(A) == A \cup {b \in Block : b \in K /\ C[b] \cap A # {}}
<1>1. N \in Nat /\ N \in 0 .. N
  BY LivenessAssumption
<1>2. IsFiniteSet(Block) /\ Cardinality(Block) = N
  <2>1. 1 \in Int /\ N \in Int /\ N >= 1
    BY LivenessAssumption
  <2>2. IsFiniteSet(1 .. N) /\ Cardinality(1 .. N) = N - 1 + 1
    BY <2>1, FS_Interval
  <2>3. QED
    BY <2>1, <2>2 DEF Block
<1> HIDE DEF N
<1>3. h[0] = B /\ \A n \in Nat : n + 1 <= N => h[n + 1] = D(h[n])
  <2>1. h[0] = B /\ \A n \in 1 .. N : h[n] = D(h[n - 1])
    BY DEF Spreads, N
  <2>2. \A n \in Nat : n + 1 <= N => n + 1 \in 1 .. N /\ (n + 1) - 1 = n
    BY <1>1
  <2> HIDE DEF D
  <2>3. QED
    BY <2>1, <2>2
<1> DEFINE S == {n \in Nat : n <= N => /\ h[n] \subseteq Block /\ B \subseteq h[n]
                                       /\ D(h[n]) = h[n] \/ Cardinality(h[n]) >= n}
<1>4. 0 \in S
  <2>1. Cardinality(B) \in Nat
    BY <1>2, FS_Subset, FS_CardinalityType
  <2>2. Cardinality(B) >= 0
    BY <2>1
  <2>3. QED
    BY <1>3, <2>2
<1>5. ASSUME NEW n \in Nat, n \in S PROVE n + 1 \in S
  <2>1. ASSUME n + 1 <= N
        PROVE  /\ h[n + 1] \subseteq Block /\ B \subseteq h[n + 1]
               /\ D(h[n + 1]) = h[n + 1] \/ Cardinality(h[n + 1]) >= n + 1
    <3>1. n <= N
      BY <1>1, <2>1
    <3>2. /\ h[n] \subseteq Block /\ B \subseteq h[n]
          /\ D(h[n]) = h[n] \/ Cardinality(h[n]) >= n
      BY <1>5, <3>1
    <3>3. h[n + 1] = D(h[n])
      BY <1>3, <2>1
    <3>4. CASE D(h[n]) = h[n]
      BY <3>2, <3>3, <3>4
    <3>5. CASE D(h[n]) # h[n]
      <4>1. Cardinality(h[n]) >= n
        BY <3>2, <3>5
      <4>2. h[n] \subseteq h[n + 1] /\ h[n + 1] \subseteq Block /\ h[n] # h[n + 1]
        BY <3>2, <3>3, <3>5
      <4>3. IsFiniteSet(h[n]) /\ IsFiniteSet(h[n + 1])
        BY <1>2, <3>2, <4>2, FS_Subset
      <4>4. Cardinality(h[n]) <= Cardinality(h[n + 1]) /\ Cardinality(h[n]) # Cardinality(h[n + 1])
        BY <4>2, <4>3, FS_Subset
      <4>5. Cardinality(h[n]) \in Nat /\ Cardinality(h[n + 1]) \in Nat
        BY <4>3, FS_CardinalityType
      <4>6. Cardinality(h[n + 1]) >= n + 1
        BY <4>1, <4>4, <4>5
      <4>7. QED
        BY <3>2, <4>2, <4>6
    <3>6. QED
      BY <3>4, <3>5
  <2>2. n + 1 \in Nat
    OBVIOUS
  <2>3. QED
    BY <2>1, <2>2
<1> HIDE DEF S
<1>6. Nat \subseteq S
  BY <1>4, <1>5, SetInduction
<1>7. /\ h[N] \subseteq Block /\ B \subseteq h[N]
      /\ D(h[N]) = h[N] \/ Cardinality(h[N]) >= N
  BY <1>1, <1>6 DEF S
<1>8. D(h[N]) = h[N]
  <2>1. ASSUME Cardinality(h[N]) >= N PROVE h[N] = Block
    <3>1. IsFiniteSet(h[N]) /\ Cardinality(h[N]) <= Cardinality(Block)
          /\ (Cardinality(Block) = Cardinality(h[N]) => Block = h[N])
      BY <1>2, <1>7, FS_Subset
    <3>2. Cardinality(h[N]) \in Nat
      BY <3>1, FS_CardinalityType
    <3>3. QED
      BY <1>1, <1>2, <2>1, <3>1, <3>2
  <2>2. ASSUME h[N] = Block PROVE D(h[N]) = h[N]
    BY <2>2
  <2>3. QED
    BY <1>7, <2>1, <2>2
<1>9. ASSUME NEW X, B \subseteq X, \A b \in Block : b \in K /\ C[b] \cap X # {} => b \in X
      PROVE  h[N] \subseteq X
  <2> DEFINE R == {n \in Nat : n <= N => h[n] \subseteq X}
  <2>1. 0 \in R
    BY <1>3, <1>9
  <2>2. ASSUME NEW n \in Nat, n \in R PROVE n + 1 \in R
    <3>1. ASSUME n + 1 <= N PROVE h[n + 1] \subseteq X
      <4>1. n <= N
        BY <1>1, <3>1
      <4>2. h[n] \subseteq X /\ h[n + 1] = D(h[n])
        BY <1>3, <2>2, <3>1, <4>1
      <4>3. QED
        BY <1>9, <4>2
    <3>2. n + 1 \in Nat
      OBVIOUS
    <3>3. QED
      BY <3>1, <3>2
  <2> HIDE DEF R
  <2>3. Nat \subseteq R
    BY <2>1, <2>2, SetInduction
  <2>4. QED
    BY <1>1, <2>3 DEF R
<1>10. \A b \in Block : b \in K /\ C[b] \cap h[N] # {} => b \in h[N]
  BY <1>8
<1>11. QED
  BY <1>7, <1>9, <1>10 DEF N

LEMMA SpreadExists ==
  ASSUME NEW B \in SUBSET Block, NEW K, NEW C
  PROVE  \E h : h = Spread(h, B, K, C)
<1> DEFINE N == NBlocks
           T == SUBSET Block
           G == [x \in (1 .. N) \X T |-> x[2] \cup {b \in Block : b \in K /\ C[b] \cap x[2] # {}}]
<1>1. N \in Nat /\ B \in T
  BY LivenessAssumption
<1>2. G \in [(1 .. N) \X T -> T]
  OBVIOUS
<1> HIDE DEF N
<1>3. PICK h : Stepped(h, T, B, G, N)
  <2> HIDE DEF G, T
  <2>1. QED
    BY <1>1, <1>2, RecursionExists
<1>4. DOMAIN h = 0 .. N /\ h = [n \in 0 .. N |-> h[n]] /\ h[0] = B
  <2> HIDE DEF G
  <2>1. QED
    BY <1>3 DEF Stepped
<1>5. ASSUME NEW n \in 1 .. N
      PROVE  h[n] = h[n - 1] \cup {b \in Block : b \in K /\ C[b] \cap h[n - 1] # {}}
  <2>1. n - 1 \in 0 .. N
    BY <1>1
  <2>2. h[n - 1] \in T /\ h[n] = G[<<n, h[n - 1]>>]
    <3> HIDE DEF G
    <3>1. QED
      BY <1>3, <2>1 DEF Stepped
  <2>3. <<n, h[n - 1]>> \in (1 .. N) \X T
    BY <2>2
  <2>4. QED
    BY <2>2, <2>3
<1> DEFINE F == [n \in 0 .. N |->
                  IF n = 0 THEN B
                  ELSE h[n - 1] \cup {b \in Block : b \in K /\ C[b] \cap h[n - 1] # {}}]
<1>7. h = F
  <2>1. \A n \in 0 .. N : n # 0 => n \in 1 .. N
    BY <1>1
  <2>2. \A n \in 0 .. N : h[n] = F[n]
    BY <1>4, <1>5, <2>1
  <2>3. QED
    BY <1>4, <2>2
<1>8. QED
  BY <1>7 DEF N, Spread

LEMMA NeedingIsLeast ==
  ASSUME NEW v
  PROVE  /\ Needing(v) \subseteq Block /\ Closed(v, Needing(v))
         /\ \A X : Closed(v, X) => Needing(v) \subseteq X
<1>1. PICK B : B = {b \in Block : ReadFirst(v, b, 0) \/ (v \in Perm /\ b = NBlocks)}
  OBVIOUS
<1>2. PICK K : K = {b \in Block : Kept(v, b, 0)}
  OBVIOUS
<1>3. PICK C : C = [b \in Block |-> child(b)]
  OBVIOUS
<1> DEFINE F(h) == Spread(h, B, K, C)
           f == CHOOSE h : h = F(h)
<1>4. Needing(v) = f[NBlocks]
  <2> DEFINE E(h) == [n \in 0 .. NBlocks |->
                IF n = 0
                THEN {b \in Block : ReadFirst(v, b, 0) \/ (v \in Perm /\ b = NBlocks)}
                ELSE h[n - 1] \cup {b \in Block : Kept(v, b, 0) /\ child(b) \cap h[n - 1] # {}}]
             e == CHOOSE h : h = E(h)
  <2>1. Needing(v) = e[NBlocks]
    BY DEF Needing
  <2>2. ASSUME NEW h PROVE E(h) = F(h)
    <3>1. ASSUME NEW A
          PROVE  {b \in Block : Kept(v, b, 0) /\ child(b) \cap A # {}}
                   = {b \in Block : b \in K /\ C[b] \cap A # {}}
      BY <1>2, <1>3
    <3>2. \A n \in 0 .. NBlocks : E(h)[n] = F(h)[n]
      BY <1>1, <3>1 DEF Spread
    <3>3. QED
      BY <3>2 DEF Spread
  <2> HIDE DEF E, F
  <2>3. e = f
    BY <2>2
  <2>4. QED
    BY <2>1, <2>3
<1>5. B \in SUBSET Block
  BY <1>1
<1>6. \E h : h = F(h)
  BY <1>5, SpreadExists
<1> HIDE DEF F, Spread
<1>7. f = F(f)
  BY <1>6
<1>8. PICK g : g = f
  OBVIOUS
<1>9. g = F(g)
  BY <1>7, <1>8
<1> HIDE DEF f
<1>10. Spreads(g, NBlocks, B, K, C)
  <2>1. NBlocks \in Nat /\ 0 \in 0 .. NBlocks
        /\ \A n \in 1 .. NBlocks : n \in 0 .. NBlocks /\ n # 0
    BY LivenessAssumption
  <2>2. DOMAIN g = 0 .. NBlocks
    BY <1>9 DEF F, Spread
  <2>3. g[0] = B
    BY <1>9, <2>1 DEF F, Spread
  <2>4. \A n \in 1 .. NBlocks :
          g[n] = g[n - 1] \cup {b \in Block : b \in K /\ C[b] \cap g[n - 1] # {}}
    BY <1>9, <2>1 DEF F, Spread
  <2>5. QED
    BY <2>2, <2>3, <2>4 DEF Spreads
<1>11. /\ g[NBlocks] \subseteq Block /\ B \subseteq g[NBlocks]
       /\ \A b \in Block : b \in K /\ C[b] \cap g[NBlocks] # {} => b \in g[NBlocks]
       /\ \A X : /\ B \subseteq X
                 /\ \A b \in Block : b \in K /\ C[b] \cap X # {} => b \in X
                 => g[NBlocks] \subseteq X
  BY <1>5, <1>10, SpreadSettles
<1>12. Needing(v) = g[NBlocks]
  BY <1>4, <1>8
<1>13. \A X : Closed(v, X) <=> /\ B \subseteq X
                               /\ \A b \in Block : b \in K /\ C[b] \cap X # {} => b \in X
  <2> TAKE X
  <2>1. \A b \in Block : /\ b \in B <=> ReadFirst(v, b, 0) \/ (v \in Perm /\ b = NBlocks)
                         /\ b \in K <=> Kept(v, b, 0)
                         /\ C[b] = child(b)
    BY <1>1, <1>2, <1>3
  <2>2. Closed(v, X) <=>
          \A b \in Block : b \in B \/ (b \in K /\ C[b] \cap X # {}) => b \in X
    BY <2>1 DEF Closed
  <2>3. QED
    BY <1>5, <2>2
<1>14. QED
  BY <1>11, <1>12, <1>13

-----------------------------------------------------------------------------
(* The program: what Init gives the jumps, and that a block off the list   *)
(* has nothing left.                                                       *)
Shape ==
  /\ jump[NBlocks].kind = "fall"
  /\ \A b \in Block :
       /\ jump[b].kind = "fall" => jump[b].use = {}
       /\ jump[b].kind = "fall" /\ b < NBlocks => Labelled(b + 1)
       /\ Plain(b) /\ Sheltered => jump[b - 1].kind = "cbranch" /\ jump[b - 1].to = b + 1

ProgramInv ==
  /\ body \in [Block -> Seq(Stmt)]
  /\ body[NBlocks] = <<>>
  /\ Shape
  /\ \A b \in Block \ bblocks : Plain(b) /\ body[b] = <<>>

(* Where Build is. *)
Cursor ==
  /\ pos \in Int
  /\ phase \in {"analyse", "sweep", "dce", "walk", "done"}
  /\ phase # "dce" => pos = -1
  /\ phase \in {"dce", "walk"} => bb >= 1
  /\ phase = "dce" /\ pos # -1 => bb \in bblocks /\ pos \in 0 .. Len(body[bb])

(* gen and killed are those of the program during the sweeps.              *)
Computed ==
  phase = "sweep" =>
    \A b \in Block : \A v \in Temp :
      /\ v \in gen[b] <=> ReadFirst(v, b, 0)
      /\ v \in killed[b] <=> ~ Kept(v, b, 0)

(* The sweeps put nothing into a set that is not live.                     *)
OnlyLive ==
  phase = "sweep" \/ (phase = "dce" /\ bb = 1 /\ pos = -1 /\ ~ fix) =>
    \A v \in Temp : \A X : Closed(v, X) =>
      \A b \in Block : /\ v \in in[b] => b \in X
                       /\ v \in out[b] => child(b) \cap X # {} \/ (v \in Perm /\ b = NBlocks)

(* What is live behind block b as the sets have it. *)
Behind(b) == jump[b].use \cup out[b]

(* Whatever dce removes, the sets stay large enough for what is left.      *)
Covered ==
  phase \in {"dce", "walk", "done"} =>
    \A b \in bblocks : \A v \in Temp : Wanted(body[b], Behind(b), v, 0) => v \in in[b]

(* lvar holds all that is live where dce is.                               *)
InView ==
  phase = "dce" /\ pos # -1 =>
    \A v \in Temp : Wanted(body[bb], Behind(bb), v, pos) => v \in lvar

LinkedIn(b) ==
  \A k \in 1 .. Len(body[b]) : body[b][k].def # NoVar =>
    \A v \in Temp \ {body[b][k].def} :
      Wanted(body[b], Behind(b), v, k) => {body[b][k].def, v} \in edges

Linked ==
  phase \in {"walk", "done"} =>
    \A b \in Block : phase = "done" \/ b < bb => LinkedIn(b)

LiveInv ==
  FlowInv /\ ProgramInv /\ Cursor /\ Computed /\ OnlyLive /\ Covered /\ InView /\ Linked

LEMMA ReadsAsWanted ==
  \A v, b, k : /\ ReadFirst(v, b, k) <=> Wanted(body[b], jump[b].use, v, k)
               /\ ReadFirst(v, b, k) \/ (Kept(v, b, k) /\ v \in out[b])
                    <=> Wanted(body[b], Behind(b), v, k)
  BY DEF ReadFirst, Kept, Wanted, Behind

LEMMA SameLabels ==
  ASSUME jump' = jump
  PROVE  (\A b : (Labelled(b)' <=> Labelled(b)) /\ (Plain(b)' <=> Plain(b))) /\ (Shape' <=> Shape)
<1>1. Targets' = Targets
  BY DEF Targets
<1>2. \A b : (Labelled(b)' <=> Labelled(b)) /\ (Plain(b)' <=> Plain(b))
  BY <1>1 DEF Labelled, Plain
<1>3. QED
  BY <1>2 DEF Shape

LEMMA SameClosed ==
  ASSUME jump' = jump, body' = body
  PROVE  \A v, X : Closed(v, X)' <=> Closed(v, X)
<1>1. \A b : child(b)' = child(b)
  BY SameChildren
<1>2. \A v, b : (ReadFirst(v, b, 0)' <=> ReadFirst(v, b, 0)) /\ (Kept(v, b, 0)' <=> Kept(v, b, 0))
  BY DEF ReadFirst, Kept
<1>3. QED
  BY <1>1, <1>2 DEF Closed

LEMMA InitLive == Init => LiveInv
<1> SUFFICES ASSUME Init PROVE LiveInv
  OBVIOUS
<1>1. FlowInv
  BY InitFlow
<1>2. ProgramInv
  <2>1. body \in [Block -> Seq(Stmt)]
    BY LivenessAssumption DEF Init
  <2>2. Shape
    BY DEF Init, Shape
  <2>3. QED
    BY <2>1, <2>2 DEF Init, ProgramInv
<1>3. QED
  BY <1>1, <1>2 DEF Init, LiveInv, Cursor, Computed, OnlyLive, Covered, InView, Linked

-----------------------------------------------------------------------------
(* Facts used again and again.                                             *)
LEMMA BlockFacts ==
  ASSUME LiveInv
  PROVE  /\ NBlocks \in Nat /\ NBlocks \in bblocks
         /\ bblocks \subseteq Block
         /\ \A b \in Block : b \in Int /\ b >= 1 /\ b <= NBlocks
         /\ \A b \in Block : body[b] \in Seq(Stmt) /\ jump[b] \in Jump /\ child(b) \subseteq Block
         /\ bb \in Int /\ DOMAIN in = Block /\ DOMAIN out = Block
<1>1. NBlocks \in Nat /\ NBlocks \in Block
  BY LivenessAssumption DEF Block
<1>2. FlowTypes /\ ProgramInv
  BY DEF LiveInv, FlowInv
<1>3. NBlocks \in bblocks
  BY <1>1, <1>2 DEF ProgramInv, Plain, Labelled
<1>4. \A b \in Block : child(b) \subseteq Block
  BY <1>2, ChildIsBlock DEF FlowTypes
<1>5. \A b \in Block : b \in Int /\ b >= 1 /\ b <= NBlocks
  BY <1>1 DEF Block
<1>6. QED
  BY <1>1, <1>2, <1>3, <1>4, <1>5 DEF FlowTypes, ProgramInv

(* A block off the list has one child, and that is on the list; the block  *)
(* before it is its only parent, and jumps to the same child.              *)
LEMMA VanishedBlock ==
  ASSUME LiveInv, Sheltered, NEW c \in Block \ bblocks
  PROVE  /\ child(c) = {c + 1} /\ c + 1 \in bblocks
         /\ \A v : ~ ReadFirst(v, c, 0)
         /\ ~ (c = NBlocks)
         /\ \A b \in Block : c \in child(b) => b \in bblocks /\ c + 1 \in child(b)
<1>1. /\ ProgramInv /\ Shape /\ NBlocks \in Nat /\ c \in Int /\ c >= 1 /\ c <= NBlocks
  BY BlockFacts DEF LiveInv, ProgramInv
<1>2. Plain(c) /\ body[c] = <<>> /\ ~ Labelled(c) /\ jump[c].kind = "fall"
  BY <1>1 DEF ProgramInv, Plain
<1>3. c # NBlocks /\ c # 1 /\ c \notin Targets
  BY <1>2 DEF Labelled
<1>4. child(c) = {c + 1}
  BY <1>1, <1>2, <1>3 DEF child
<1>5. c + 1 \in Block
  BY <1>1, <1>3 DEF Block
<1>6. Labelled(c + 1)
  BY <1>1, <1>2, <1>3 DEF Shape
<1>7. c + 1 \in bblocks
  BY <1>1, <1>5, <1>6 DEF ProgramInv, Plain
<1>8. \A v : ~ ReadFirst(v, c, 0)
  <2>1. jump[c].use = {}
    BY <1>1, <1>2 DEF Shape
  <2>2. 0 + 1 .. Len(body[c]) = {}
    BY <1>2
  <2>3. QED
    BY <2>1, <2>2 DEF ReadFirst
<1>9. ASSUME NEW b \in Block, c \in child(b) PROVE b \in bblocks /\ c + 1 \in child(b)
  <2>1. b = c - 1 /\ b \in Int
    <3>1. jump[b].kind = "fall" \/ jump[b].to # c
      BY <1>3 DEF Targets
    <3>2. b + 1 = c
      BY <1>9, <3>1 DEF child
    <3>3. QED
      BY <1>1, <3>2, BlockFacts
  <2>2. jump[b].kind = "cbranch" /\ jump[b].to = c + 1
    BY <1>1, <1>2, <2>1 DEF Shape
  <2>3. b \in bblocks
    BY <1>1, <2>2 DEF ProgramInv, Plain
  <2>4. QED
    BY <2>2, <2>3 DEF child
<1>10. QED
  BY <1>3, <1>4, <1>7, <1>8, <1>9

(* The sets hold all that is live behind a block of the program as it is.  *)
LEMMA LiveIsIn ==
  ASSUME LiveInv, Sheltered, phase \in {"dce", "walk", "done"}, NEW v \in Temp,
         NEW b \in bblocks, LiveAtEnd(v, b)
  PROVE  v \in out[b]
<1> DEFINE X == {c \in Block : IF c \in bblocks THEN v \in in[c] ELSE v \in in[c + 1]}
<1>1. ASSUME NEW d \in bblocks, NEW c \in child(d), c \in X PROVE v \in out[d]
  <2>1. out[d] = FromChildren(d) \cup AtEnd(d)
    BY DEF LiveInv, FlowInv, AllSolved, OutSolved
  <2>2. d \in Block /\ c \in Block
    BY BlockFacts
  <2>3. CASE c \in bblocks
    BY <1>1, <2>1, <2>3 DEF FromChildren
  <2>4. CASE c \notin bblocks
    <3>1. c + 1 \in child(d) /\ v \in in[c + 1]
      BY <1>1, <2>2, <2>4, VanishedBlock
    <3>2. QED
      BY <2>1, <3>1 DEF FromChildren
  <2>5. QED
    BY <2>3, <2>4
<1>2. ASSUME v \in Perm PROVE v \in out[NBlocks]
  <2>1. NBlocks \in bblocks
    BY BlockFacts
  <2>2. OutSolved(NBlocks)
    BY <2>1 DEF LiveInv, FlowInv, AllSolved
  <2>3. QED
    BY <1>2, <2>2 DEF OutSolved, AtEnd
<1>3. ASSUME NEW c \in bblocks, Wanted(body[c], Behind(c), v, 0) PROVE c \in X
  <2>1. v \in in[c]
    BY <1>3 DEF LiveInv, Covered
  <2>2. QED
    BY <2>1, BlockFacts
<1>4. Closed(v, X)
  <2> SUFFICES ASSUME NEW c \in Block,
                      \/ ReadFirst(v, c, 0)
                      \/ v \in Perm /\ c = NBlocks
                      \/ Kept(v, c, 0) /\ child(c) \cap X # {}
               PROVE  c \in X
    BY DEF Closed
  <2>1. CASE ReadFirst(v, c, 0)
    <3>1. c \in bblocks
      BY <2>1, VanishedBlock
    <3>2. Wanted(body[c], Behind(c), v, 0)
      BY <2>1, ReadsAsWanted
    <3>3. QED
      BY <1>3, <3>1, <3>2
  <2>2. CASE v \in Perm /\ c = NBlocks
    <3>1. body[c] = <<>>
      BY <2>2 DEF LiveInv, ProgramInv
    <3>2. Kept(v, c, 0)
      BY <3>1 DEF Kept
    <3>3. Wanted(body[c], Behind(c), v, 0)
      BY <1>2, <2>2, <3>2, ReadsAsWanted
    <3>4. QED
      BY <1>3, <2>2, <3>3, BlockFacts
  <2>3. CASE Kept(v, c, 0) /\ child(c) \cap X # {}
    <3>1. PICK d \in child(c) : d \in X
      BY <2>3
    <3>2. CASE c \in bblocks
      <4>1. v \in out[c]
        BY <1>1, <3>1, <3>2
      <4>2. Wanted(body[c], Behind(c), v, 0)
        BY <2>3, <4>1, ReadsAsWanted
      <4>3. QED
        BY <1>3, <3>2, <4>2
    <3>3. CASE c \notin bblocks
      <4>1. d = c + 1 /\ c + 1 \in bblocks
        BY <3>1, <3>3, VanishedBlock
      <4>2. QED
        BY <3>1, <3>3, <4>1
    <3>4. QED
      BY <3>2, <3>3
  <2>4. QED
    BY <2>1, <2>2, <2>3
<1> HIDE DEF X
<1>5. Needing(v) \subseteq X
  BY <1>4, NeedingIsLeast
<1>6. CASE child(b) \cap Needing(v) # {}
  BY <1>1, <1>5, <1>6
<1>7. CASE v \in Perm /\ b = NBlocks
  BY <1>2, <1>7
<1>8. QED
  BY <1>6, <1>7 DEF LiveAtEnd

-----------------------------------------------------------------------------
(* The steps.                                                              *)
LEMMA SameProgram ==
  ASSUME ProgramInv, jump' = jump, body' = body, bblocks' = bblocks
  PROVE  ProgramInv'
<1>1. Shape' /\ \A b : Plain(b)' <=> Plain(b)
  BY SameLabels DEF ProgramInv
<1>2. QED
  BY <1>1 DEF ProgramInv

LEMMA AnalysisLive == LiveInv /\ LivenessAnalysis => LiveInv'
<1> SUFFICES ASSUME LiveInv, LivenessAnalysis PROVE LiveInv'
  OBVIOUS
<1>1. FlowInv'
  BY AnalysisFlow DEF LiveInv
<1>2. /\ body' = body /\ jump' = jump /\ bblocks' = bblocks /\ pos' = pos
      /\ phase = "analyse" /\ phase' = "sweep" /\ in' = gen'
  BY DEF LivenessAnalysis, program
<1>3. ProgramInv'
  BY <1>2, SameProgram DEF LiveInv
<1>4. Cursor'
  BY <1>2 DEF LiveInv, Cursor
<1>5. ASSUME NEW b \in Block, NEW v \in Temp
      PROVE  /\ v \in gen'[b] <=> ReadFirst(v, b, 0)
             /\ v \in killed'[b] <=> ~ Kept(v, b, 0)
  <2>1. body[b] \in Seq(Stmt) /\ Len(body[b]) \in Nat
    BY BlockFacts
  <2>2. v # NoVar
    BY LivenessAssumption
  <2>3. CASE b \in bblocks
    <3>1. gen'[b] = LiveAt(b, {}, 0) /\ killed'[b] = Assigned(b)
      BY <2>3 DEF LivenessAnalysis, unionize
    <3>2. v \in LiveAt(b, {}, 0) <=> Wanted(body[b], jump[b].use \cup {}, v, 0)
      <4>1. 0 \in 0 .. Len(body[b])
        BY <2>1
      <4>2. QED
        BY <2>1, <4>1, LiveAtMeans
    <3>3. jump[b].use \cup {} = jump[b].use
      OBVIOUS
    <3>4. v \in gen'[b] <=> ReadFirst(v, b, 0)
      BY <3>1, <3>2, <3>3, ReadsAsWanted
    <3>5. v \in Assigned(b) <=> ~ Kept(v, b, 0)
      <4>1. 0 + 1 = 1
        OBVIOUS
      <4>2. QED
        BY <2>2, <4>1 DEF Assigned, Kept
    <3>6. QED
      BY <3>1, <3>4, <3>5
  <2>4. CASE b \notin bblocks
    <3>1. v \notin gen'[b] /\ v \notin killed'[b]
      BY <2>4 DEF LivenessAnalysis
    <3>2. body[b] = <<>> /\ jump[b].use = {}
      BY <2>4 DEF LiveInv, ProgramInv, Plain, Shape
    <3>3. 0 + 1 .. Len(body[b]) = {}
      BY <3>2
    <3>4. QED
      BY <3>1, <3>2, <3>3 DEF ReadFirst, Kept
  <2>5. QED
    BY <2>3, <2>4
<1>6. Computed'
  BY <1>2, <1>5 DEF Computed, ReadFirst, Kept
<1>7. OnlyLive'
  <2> SUFFICES ASSUME NEW v \in Temp, NEW X, Closed(v, X)', NEW b \in Block
               PROVE  /\ v \in in'[b] => b \in X
                      /\ v \in out'[b] => child(b)' \cap X # {} \/ (v \in Perm /\ b = NBlocks)
    BY DEF OnlyLive
  <2>1. Closed(v, X)
    BY <1>2, SameClosed
  <2>2. v \in in'[b] => b \in X
    BY <1>2, <1>5, <2>1 DEF Closed
  <2>3. v \in out'[b] => v \in Perm /\ b = NBlocks
    BY DEF LivenessAnalysis
  <2>4. QED
    BY <2>2, <2>3
<1>8. QED
  BY <1>1, <1>2, <1>3, <1>4, <1>6, <1>7 DEF LiveInv, Covered, InView, Linked

LEMMA SweepLive == LiveInv /\ Sweep => LiveInv'
<1> SUFFICES ASSUME LiveInv, Sweep PROVE LiveInv'
  OBVIOUS
<1>1. FlowInv'
  BY SweepFlow DEF LiveInv
<1>2. /\ body' = body /\ jump' = jump /\ bblocks' = bblocks /\ pos' = pos
      /\ gen' = gen /\ killed' = killed
      /\ phase = "sweep" /\ phase' = "sweep"
  BY DEF Sweep, program
<1>3. ProgramInv' /\ Cursor'
  BY <1>2, SameProgram DEF LiveInv, Cursor
<1>4. Computed'
  BY <1>2 DEF LiveInv, Computed, ReadFirst, Kept
<1>5. OnlyLive'
  <2> SUFFICES ASSUME NEW v \in Temp, NEW X, Closed(v, X)', NEW b \in Block
               PROVE  /\ v \in in'[b] => b \in X
                      /\ v \in out'[b] => child(b)' \cap X # {} \/ (v \in Perm /\ b = NBlocks)
    BY DEF OnlyLive
  <2>1. Closed(v, X) /\ child(b)' = child(b)
    BY <1>2, SameClosed, SameChildren
  <2>2. \A c \in Block : /\ v \in in[c] => c \in X
                         /\ v \in out[c] => child(c) \cap X # {} \/ (v \in Perm /\ c = NBlocks)
    BY <1>2, <2>1 DEF LiveInv, OnlyLive
  <2>3. CASE bb \in bblocks /\ b = bb
    <3>1. /\ out'[b] = out[b] \cup FromChildren(b)
          /\ in'[b] = gen[b] \cup (out'[b] \ killed[b])
      BY <2>3, BlockFacts DEF Sweep, Flow, FromChildren
    <3>2. v \in FromChildren(b) => child(b) \cap X # {}
      BY <2>2, BlockFacts DEF FromChildren
    <3>3. v \in out'[b] => child(b) \cap X # {} \/ (v \in Perm /\ b = NBlocks)
      BY <2>2, <3>1, <3>2
    <3>4. (v \in gen[b] <=> ReadFirst(v, b, 0)) /\ (v \in killed[b] <=> ~ Kept(v, b, 0))
      BY <1>2 DEF LiveInv, Computed
    <3>5. v \in in'[b] => b \in X
      BY <2>1, <3>1, <3>3, <3>4 DEF Closed
    <3>6. QED
      BY <2>1, <3>3, <3>5
  <2>4. CASE ~ (bb \in bblocks /\ b = bb)
    <3>1. in'[b] = in[b] /\ out'[b] = out[b]
      BY <2>4, BlockFacts DEF Sweep, Flow
    <3>2. QED
      BY <2>1, <2>2, <3>1
  <2>5. QED
    BY <2>3, <2>4
<1>6. QED
  BY <1>1, <1>2, <1>3, <1>4, <1>5 DEF LiveInv, Covered, InView, Linked

LEMMA SweepEndLive == LiveInv /\ SweepEnd => LiveInv'
<1> SUFFICES ASSUME LiveInv, SweepEnd PROVE LiveInv'
  OBVIOUS
<1>1. FlowInv'
  BY SweepEndFlow DEF LiveInv
<1>2. /\ body' = body /\ jump' = jump /\ bblocks' = bblocks /\ pos' = pos
      /\ gen' = gen /\ killed' = killed /\ in' = in /\ out' = out
      /\ phase = "sweep" /\ phase' \in {"sweep", "dce"} /\ (phase' = "dce" => bb' = 1)
  BY DEF SweepEnd, program, sets
<1>3. ProgramInv'
  BY <1>2, SameProgram DEF LiveInv
<1>4. Cursor'
  BY <1>2 DEF LiveInv, Cursor
<1>5. Computed'
  BY <1>2 DEF LiveInv, Computed, ReadFirst, Kept
<1>6. OnlyLive'
  <2> SUFFICES ASSUME NEW v \in Temp, NEW X, Closed(v, X)', NEW b \in Block
               PROVE  /\ v \in in'[b] => b \in X
                      /\ v \in out'[b] => child(b)' \cap X # {} \/ (v \in Perm /\ b = NBlocks)
    BY DEF OnlyLive
  <2>1. Closed(v, X) /\ child(b)' = child(b)
    BY <1>2, SameClosed, SameChildren
  <2>2. QED
    BY <1>2, <2>1 DEF LiveInv, OnlyLive
<1>7. Covered'
  <2> SUFFICES ASSUME phase' = "dce", NEW b \in bblocks, NEW v \in Temp,
                      Wanted(body[b], Behind(b), v, 0)
               PROVE  v \in in[b]
    BY <1>2 DEF Covered, Behind
  <2>1. InSolved(b)
    BY <1>1, <1>2 DEF FlowInv, AllSolved, InSolved
  <2>2. b \in Block
    BY BlockFacts
  <2>3. (v \in gen[b] <=> ReadFirst(v, b, 0)) /\ (v \in killed[b] <=> ~ Kept(v, b, 0))
    BY <1>2, <2>2 DEF LiveInv, Computed
  <2>4. ReadFirst(v, b, 0) \/ (Kept(v, b, 0) /\ v \in out[b])
    BY ReadsAsWanted
  <2>5. QED
    BY <2>1, <2>3, <2>4 DEF InSolved
<1>8. InView' /\ Linked'
  BY <1>2, <1>4 DEF LiveInv, InView, Linked, Cursor
<1>9. QED
  BY <1>1, <1>3, <1>4, <1>5, <1>6, <1>7, <1>8 DEF LiveInv

(* dce where it changes no statement. *)
LEMMA DceLooks ==
  ASSUME LiveInv, phase = "dce", phase' = "dce", body' = body, jump' = jump,
         bblocks' = bblocks, sets' = sets, fix' = fix, FlowInv', Cursor', InView',
         bb' = 1 /\ pos' = -1 => bb = 1 /\ pos = -1
  PROVE  LiveInv'
<1>1. gen' = gen /\ killed' = killed /\ in' = in /\ out' = out
  BY DEF sets
<1>2. ProgramInv'
  BY SameProgram DEF LiveInv
<1>3. OnlyLive'
  <2> SUFFICES ASSUME bb' = 1, pos' = -1, ~ fix, NEW v \in Temp, NEW X, Closed(v, X)',
                      NEW b \in Block
               PROVE  /\ v \in in'[b] => b \in X
                      /\ v \in out'[b] => child(b)' \cap X # {} \/ (v \in Perm /\ b = NBlocks)
    BY DEF OnlyLive
  <2>1. Closed(v, X) /\ child(b)' = child(b)
    BY SameClosed, SameChildren
  <2>2. QED
    BY <1>1, <2>1 DEF LiveInv, OnlyLive
<1>4. Covered'
  BY <1>1 DEF LiveInv, Covered, Behind
<1>5. QED
  BY <1>2, <1>3, <1>4 DEF LiveInv, Computed, Linked

LEMMA dceEnterLive == LiveInv /\ dceEnter => LiveInv'
<1> SUFFICES ASSUME LiveInv, dceEnter PROVE LiveInv'
  OBVIOUS
<1>0. dce
  BY DEF dce
<1>1. FlowInv'
  BY <1>0, DceFlow DEF LiveInv
<1>2. /\ body' = body /\ jump' = jump /\ bblocks' = bblocks /\ sets' = sets /\ fix' = fix
      /\ phase = "dce" /\ phase' = "dce" /\ pos = -1
  BY DEF dceEnter, program
<1>3. bb \in Int /\ bb >= 1
  BY <1>2, BlockFacts DEF LiveInv, Cursor
<1>4. CASE bb \in bblocks
  <2>1. bb' = bb /\ pos' = Len(body[bb]) /\ lvar' = out[bb] \cup jump[bb].use
    BY <1>4 DEF dceEnter
  <2>2. body[bb] \in Seq(Stmt) /\ Len(body[bb]) \in Nat
    BY <1>4, BlockFacts
  <2>3. Cursor'
    BY <1>2, <1>3, <1>4, <2>1, <2>2 DEF Cursor
  <2>4. InView'
    <3> SUFFICES ASSUME NEW v \in Temp, Wanted(body[bb], Behind(bb), v, Len(body[bb]))
                 PROVE  v \in lvar'
      BY <1>2, <2>1 DEF InView, Behind, sets
    <3>1. v \in Behind(bb)
      BY <2>2, WantedEnd
    <3>2. QED
      BY <2>1, <3>1 DEF Behind
  <2>5. QED
    BY <1>1, <1>2, <2>1, <2>3, <2>4, DceLooks
<1>5. CASE bb \notin bblocks
  <2>1. bb' = bb + 1 /\ pos' = -1
    BY <1>5 DEF dceEnter, NextBlock
  <2>2. Cursor' /\ InView'
    BY <1>2, <1>3, <2>1 DEF Cursor, InView
  <2>3. ~ (bb' = 1)
    BY <1>3, <2>1
  <2>4. QED
    BY <1>1, <1>2, <2>2, <2>3, DceLooks
<1>6. QED
  BY <1>4, <1>5

(* The statement dce looks at. *)
LEMMA AtStmtFacts ==
  ASSUME LiveInv, AtStmt
  PROVE  /\ phase = "dce" /\ bb \in bblocks /\ bb \in Block /\ bb \in Int /\ bb >= 1
         /\ body[bb] \in Seq(Stmt) /\ Len(body[bb]) \in Nat
         /\ pos \in Int /\ pos > 0 /\ pos \in 1 .. Len(body[bb])
         /\ Here \in Stmt /\ NoVar \notin Temp
         /\ \A v \in Temp : Wanted(body[bb], Behind(bb), v, pos) => v \in lvar
<1>1. phase = "dce" /\ pos > 0 /\ pos \in Int /\ bb >= 1 /\ bb \in Int
  BY BlockFacts DEF AtStmt, LiveInv, Cursor
<1>2. bb \in bblocks /\ pos \in 0 .. Len(body[bb]) /\ pos # -1
  BY <1>1 DEF LiveInv, Cursor
<1>3. body[bb] \in Seq(Stmt) /\ Len(body[bb]) \in Nat /\ bb \in Block
  BY <1>2, BlockFacts
<1>4. pos \in 1 .. Len(body[bb])
  BY <1>1, <1>2, <1>3
<1>5. Here \in Stmt
  BY <1>3, <1>4 DEF Here
<1>6. \A v \in Temp : Wanted(body[bb], Behind(bb), v, pos) => v \in lvar
  BY <1>1, <1>2 DEF LiveInv, InView
<1>7. QED
  BY <1>1, <1>2, <1>3, <1>4, <1>5, <1>6, LivenessAssumption

LEMMA dceKeepLive == LiveInv /\ dceKeep => LiveInv'
<1> SUFFICES ASSUME LiveInv, dceKeep PROVE LiveInv'
  OBVIOUS
<1>0. dce /\ AtStmt
  BY DEF dce, dceKeep
<1>1. FlowInv'
  BY <1>0, DceFlow DEF LiveInv
<1>2. /\ body' = body /\ jump' = jump /\ bblocks' = bblocks /\ sets' = sets /\ fix' = fix
      /\ phase' = phase /\ bb' = bb /\ pos' = pos - 1
      /\ lvar' = lvar \cup Here.use \cup ({Here.def} \ {NoVar})
  BY DEF dceKeep, program
<1>3. /\ phase = "dce" /\ bb \in bblocks /\ bb >= 1
      /\ body[bb] \in Seq(Stmt) /\ Len(body[bb]) \in Nat
      /\ pos \in Int /\ pos > 0 /\ pos \in 1 .. Len(body[bb])
      /\ \A v \in Temp : Wanted(body[bb], Behind(bb), v, pos) => v \in lvar
  BY <1>0, AtStmtFacts
<1>4. pos - 1 \in 0 .. Len(body[bb]) /\ pos - 1 \in Int /\ pos - 1 # -1
  BY <1>3
<1>5. Cursor'
  BY <1>2, <1>3, <1>4 DEF Cursor
<1>6. InView'
  <2> SUFFICES ASSUME NEW v \in Temp, Wanted(body[bb], Behind(bb), v, pos - 1)
               PROVE  v \in lvar'
    BY <1>2 DEF InView, Behind, sets
  <2>1. v \in Here.use \/ Wanted(body[bb], Behind(bb), v, pos)
    BY <1>3, WantedStep DEF Here
  <2>2. QED
    BY <1>2, <1>3, <2>1
<1>7. QED
  BY <1>1, <1>2, <1>3, <1>4, <1>5, <1>6, DceLooks

LEMMA dceNextLive == LiveInv /\ dceNext => LiveInv'
<1> SUFFICES ASSUME LiveInv, dceNext PROVE LiveInv'
  OBVIOUS
<1>0. dce
  BY DEF dce
<1>1. FlowInv'
  BY <1>0, DceFlow DEF LiveInv
<1>2. /\ body' = body /\ jump' = jump /\ bblocks' = bblocks /\ sets' = sets /\ fix' = fix
      /\ phase = "dce" /\ phase' = "dce" /\ bb' = bb + 1 /\ pos' = -1
  BY DEF dceNext, program, NextBlock
<1>3. bb \in Int /\ bb >= 1
  BY <1>2, BlockFacts DEF LiveInv, Cursor
<1>4. bb' # 1 /\ bb' >= 1
  BY <1>2, <1>3
<1>5. Cursor' /\ InView'
  BY <1>2, <1>4 DEF Cursor, InView
<1>6. QED
  BY <1>1, <1>2, <1>4, <1>5, DceLooks

(* What dce finds dead is not wanted. *)
LEMMA DeadFacts ==
  ASSUME LiveInv, AtStmt, Dead
  PROVE  /\ Here.def \in Temp /\ Here.def # NoVar
         /\ ~ Wanted(body[bb], Behind(bb), Here.def, pos)
<1>1. Here \in Stmt /\ \A v \in Temp : Wanted(body[bb], Behind(bb), v, pos) => v \in lvar
  BY AtStmtFacts
<1>2. Here.def \in Temp /\ Here.def # NoVar /\ Here.def \notin lvar
  BY <1>1 DEF Dead, Stmt, Temp
<1>3. QED
  BY <1>1, <1>2

(* dce where it makes t of the statements of its block. *)
LEMMA DceChanges ==
  ASSUME LiveInv, AtStmt, NEW t \in Seq(Stmt), body' = [body EXCEPT ![bb] = t],
         \A v \in Temp : Wanted(t, Behind(bb), v, 0) => Wanted(body[bb], Behind(bb), v, 0),
         jump' = jump, sets' = sets, phase' = "dce",
         bblocks' = bblocks \/ (bblocks' = bblocks \ {bb} /\ Plain(bb) /\ t = <<>>),
         ~ (bb' = 1 /\ pos' = -1 /\ ~ fix'), FlowInv', Cursor', InView'
  PROVE  LiveInv'
<1>1. gen' = gen /\ killed' = killed /\ in' = in /\ out' = out
  BY DEF sets
<1>2. /\ phase = "dce" /\ bb \in bblocks /\ bb \in Block
      /\ body[bb] \in Seq(Stmt) /\ Len(body[bb]) \in Nat /\ pos \in 1 .. Len(body[bb])
  BY AtStmtFacts
<1>3. body \in [Block -> Seq(Stmt)] /\ body[NBlocks] = <<>> /\ NBlocks \in Block
  BY BlockFacts DEF LiveInv, ProgramInv
<1>4. body'[bb] = t /\ \A b \in Block : b # bb => body'[b] = body[b]
  BY <1>2, <1>3
<1>5. bb # NBlocks
  <2>1. body[bb] # <<>>
    BY <1>2
  <2>2. QED
    BY <1>3, <2>1
<1>6. bblocks' \subseteq bblocks /\ \A b \in bblocks : b # bb => b \in bblocks'
  OBVIOUS
<1>7. ProgramInv'
  <2>1. body' \in [Block -> Seq(Stmt)]
    BY <1>2, <1>3
  <2>2. body'[NBlocks] = <<>>
    BY <1>3, <1>4, <1>5
  <2>3. Shape' /\ \A b : Plain(b)' <=> Plain(b)
    BY SameLabels DEF LiveInv, ProgramInv
  <2>4. ASSUME NEW b \in Block, b \notin bblocks' PROVE Plain(b) /\ body'[b] = <<>>
    <3>1. CASE b = bb
      BY <1>2, <1>4, <2>4, <3>1
    <3>2. CASE b # bb
      <4>1. b \notin bblocks
        BY <1>6, <2>4, <3>2
      <4>2. QED
        BY <1>4, <3>2, <4>1 DEF LiveInv, ProgramInv
    <3>3. QED
      BY <3>1, <3>2
  <2>5. QED
    BY <2>1, <2>2, <2>3, <2>4 DEF ProgramInv
<1>8. Covered'
  <2> SUFFICES ASSUME NEW b \in bblocks', NEW v \in Temp, Wanted(body'[b], Behind(b), v, 0)
               PROVE  v \in in[b]
    BY <1>1 DEF Covered, Behind
  <2>1. b \in bblocks /\ b \in Block
    BY <1>6, BlockFacts
  <2>2. Wanted(body[b], Behind(b), v, 0)
    BY <1>4, <2>1
  <2>3. QED
    BY <1>2, <2>1, <2>2 DEF LiveInv, Covered
<1>9. OnlyLive' /\ Computed' /\ Linked'
  BY DEF OnlyLive, Computed, Linked
<1>10. QED
  BY <1>7, <1>8, <1>9 DEF LiveInv

LEMMA dceStripLive == LiveInv /\ dceStrip => LiveInv'
<1> SUFFICES ASSUME LiveInv, dceStrip PROVE LiveInv'
  OBVIOUS
<1>0. dce /\ AtStmt /\ Dead
  BY DEF dce, dceStrip
<1>1. FlowInv'
  BY <1>0, DceFlow DEF LiveInv
<1>2. /\ jump' = jump /\ bblocks' = bblocks /\ sets' = sets /\ fix' = fix
      /\ phase' = phase /\ bb' = bb /\ pos' = pos - 1 /\ lvar' = lvar \cup Here.use
      /\ body' = [body EXCEPT ![bb][pos].def = NoVar]
  BY DEF dceStrip
<1>3. /\ phase = "dce" /\ bb \in bblocks /\ bb \in Block /\ bb >= 1
      /\ body[bb] \in Seq(Stmt) /\ Len(body[bb]) \in Nat
      /\ pos \in Int /\ pos > 0 /\ pos \in 1 .. Len(body[bb])
      /\ \A v \in Temp : Wanted(body[bb], Behind(bb), v, pos) => v \in lvar
  BY <1>0, AtStmtFacts
<1>4. /\ Here.def \in Temp /\ Here.def # NoVar
      /\ ~ Wanted(body[bb], Behind(bb), Here.def, pos)
  BY <1>0, DeadFacts
<1>5. PICK t : t = [body[bb] EXCEPT ![pos].def = NoVar]
  OBVIOUS
<1>6. body' = [body EXCEPT ![bb] = t] /\ body'[bb] = t
  BY <1>2, <1>3, <1>5 DEF LiveInv, ProgramInv
<1>7. /\ t \in Seq(Stmt) /\ Len(t) = Len(body[bb])
      /\ \A v \in Temp : /\ Wanted(t, Behind(bb), v, 0) => Wanted(body[bb], Behind(bb), v, 0)
                         /\ Wanted(t, Behind(bb), v, pos - 1)
                              => v \in Here.use \/ Wanted(body[bb], Behind(bb), v, pos)
  <2>1. PICK s \in Seq(Stmt) : s = body[bb]
    BY <1>3
  <2>2. PICK p \in 1 .. Len(s) : p = pos
    BY <1>3, <2>1
  <2>3. PICK U : U = Behind(bb)
    OBVIOUS
  <2>4. t = Stripped(s, p) /\ Here = s[p]
    BY <1>5, <2>1, <2>2 DEF Here, Stripped
  <2>5. ~ Wanted(s, U, s[p].def, p)
    BY <1>4, <2>1, <2>2, <2>3, <2>4
  <2>6. ASSUME NEW v, v # NoVar
        PROVE  /\ Wanted(t, U, v, 0) => Wanted(s, U, v, 0)
               /\ Wanted(t, U, v, p - 1) => v \in s[p].use \/ Wanted(s, U, v, p)
    <3>1. Wanted(t, U, v, 0) => Wanted(s, U, v, 0)
      BY <2>1, <2>2, <2>4, <2>5, <2>6, StrippedWanted
    <3>2. Wanted(t, U, v, p - 1) => v \in s[p].use \/ Wanted(s, U, v, p)
      BY <2>1, <2>2, <2>4, <2>5, <2>6, StrippedWanted
    <3>3. QED
      BY <3>1, <3>2
  <2>7. \A v \in Temp : v # NoVar
    BY LivenessAssumption
  <2>8. t \in Seq(Stmt) /\ Len(t) = Len(s)
    BY <2>1, <2>2, <2>4, StrippedFacts
  <2>9. QED
    BY <2>1, <2>2, <2>3, <2>4, <2>6, <2>7, <2>8
<1>8. pos - 1 \in 0 .. Len(t) /\ pos - 1 \in Int /\ pos - 1 # -1
  BY <1>3, <1>7
<1>9. Cursor'
  BY <1>2, <1>3, <1>6, <1>8 DEF Cursor
<1>10. InView'
  <2> SUFFICES ASSUME NEW v \in Temp, Wanted(t, Behind(bb), v, pos - 1)
               PROVE  v \in lvar'
    BY <1>2, <1>6 DEF InView, Behind, sets
  <2>1. v \in Here.use \/ Wanted(body[bb], Behind(bb), v, pos)
    BY <1>7
  <2>2. QED
    BY <1>2, <1>3, <2>1
<1>11. QED
  BY <1>0, <1>1, <1>2, <1>3, <1>6, <1>7, <1>8, <1>9, <1>10, DceChanges

LEMMA dceRemoveLive == LiveInv /\ dceRemove => LiveInv'
<1> SUFFICES ASSUME LiveInv, dceRemove PROVE LiveInv'
  OBVIOUS
<1>0. dce /\ AtStmt /\ Dead
  BY DEF dce, dceRemove
<1>1. FlowInv'
  BY <1>0, DceFlow DEF LiveInv
<1>2. PICK t : t = Without(body[bb], pos)
  OBVIOUS
<1>3. /\ phase = "dce" /\ bb \in bblocks /\ bb \in Block /\ bb >= 1 /\ bb \in Int
      /\ body[bb] \in Seq(Stmt) /\ Len(body[bb]) \in Nat
      /\ pos \in Int /\ pos > 0 /\ pos \in 1 .. Len(body[bb])
      /\ \A v \in Temp : Wanted(body[bb], Behind(bb), v, pos) => v \in lvar
  BY <1>0, AtStmtFacts
<1>4. /\ jump' = jump /\ sets' = sets /\ fix' = TRUE /\ phase' = "dce"
      /\ body' = [body EXCEPT ![bb] = t]
      /\ bblocks' = IF First /\ Last THEN bblocks \ {bb} ELSE bblocks
      /\ IF First THEN bb' = bb + 1 /\ pos' = -1
         ELSE IF Last THEN pos' = -1 /\ bb' = bb
         ELSE pos' = pos - 1 /\ lvar' = lvar \cup Here.use /\ bb' = bb
  BY <1>2, <1>3, BlockFacts DEF dceRemove, NextBlock, LiveInv, ProgramInv
<1>5. body'[bb] = t
  BY <1>3, <1>4 DEF LiveInv, ProgramInv
<1>6. t \in Seq(Stmt) /\ Len(t) = Len(body[bb]) - 1
  BY <1>2, <1>3, WithoutFacts
<1>7. \A v \in Temp : /\ Wanted(t, Behind(bb), v, 0) => Wanted(body[bb], Behind(bb), v, 0)
                      /\ Wanted(t, Behind(bb), v, pos - 1) => Wanted(body[bb], Behind(bb), v, pos)
  <2>1. ~ Wanted(body[bb], Behind(bb), body[bb][pos].def, pos)
    BY <1>0, DeadFacts DEF Here
  <2>2. QED
    BY <1>2, <1>3, <2>1, RemovedWanted
<1>8. bblocks' = bblocks \/ (bblocks' = bblocks \ {bb} /\ Plain(bb) /\ t = <<>>)
  <2>1. CASE First /\ Last
    <3>1. pos = 1 /\ pos = Len(body[bb]) /\ Plain(bb)
      BY <2>1 DEF First, Last, Plain
    <3>2. Len(t) = 0
      BY <1>3, <1>6, <3>1
    <3>3. t = <<>>
      BY <1>6, <3>2, EmptySeq
    <3>4. QED
      BY <1>4, <2>1, <3>1, <3>3
  <2>2. CASE ~ (First /\ Last)
    BY <1>4, <2>2
  <2>3. QED
    BY <2>1, <2>2
<1>9. pos - 1 \in 0 .. Len(t) /\ pos - 1 \in Int /\ bb + 1 >= 1
  BY <1>3, <1>6
<1>10. Cursor' /\ InView'
  <2>1. CASE First \/ Last
    <3>1. pos' = -1 /\ bb' >= 1
      BY <1>3, <1>4, <1>9, <2>1
    <3>2. QED
      BY <1>4, <3>1 DEF Cursor, InView
  <2>2. CASE ~ (First \/ Last)
    <3>1. pos' = pos - 1 /\ lvar' = lvar \cup Here.use /\ bb' = bb /\ bblocks' = bblocks
      BY <1>4, <2>2
    <3>2. Cursor'
      BY <1>3, <1>4, <1>5, <1>9, <3>1 DEF Cursor
    <3>3. InView'
      <4> SUFFICES ASSUME NEW v \in Temp, Wanted(t, Behind(bb), v, pos - 1)
                   PROVE  v \in lvar'
        BY <1>4, <1>5, <3>1 DEF InView, Behind, sets
      <4>1. QED
        BY <1>3, <1>7, <3>1
    <3>4. QED
      BY <3>2, <3>3
  <2>3. QED
    BY <2>1, <2>2
<1>11. QED
  BY <1>0, <1>1, <1>4, <1>6, <1>7, <1>8, <1>10, DceChanges

LEMMA dceEndLive == LiveInv /\ dceEnd => LiveInv'
<1> SUFFICES ASSUME LiveInv, dceEnd PROVE LiveInv'
  OBVIOUS
<1>0. dce
  BY DEF dce
<1>1. FlowInv'
  BY <1>0, DceFlow DEF LiveInv
<1>2. /\ body' = body /\ jump' = jump /\ bblocks' = bblocks /\ sets' = sets /\ pos' = pos
      /\ phase = "dce" /\ phase' \in {"analyse", "walk"} /\ bb' = 1 /\ bb > NBlocks
  BY DEF dceEnd, program
<1>3. gen' = gen /\ killed' = killed /\ in' = in /\ out' = out
  BY <1>2 DEF sets
<1>4. ProgramInv'
  BY <1>2, SameProgram DEF LiveInv
<1>5. pos = -1
  <2>1. bb \notin bblocks
    BY <1>2, BlockFacts
  <2>2. QED
    BY <1>2, <2>1 DEF LiveInv, Cursor
<1>6. Cursor'
  BY <1>2, <1>5 DEF Cursor
<1>7. Covered'
  BY <1>2, <1>3 DEF LiveInv, Covered, Behind
<1>8. Linked'
  <2>1. \A b \in Block : ~ (b < 1)
    BY BlockFacts
  <2>2. QED
    BY <1>2, <2>1 DEF Linked
<1>9. QED
  BY <1>1, <1>2, <1>4, <1>6, <1>7, <1>8 DEF LiveInv, Computed, OnlyLive, InView

(* The rest of Build: no set and no statement changes, only edges come. *)
LEMMA WalkLive ==
  ASSUME LiveInv, phase = "walk", phase' \in {"walk", "done"}, UNCHANGED <<program, bblocks, sets, pos>>,
         FlowInv', bb' \in Int, phase' = "walk" => bb' >= 1,
         edges \subseteq edges',
         \A b \in Block : phase' = "done" \/ b < bb' => b < bb \/ LinkedIn(b)'
  PROVE  LiveInv'
<1>1. /\ body' = body /\ jump' = jump /\ bblocks' = bblocks /\ pos' = pos
      /\ gen' = gen /\ killed' = killed /\ in' = in /\ out' = out
  BY DEF program, sets
<1>2. ProgramInv'
  BY <1>1, SameProgram DEF LiveInv
<1>3. Cursor'
  BY <1>1 DEF LiveInv, Cursor
<1>4. Covered'
  BY <1>1 DEF LiveInv, Covered, Behind
<1>5. \A b \in Block : LinkedIn(b) => LinkedIn(b)'
  BY <1>1 DEF LinkedIn, Behind
<1>6. Linked'
  BY <1>5 DEF LiveInv, Linked
<1>7. QED
  BY <1>2, <1>3, <1>4, <1>6 DEF LiveInv, Computed, OnlyLive, InView

LEMMA insnwalkLive == LiveInv /\ insnwalk => LiveInv'
<1> SUFFICES ASSUME LiveInv, insnwalk PROVE LiveInv'
  OBVIOUS
<1>1. FlowInv'
  <2>1. [Next]_vars
    BY DEF Next
  <2>2. QED
    BY <2>1, StepFlow DEF LiveInv
<1>2. /\ phase = "walk" /\ phase' = "walk" /\ bb' = bb + 1 /\ bb <= NBlocks
      /\ UNCHANGED <<program, bblocks, sets, pos>>
      /\ body' = body /\ jump' = jump /\ out' = out
      /\ edges \subseteq edges'
      /\ \A k \in 1 .. Len(body[bb]) : addalledges(body[bb][k], LiveAt(bb, out[bb], k)) \subseteq edges'
  BY DEF insnwalk, program, sets
<1>3. bb \in Int /\ bb >= 1 /\ bb \in Block
  <2>1. bb \in Int /\ bb >= 1 /\ NBlocks \in Nat
    BY <1>2, BlockFacts DEF LiveInv, Cursor
  <2>2. QED
    BY <1>2, <2>1 DEF Block
<1>4. \A k \in 1 .. Len(body[bb]) : body[bb][k].def # NoVar =>
             \A v \in Temp \ {body[bb][k].def} :
               Wanted(body[bb], Behind(bb), v, k) => {body[bb][k].def, v} \in edges'
  <2> SUFFICES ASSUME NEW k \in 1 .. Len(body[bb]), body[bb][k].def # NoVar,
                      NEW v \in Temp \ {body[bb][k].def},
                      Wanted(body[bb], Behind(bb), v, k)
               PROVE  {body[bb][k].def, v} \in edges'
    OBVIOUS
  <2>1. body[bb] \in Seq(Stmt) /\ k \in 0 .. Len(body[bb])
    BY <1>3, BlockFacts
  <2>2. v \in LiveAt(bb, out[bb], k)
    BY <1>3, <2>1, LiveAtMeans DEF Behind
  <2>3. PICK d : d = body[bb][k].def
    OBVIOUS
  <2>4. PICK L : L = LiveAt(bb, out[bb], k)
    OBVIOUS
  <2>5. {d, v} \in Pairs({d} \ {NoVar}, L \ {d})
    <3>1. d \in {d} \ {NoVar} /\ v \in L \ {d}
      BY <2>2, <2>3, <2>4
    <3>2. \A u : {d, v} # {u}
      BY <2>3
    <3>3. QED
      BY <3>1, <3>2 DEF Pairs
  <2>6. {d, v} \in addalledges(body[bb][k], LiveAt(bb, out[bb], k))
    BY <2>3, <2>4, <2>5 DEF addalledges
  <2>7. QED
    BY <1>2, <2>3, <2>6
<1>5. PICK b : b = bb
  OBVIOUS
<1>6. LinkedIn(b)'
  BY <1>2, <1>4, <1>5 DEF LinkedIn, Behind
<1>7. \A c \in Block : c < bb + 1 => c < bb \/ c = bb
  BY <1>3, BlockFacts
<1>8. QED
  BY <1>1, <1>2, <1>3, <1>5, <1>6, <1>7, WalkLive

LEMMA BuildDoneLive == LiveInv /\ BuildDone => LiveInv'
<1> SUFFICES ASSUME LiveInv, BuildDone PROVE LiveInv'
  OBVIOUS
<1>1. FlowInv'
  <2>1. [Next]_vars
    BY DEF Next
  <2>2. QED
    BY <2>1, StepFlow DEF LiveInv
<1>2. /\ phase = "walk" /\ phase' = "done" /\ bb' = bb /\ bb > NBlocks
      /\ UNCHANGED <<program, bblocks, sets, pos>> /\ edges' = edges
  BY DEF BuildDone
<1>3. bb \in Int /\ \A b \in Block : b < bb
  BY <1>2, BlockFacts
<1>4. QED
  BY <1>1, <1>2, <1>3, WalkLive

LEMMA StutterLive == LiveInv /\ UNCHANGED vars => LiveInv'
<1> SUFFICES ASSUME LiveInv, UNCHANGED vars PROVE LiveInv'
  OBVIOUS
<1>1. FlowInv'
  BY StepFlow DEF LiveInv
<1>2. /\ body' = body /\ jump' = jump /\ bblocks' = bblocks /\ phase' = phase /\ bb' = bb
      /\ gen' = gen /\ killed' = killed /\ in' = in /\ out' = out /\ pos' = pos
      /\ lvar' = lvar /\ fix' = fix /\ edges' = edges
  BY DEF vars
<1>3. ProgramInv' /\ Cursor' /\ Computed' /\ Covered' /\ InView' /\ Linked'
  <2>1. ProgramInv'
    BY <1>2, SameProgram DEF LiveInv
  <2>2. Cursor' /\ Computed'
    BY <1>2 DEF LiveInv, Cursor, Computed, ReadFirst, Kept
  <2>3. Covered' /\ InView' /\ Linked'
    BY <1>2 DEF LiveInv, Covered, InView, Linked, LinkedIn, Behind
  <2>4. QED
    BY <2>1, <2>2, <2>3
<1>4. OnlyLive'
  <2>1. \A v, X : Closed(v, X)' <=> Closed(v, X)
    BY <1>2, SameClosed
  <2>2. \A b : child(b)' = child(b)
    BY <1>2, SameChildren
  <2>3. QED
    BY <1>2, <2>1, <2>2 DEF LiveInv, OnlyLive
<1>5. QED
  BY <1>1, <1>3, <1>4 DEF LiveInv

LEMMA StepLive == LiveInv /\ [Next]_vars => LiveInv'
<1> SUFFICES ASSUME LiveInv, [Next]_vars PROVE LiveInv'
  OBVIOUS
<1>1. CASE LivenessAnalysis
  BY <1>1, AnalysisLive
<1>2. CASE Sweep
  BY <1>2, SweepLive
<1>3. CASE SweepEnd
  BY <1>3, SweepEndLive
<1>4. CASE dce
  BY <1>4, dceEnterLive, dceKeepLive, dceStripLive, dceRemoveLive, dceNextLive, dceEndLive
     DEF dce
<1>5. CASE insnwalk
  BY <1>5, insnwalkLive
<1>6. CASE BuildDone
  BY <1>6, BuildDoneLive
<1>7. CASE UNCHANGED vars
  BY <1>7, StutterLive
<1>8. QED
  BY <1>1, <1>2, <1>3, <1>4, <1>5, <1>6, <1>7 DEF Next, Finished

(* The loop of regs.c:1081 over LivenessAnalysis: the sets it ends with    *)
(* are the live variables of the program, no more and no fewer.            *)
THEOREM SetsAreLive == ASSUME Sheltered PROVE Spec => []OutIsLive
<1>1. ASSUME LiveInv PROVE OutIsLive
  <2> SUFFICES ASSUME phase = "dce", bb = 1, pos = -1, ~ fix,
                      NEW v \in Temp, NEW b \in bblocks
               PROVE  v \in out[b] <=> LiveAtEnd(v, b)
    BY DEF OutIsLive, LiveAtEnd
  <2>1. b \in Block /\ Closed(v, Needing(v))
    BY <1>1, BlockFacts, NeedingIsLeast
  <2>2. v \in out[b] => LiveAtEnd(v, b)
    BY <1>1, <2>1 DEF LiveInv, OnlyLive, LiveAtEnd
  <2>3. LiveAtEnd(v, b) => v \in out[b]
    BY <1>1, LiveIsIn
  <2>4. QED
    BY <2>2, <2>3
<1>2. QED
  BY <1>1, InitLive, StepLive, PTL DEF Spec

(* deldead of regs.c:1480 and its caller dce: a step that changes the      *)
(* statements takes away an assignment whose variable no path from there   *)
(* reads, though the sets are not computed again between two removals.     *)
THEOREM DeadOnly == ASSUME Sheltered PROVE Spec => OnlyDeadRemoved
<1>1. ASSUME LiveInv, Next, body' # body
      PROVE  Here.def # NoVar /\ ~ Needed(Here.def, bb, pos)
  <2>1. AtStmt /\ Dead
    BY <1>1 DEF Next, LivenessAnalysis, Sweep, SweepEnd, dce, dceEnter, dceKeep, dceStrip,
                dceRemove, dceNext, dceEnd, insnwalk, BuildDone, Finished, program, vars
  <2>2. /\ Here.def \in Temp /\ Here.def # NoVar
        /\ ~ Wanted(body[bb], Behind(bb), Here.def, pos)
    BY <1>1, <2>1, DeadFacts
  <2>3. phase = "dce" /\ bb \in bblocks
    BY <1>1, <2>1, AtStmtFacts
  <2>4. LiveAtEnd(Here.def, bb) => Here.def \in out[bb]
    BY <1>1, <2>2, <2>3, LiveIsIn
  <2>5. QED
    BY <2>2, <2>4, ReadsAsWanted DEF Needed
<1>2. ASSUME LiveInv, [Next]_vars
      PROVE  [body' # body => Here.def # NoVar /\ ~ Needed(Here.def, bb, pos)]_vars
  BY <1>1, <1>2
<1>3. QED
  BY <1>2, InitLive, StepLive, PTL DEF Spec, OnlyDeadRemoved

(* insnwalk of regs.c:781 for every block and statement: at the end of     *)
(* Build two variables of which one is assigned while the other is still   *)
(* to be read have an edge, which is what AssignColors goes by.            *)
THEOREM AllLinked == ASSUME Sheltered PROVE Spec => []LiveTogetherLinked
<1>1. ASSUME LiveInv PROVE LiveTogetherLinked
  <2> SUFFICES ASSUME phase = "done", NEW b \in Block, NEW k \in 1 .. Len(body[b]),
                      body[b][k].def # NoVar, NEW v \in Temp \ {body[b][k].def},
                      Needed(v, b, k)
               PROVE  {body[b][k].def, v} \in edges
    BY DEF LiveTogetherLinked
  <2>1. b \in bblocks
    <3>1. body[b] # <<>>
      OBVIOUS
    <3>2. QED
      BY <1>1, <3>1 DEF LiveInv, ProgramInv
  <2>2. LiveAtEnd(v, b) => v \in out[b]
    BY <1>1, <2>1, LiveIsIn
  <2>3. Wanted(body[b], Behind(b), v, k)
    BY <2>2, ReadsAsWanted DEF Needed
  <2>4. LinkedIn(b)
    BY <1>1 DEF LiveInv, Linked
  <2>5. QED
    BY <2>3, <2>4 DEF LinkedIn
<1>2. QED
  BY <1>1, InitLive, StepLive, PTL DEF Spec

-----------------------------------------------------------------------------
(* Build uses something up in every step.  Of the invariant this needs the *)
(* flow sets' bounds, the types, and where dce is in a block.              *)

Typed ==
  /\ body \in [Block -> Seq(Stmt)]
  /\ phase \in {"analyse", "sweep", "dce", "walk", "done"}
  /\ pos \in Int
  /\ phase # "dce" => pos = -1
  /\ phase = "dce" /\ pos # -1 => bb \in Block /\ pos <= Len(body[bb])
  /\ \A b \in Block : gen[b] \subseteq Temp /\ in[b] \subseteq Temp /\ out[b] \subseteq Temp

LEMMA InitTyped == Init => Typed
<1> SUFFICES ASSUME Init PROVE Typed
  OBVIOUS
<1>1. body \in [Block -> Seq(Stmt)]
  BY LivenessAssumption DEF Init
<1>2. QED
  BY <1>1 DEF Init, Typed

LEMMA AnalysisTyped ==
  ASSUME FlowInv, Typed, LivenessAnalysis
  PROVE  Typed'
<1>1. /\ body' = body /\ jump' = jump /\ pos' = pos /\ phase = "analyse" /\ phase' = "sweep"
      /\ in' = gen'
  BY DEF LivenessAnalysis, program
<1>2. ASSUME NEW b \in Block PROVE gen'[b] \subseteq Temp /\ out'[b] \subseteq Temp
  <2>1. out'[b] \subseteq Temp
    BY DEF LivenessAnalysis, Temp
  <2>2. CASE b \notin bblocks
    BY <2>1, <2>2 DEF LivenessAnalysis
  <2>3. CASE b \in bblocks
    <3>1. gen'[b] = LiveAt(b, {}, 0)
      BY <2>3 DEF LivenessAnalysis, unionize
    <3>2. body[b] \in Seq(Stmt) /\ 0 \in 0 .. Len(body[b])
      BY DEF Typed
    <3>3. jump[b].use \subseteq Var
      BY DEF FlowInv, FlowTypes, Jump
    <3>4. ASSUME NEW v \in LiveAt(b, {}, 0) PROVE v \in Var
      <4>1. Wanted(body[b], jump[b].use \cup {}, v, 0)
        BY <3>2, LiveAtMeans
      <4>2. CASE v \in jump[b].use
        BY <3>3, <4>2
      <4>3. CASE \E j \in 0 + 1 .. Len(body[b]) : v \in body[b][j].use
        <5>1. PICK j \in 1 .. Len(body[b]) : v \in body[b][j].use
          BY <4>3
        <5>2. body[b][j] \in Stmt
          BY <3>2
        <5>3. QED
          BY <5>1, <5>2 DEF Stmt
      <4>4. QED
        BY <4>1, <4>2, <4>3 DEF Wanted
    <3>5. QED
      BY <2>1, <3>1, <3>4 DEF Temp
  <2>4. QED
    BY <2>2, <2>3
<1>3. QED
  BY <1>1, <1>2 DEF Typed

LEMMA SweepTyped ==
  ASSUME FlowInv, Typed, Sweep
  PROVE  Typed'
<1>1. /\ body' = body /\ jump' = jump /\ pos' = pos /\ phase' = phase /\ phase = "sweep"
      /\ gen' = gen
  BY DEF Sweep, program
<1>2. CASE bb \notin bblocks
  BY <1>1, <1>2 DEF Sweep, Typed
<1>3. CASE bb \in bblocks
  <2>1. /\ out' = [out EXCEPT ![bb] = @ \cup FromChildren(bb)]
        /\ in' = [in EXCEPT ![bb] = gen[bb] \cup (out'[bb] \ killed[bb])]
        /\ bb \in Block
    BY <1>3 DEF Sweep, Flow, FromChildren, FlowInv, FlowTypes
  <2>2. FromChildren(bb) \subseteq Temp
    BY <2>1, ChildIsBlock DEF FromChildren, FlowInv, FlowTypes, Typed
  <2>3. \A b \in Block : out'[b] \subseteq Temp
    BY <2>1, <2>2 DEF Typed, FlowInv, FlowTypes
  <2>4. \A b \in Block : in'[b] \subseteq Temp
    BY <2>1, <2>3 DEF Typed, FlowInv, FlowTypes
  <2>5. QED
    BY <1>1, <2>3, <2>4 DEF Typed
<1>4. QED
  BY <1>2, <1>3

(* dce with a statement before it. *)
LEMMA StmtAt ==
  ASSUME FlowInv, Typed, AtStmt
  PROVE  /\ bb \in Block /\ body[bb] \in Seq(Stmt) /\ Len(body[bb]) \in Nat
         /\ pos \in 1 .. Len(body[bb])
<1>1. phase = "dce" /\ pos > 0 /\ pos \in Int
  BY DEF AtStmt, Typed
<1>2. bb \in Block /\ pos <= Len(body[bb])
  BY <1>1 DEF Typed
<1>3. body[bb] \in Seq(Stmt) /\ Len(body[bb]) \in Nat
  BY <1>2 DEF Typed
<1>4. QED
  BY <1>1, <1>2, <1>3

(* What dceRemove and dceStrip make of the statements. *)
LEMMA RemoveChanges ==
  ASSUME FlowInv, Typed, dceRemove
  PROVE  /\ \A b \in Block : b # bb => body'[b] = body[b]
         /\ body'[bb] \in Seq(Stmt) /\ Len(body'[bb]) = Len(body[bb]) - 1
         /\ body' \in [Block -> Seq(Stmt)]
<1>1. AtStmt
  BY DEF dceRemove
<1>2. Without(body[bb], pos) \in Seq(Stmt) /\ Len(Without(body[bb], pos)) = Len(body[bb]) - 1
  BY <1>1, StmtAt, WithoutFacts
<1>3. body' = [body EXCEPT ![bb] = Without(body[bb], pos)]
  BY DEF dceRemove
<1>4. QED
  BY <1>1, <1>2, <1>3, StmtAt DEF Typed

LEMMA StripChanges ==
  ASSUME FlowInv, Typed, dceStrip
  PROVE  /\ \A b \in Block : b # bb => body'[b] = body[b]
         /\ body'[bb] \in Seq(Stmt) /\ Len(body'[bb]) = Len(body[bb])
         /\ body'[bb][pos].def = NoVar
         /\ \A i \in 1 .. Len(body[bb]) : i # pos => body'[bb][i] = body[bb][i]
         /\ body' \in [Block -> Seq(Stmt)]
<1>1. AtStmt
  BY DEF dceStrip
<1>2. PICK t : t = Stripped(body[bb], pos)
  OBVIOUS
<1>3. /\ t \in Seq(Stmt) /\ Len(t) = Len(body[bb]) /\ t[pos].def = NoVar
      /\ \A i \in 1 .. Len(body[bb]) : i # pos => t[i] = body[bb][i]
  BY <1>1, <1>2, StmtAt, StrippedFacts
<1>4. body' = [body EXCEPT ![bb] = t]
  BY <1>1, <1>2, StmtAt DEF dceStrip, Stripped, Typed
<1>5. QED
  BY <1>1, <1>3, <1>4, StmtAt DEF Typed

LEMMA DceTyped ==
  ASSUME FlowInv, Typed, dce
  PROVE  Typed'
<1>1. phase = "dce" /\ gen' = gen /\ in' = in /\ out' = out
  BY DEF dce, dceEnter, dceKeep, dceStrip, dceRemove, dceNext, dceEnd, AtStmt, sets
<1>2. CASE dceEnter
  <2>1. phase' = phase /\ body' = body
    BY <1>2 DEF dceEnter, program
  <2>2. CASE bb \in bblocks
    <3>1. bb' = bb /\ pos' = Len(body[bb]) /\ bb \in Block /\ Len(body[bb]) \in Nat
      BY <1>2, <2>2 DEF dceEnter, FlowInv, FlowTypes, Typed
    <3>2. QED
      BY <1>1, <2>1, <3>1 DEF Typed
  <2>3. CASE bb \notin bblocks
    BY <1>1, <1>2, <2>1, <2>3 DEF dceEnter, NextBlock, Typed
  <2>4. QED
    BY <2>2, <2>3
<1>3. CASE dceKeep
  <2>1. AtStmt /\ phase' = phase /\ body' = body /\ bb' = bb /\ pos' = pos - 1
    BY <1>3 DEF dceKeep, program
  <2>2. pos' \in Int /\ pos' <= Len(body[bb]) /\ bb \in Block
    BY <2>1, StmtAt
  <2>3. QED
    BY <1>1, <2>1, <2>2 DEF Typed
<1>4. CASE dceStrip
  <2>1. AtStmt /\ phase' = phase /\ bb' = bb /\ pos' = pos - 1
    BY <1>4 DEF dceStrip
  <2>2. pos' \in Int /\ pos' <= Len(body[bb]) /\ bb \in Block
    BY <2>1, StmtAt
  <2>3. body' \in [Block -> Seq(Stmt)] /\ Len(body'[bb]) = Len(body[bb])
    BY <1>4, StripChanges
  <2>4. QED
    BY <1>1, <2>1, <2>2, <2>3 DEF Typed
<1>5. CASE dceRemove
  <2>1. AtStmt /\ phase' = phase /\ (pos' = -1 \/ (pos' = pos - 1 /\ bb' = bb))
    BY <1>5 DEF dceRemove, NextBlock
  <2>2. body' \in [Block -> Seq(Stmt)] /\ Len(body'[bb]) = Len(body[bb]) - 1
    BY <1>5, RemoveChanges
  <2>3. pos - 1 \in Int /\ pos - 1 <= Len(body[bb]) - 1 /\ bb \in Block
    BY <2>1, StmtAt
  <2>4. QED
    BY <1>1, <2>1, <2>2, <2>3 DEF Typed
<1>6. CASE dceNext
  BY <1>1, <1>6 DEF dceNext, NextBlock, program, Typed
<1>7. CASE dceEnd
  <2>1. bb > NBlocks /\ pos' = pos /\ body' = body /\ phase' \in {"analyse", "walk"}
    BY <1>7 DEF dceEnd, program
  <2>2. bb \notin Block
    BY <2>1, LivenessAssumption DEF Block
  <2>3. pos = -1
    BY <1>1, <2>2 DEF Typed
  <2>4. QED
    BY <1>1, <2>1, <2>3 DEF Typed
<1>8. QED
  BY <1>2, <1>3, <1>4, <1>5, <1>6, <1>7 DEF dce

LEMMA StepTyped ==
  ASSUME FlowInv, Typed, [Next]_vars
  PROVE  Typed'
<1>1. CASE LivenessAnalysis
  BY <1>1, AnalysisTyped
<1>2. CASE Sweep
  BY <1>2, SweepTyped
<1>3. CASE SweepEnd
  BY <1>3 DEF SweepEnd, program, sets, Typed
<1>4. CASE dce
  BY <1>4, DceTyped
<1>5. CASE insnwalk
  BY <1>5 DEF insnwalk, program, sets, Typed
<1>6. CASE BuildDone
  BY <1>6 DEF BuildDone, program, sets, Typed
<1>7. CASE Finished \/ UNCHANGED vars
  BY <1>7 DEF Finished, vars, program, sets, Typed
<1>8. QED
  BY <1>1, <1>2, <1>3, <1>4, <1>5, <1>6, <1>7 DEF Next

(* A statement that is removed, an assignment that is stripped. *)
LEMMA RemoveAdvances ==
  ASSUME FlowInv, Typed, dceRemove
  PROVE  Shrinks(Statements, Statements')
<1>1. /\ bb \in Block /\ Len(body[bb]) \in Nat /\ pos \in 1 .. Len(body[bb])
  BY StmtAt DEF dceRemove
<1>2. /\ \A b \in Block : b # bb => body'[b] = body[b]
      /\ Len(body'[bb]) = Len(body[bb]) - 1
  BY RemoveChanges
<1>3. Statements' \subseteq Statements
  <2> SUFFICES ASSUME NEW b \in Block, NEW k \in 1 .. Len(body'[b])
               PROVE  <<b, k>> \in Statements
    BY DEF Statements
  <2>1. k \in 1 .. Len(body[b])
    BY <1>1, <1>2
  <2>2. QED
    BY <2>1 DEF Statements
<1>4. <<bb, Len(body[bb])>> \in Statements
  <2>1. Len(body[bb]) \in 1 .. Len(body[bb])
    BY <1>1
  <2>2. QED
    BY <1>1, <2>1 DEF Statements
<1>5. <<bb, Len(body[bb])>> \notin Statements'
  <2> SUFFICES ASSUME Len(body[bb]) \in 1 .. Len(body'[bb]) PROVE FALSE
    BY DEF Statements
  <2>1. QED
    BY <1>1, <1>2
<1>6. QED
  BY <1>3, <1>4, <1>5 DEF Shrinks

LEMMA StripAdvances ==
  ASSUME FlowInv, Typed, dceStrip
  PROVE  Statements' = Statements /\ Shrinks(Assignments, Assignments')
<1>1. /\ bb \in Block /\ Len(body[bb]) \in Nat /\ pos \in 1 .. Len(body[bb])
      /\ body[bb][pos].def # NoVar
  BY StmtAt DEF dceStrip, Dead, Here
<1>2. /\ \A b \in Block : b # bb => body'[b] = body[b]
      /\ Len(body'[bb]) = Len(body[bb]) /\ body'[bb][pos].def = NoVar
      /\ \A i \in 1 .. Len(body[bb]) : i # pos => body'[bb][i] = body[bb][i]
  BY StripChanges
<1>3. \A b \in Block : Len(body'[b]) = Len(body[b])
  BY <1>2
<1>4. Statements' = Statements
  BY <1>3 DEF Statements
<1>5. \A s \in Statements : s[1] \in Block /\ s[2] \in 1 .. Len(body[s[1]]) /\ s = <<s[1], s[2]>>
  BY DEF Statements
<1>6. ASSUME NEW s \in Statements, body'[s[1]][s[2]].def # NoVar
      PROVE  body[s[1]][s[2]].def # NoVar
  BY <1>2, <1>5, <1>6
<1>7. <<bb, pos>> \in Statements
  BY <1>1 DEF Statements
<1>8. <<bb, pos>> \in Assignments /\ <<bb, pos>> \notin Assignments'
  BY <1>1, <1>2, <1>4, <1>7 DEF Assignments
<1>9. Assignments' \subseteq Assignments
  BY <1>4, <1>6 DEF Assignments
<1>10. QED
  BY <1>4, <1>8, <1>9 DEF Shrinks

(* A block of a sweep finds something new, or changes nothing. *)
LEMMA SweepAdvances ==
  ASSUME FlowInv, Typed, Typed', Sweep
  PROVE  Shrinks(Missing, Missing') \/ UNCHANGED <<in, out, again>>
<1>1. phase = "sweep" /\ \A b \in Block : InBound(b)
  BY DEF Sweep, FlowInv, Bounds
<1>2. CASE bb \notin bblocks
  BY <1>2 DEF Sweep
<1>3. CASE bb \in bblocks
  <2>1. /\ out' = [out EXCEPT ![bb] = @ \cup FromChildren(bb)]
        /\ in' = [in EXCEPT ![bb] = gen[bb] \cup (out'[bb] \ killed[bb])]
        /\ again' = (again \/ out' # out \/ in' # in)
        /\ bb \in Block
    BY <1>3 DEF Sweep, Flow, FromChildren, FlowInv, FlowTypes
  <2>2. /\ out'[bb] = out[bb] \cup FromChildren(bb)
        /\ in'[bb] = gen[bb] \cup (out'[bb] \ killed[bb])
        /\ \A b \in Block : b # bb => out'[b] = out[b] /\ in'[b] = in[b]
    BY <2>1 DEF FlowInv, FlowTypes
  <2>3. \A b \in Block : out[b] \subseteq out'[b] /\ in[b] \subseteq in'[b]
    BY <1>1, <2>1, <2>2 DEF InBound
  <2>4. Missing' \subseteq Missing
    BY <2>3 DEF Missing
  <2>5. CASE \E b \in Block : out'[b] # out[b]
    <3>1. PICK b \in Block : out'[b] # out[b]
      BY <2>5
    <3>2. PICK v \in out'[b] : v \notin out[b]
      BY <2>3, <3>1
    <3>3. v \in Temp
      BY DEF Typed
    <3>4. <<"out", b, v>> \in Missing /\ <<"out", b, v>> \notin Missing'
      BY <3>2, <3>3 DEF Missing
    <3>5. QED
      BY <2>4, <3>4 DEF Shrinks
  <2>6. CASE \E b \in Block : in'[b] # in[b]
    <3>1. PICK b \in Block : in'[b] # in[b]
      BY <2>6
    <3>2. PICK v \in in'[b] : v \notin in[b]
      BY <2>3, <3>1
    <3>3. v \in Temp
      BY DEF Typed
    <3>4. <<"in", b, v>> \in Missing /\ <<"in", b, v>> \notin Missing'
      BY <3>2, <3>3 DEF Missing
    <3>5. QED
      BY <2>4, <3>4 DEF Shrinks
  <2>7. CASE \A b \in Block : out'[b] = out[b] /\ in'[b] = in[b]
    <3>1. out' = out /\ in' = in
      BY <2>1, <2>7 DEF FlowInv, FlowTypes
    <3>2. again' = again
      BY <2>1, <3>1 DEF FlowInv, FlowTypes
    <3>3. QED
      BY <3>1, <3>2
  <2>8. QED
    BY <2>5, <2>6, <2>7
<1>4. QED
  BY <1>2, <1>3

(* The other steps: one stage to the next, or to the next block or         *)
(* statement.                                                              *)
LEMMA QuietAdvances ==
  ASSUME FlowInv, Typed, Typed', Next, body' = body, ~ UNCHANGED vars
  PROVE  \/ Stage' < Stage
         \/ Stage' = Stage /\ Shrinks(Missing, Missing')
         \/ UNCHANGED <<Stage, in, out>> /\ again /\ ~ again'
         \/ UNCHANGED <<Stage, in, out, again>> /\ BlocksLeft' < BlocksLeft
         \/ UNCHANGED <<Stage, in, out, again, BlocksLeft>> /\ StmtsLeft' < StmtsLeft
<1>1. NBlocks \in Nat /\ bb \in Int /\ again \in BOOLEAN
  BY LivenessAssumption DEF FlowInv, FlowTypes
<1>2. CASE LivenessAnalysis
  BY <1>2 DEF LivenessAnalysis, Stage
<1>3. CASE Sweep
  <2>1. phase = "sweep" /\ phase' = "sweep" /\ bb' = bb - 1
    BY <1>3 DEF Sweep
  <2>2. Stage' = Stage /\ BlocksLeft' < BlocksLeft
    BY <1>1, <2>1 DEF Stage, BlocksLeft
  <2>3. QED
    BY <1>3, <2>2, SweepAdvances
<1>4. CASE SweepEnd
  <2>1. phase = "sweep" /\ in' = in /\ out' = out /\ ~ again'
    BY <1>4 DEF SweepEnd, sets
  <2>2. CASE again
    BY <1>4, <2>1, <2>2 DEF SweepEnd, Stage
  <2>3. CASE ~ again
    <3>1. phase' = "dce" /\ fix' = FALSE
      BY <1>4, <2>3 DEF SweepEnd
    <3>2. QED
      BY <2>1, <3>1 DEF Stage
  <2>4. QED
    BY <2>2, <2>3
<1>5. CASE dceEnter \/ dceKeep \/ dceNext
  <2>1. /\ phase = "dce" /\ phase' = "dce" /\ bb <= NBlocks
        /\ UNCHANGED <<in, out, again, fix>>
    BY <1>5 DEF dceEnter, dceKeep, dceNext, AtStmt, sets
  <2>2. Stage' = Stage
    BY <2>1 DEF Stage
  <2>3. CASE bb' = bb + 1
    <3>1. BlocksLeft' < BlocksLeft
      BY <1>1, <2>1, <2>3 DEF BlocksLeft
    <3>2. QED
      BY <2>1, <2>2, <3>1
  <2>4. CASE bb' # bb + 1
    <3>1. \/ pos = -1 /\ bb \in Block /\ bb' = bb /\ pos' = Len(body[bb])
          \/ pos > 0 /\ bb' = bb /\ pos' = pos - 1
      BY <1>5, <2>4 DEF dceEnter, dceKeep, dceNext, NextBlock, AtStmt, FlowInv, FlowTypes
    <3>2. BlocksLeft' = BlocksLeft
      BY <2>1, <3>1 DEF BlocksLeft
    <3>3. StmtsLeft' < StmtsLeft
      <4>1. CASE pos = -1
        <5>1. Len(body[bb]) \in Nat
          BY <3>1, <4>1 DEF Typed
        <5>2. StmtsLeft = Len(body[bb]) + 1 /\ StmtsLeft' = Len(body[bb])
          BY <3>1, <4>1, <5>1 DEF StmtsLeft
        <5>3. QED
          BY <5>1, <5>2
      <4>2. CASE pos # -1
        <5>1. pos \in Int /\ pos > 0 /\ pos' = pos - 1
          BY <3>1, <4>2 DEF Typed
        <5>2. StmtsLeft = pos /\ StmtsLeft' = pos - 1
          BY <5>1 DEF StmtsLeft
        <5>3. QED
          BY <5>1, <5>2
      <4>3. QED
        BY <4>1, <4>2
    <3>4. QED
      BY <2>1, <2>2, <3>2, <3>3
  <2>5. QED
    BY <2>3, <2>4
<1>6. CASE dceStrip \/ dceRemove
  BY <1>6, StripAdvances, RemoveAdvances DEF Shrinks, Statements, Assignments
<1>7. CASE dceEnd
  <2>1. phase = "dce" /\ phase' = (IF fix THEN "analyse" ELSE "walk")
    BY <1>7 DEF dceEnd
  <2>2. QED
    BY <2>1 DEF Stage
<1>8. CASE insnwalk
  <2>1. /\ phase = "walk" /\ phase' = "walk" /\ bb' = bb + 1
        /\ UNCHANGED <<in, out, again>>
    BY <1>8 DEF insnwalk, sets
  <2>2. Stage' = Stage /\ BlocksLeft' < BlocksLeft
    BY <1>1, <2>1 DEF Stage, BlocksLeft
  <2>3. QED
    BY <2>1, <2>2
<1>9. CASE BuildDone
  BY <1>9 DEF BuildDone, Stage
<1>10. CASE Finished
  BY <1>10 DEF Finished
<1>11. QED
  BY <1>2, <1>3, <1>4, <1>5, <1>6, <1>7, <1>8, <1>9, <1>10 DEF Next, dce

(* Whatever the program, no step of Build undoes what an earlier one of    *)
(* its rank has done: sweeps, removals and analyses cannot start one       *)
(* another for ever, as there are finitely many statements, blocks and     *)
(* variables.                                                              *)
THEOREM BuildNeverCircles == Spec => BuildAdvances
<1>1. ASSUME FlowInv, Typed, Typed', Next, ~ UNCHANGED vars
      PROVE  IF body' # body
             THEN \/ Shrinks(Statements, Statements')
                  \/ Statements' = Statements /\ Shrinks(Assignments, Assignments')
             ELSE \/ Stage' < Stage
                  \/ Stage' = Stage /\ Shrinks(Missing, Missing')
                  \/ UNCHANGED <<Stage, in, out>> /\ again /\ ~ again'
                  \/ UNCHANGED <<Stage, in, out, again>> /\ BlocksLeft' < BlocksLeft
                  \/ UNCHANGED <<Stage, in, out, again, BlocksLeft>> /\ StmtsLeft' < StmtsLeft
  <2>1. CASE body' # body
    <3>1. dceRemove \/ dceStrip
      BY <1>1, <2>1 DEF Next, LivenessAnalysis, Sweep, SweepEnd, dce, dceEnter, dceKeep,
                        dceNext, dceEnd, insnwalk, BuildDone, Finished, program, vars
    <3>2. QED
      BY <1>1, <2>1, <3>1, RemoveAdvances, StripAdvances
  <2>2. CASE body' = body
    BY <1>1, <2>2, QuietAdvances
  <2>3. QED
    BY <2>1, <2>2
<1>2. FlowInv /\ Typed /\ [Next]_vars => FlowInv' /\ Typed'
  BY StepFlow, StepTyped
<1>3. Init => FlowInv /\ Typed
  BY InitFlow, InitTyped
<1>4. QED
  BY <1>1, <1>2, <1>3, PTL DEF Spec, BuildAdvances


=============================================================================
