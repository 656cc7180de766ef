----------------------------- MODULE SpillLoop -----------------------------
(***************************************************************************)
(* ngenregs of pcc/mip/regs.c around the colouring round of RegAlloc: what *)
(* RewriteProgram does with the spilled nodes, the rounds it takes, and    *)
(* the saving of the callee-saved registers at the end.                    *)
(*                                                                         *)
(* A round may spill any of the nodes it colours.  Of the short-lived      *)
(* nodes, one for each statement counts (toptemp drops the others).        *)
(***************************************************************************)
EXTENDS Integers, Sequences, FiniteSets

CONSTANTS
  Reg,       \* the machine registers
  NPerm,     \* NPERMREG - 1
  permregs,  \* the callee-saved registers, in the order of the table
  Var,       \* the long-lived temporaries
  StackArg,  \* those whose value arrives on the stack
  Stmt,      \* the statements
  xtemps,    \* optimising: arguments may stay where they arrive
  xssa,      \* SSA form: every round of short-lived spills allocates nblock anew
  MAXLOOP,
  None,      \* longsp when nothing was ever stored to save a short-lived node
  Old        \* longsp when it points into an nblock that is gone

Perm == 1 .. NPerm

ASSUME SpillAssumption ==
  /\ NPerm \in Nat
  /\ Reg \subseteq Nat
  /\ permregs \in [Perm -> Reg]
  /\ \A i, j \in Perm : permregs[i] = permregs[j] => i = j
  /\ IsFiniteSet(Var)
  /\ Perm \cap Var = {} /\ Perm \cap Stmt = {} /\ Var \cap Stmt = {}
  /\ {None, Old} \cap (Perm \cup Var \cup Stmt) = {}
  /\ StackArg \subseteq Var
  /\ xtemps \in BOOLEAN
  /\ xssa \in BOOLEAN
  /\ MAXLOOP \in Nat

(* Register number 0 is none of them; color = 0 stands for no register.    *)
NoRegisterZero == \A p \in Perm : permregs[p] # 0

VARIABLES
  phase,     \* "alloc", "rewrite", "perms", "done" or "comperr"
  loc,       \* how the program names a variable: "temp", in memory, or "wild"
  nsavregs,  \* the callee-saved registers that go on the stack
  spilled,   \* spilledNodes
  longsp,    \* the static longsp, which outlives the round and the function
  beenhere,  \* rounds lost to short-lived nodes
  color,     \* r_color of the temporaries standing for callee-saved registers
  used,      \* history: the registers the body may write
  i,         \* the callee-saved register at hand
  entry,     \* the moves <<to, from>> put at the start of the function
  exit       \* and at its end

vars == <<phase, loc, nsavregs, spilled, longsp, beenhere, color, used, i,
          entry, exit>>

InRegister == {v \in Var : loc[v] = "temp"}
Unsaved == Perm \ nsavregs

Init ==
  /\ phase = "alloc"
  /\ loc = [v \in Var |-> "temp"]
  /\ nsavregs = {}
  /\ spilled = {}
  /\ longsp \in {None, Old} \cup Perm \cup Var
  /\ beenhere = 0
  /\ color = [p \in Perm |-> 0]
  /\ used = {}
  /\ i = 1
  /\ entry = <<>>
  /\ exit = <<>>

-----------------------------------------------------------------------------
(* Build to AssignColors.  Either some nodes found no register ...         *)
Spill ==
  /\ phase = "alloc"
  /\ \E S \in SUBSET (Unsaved \cup InRegister \cup Stmt) \ {{}} : spilled' = S
  /\ phase' = "rewrite"
  /\ UNCHANGED <<loc, nsavregs, longsp, beenhere, color, used, i, entry, exit>>

(* ... or all did.  The callee-saved temporaries are live throughout: no   *)
(* two get one register, and the body writes none of theirs.  memset left  *)
(* a 0 in the colour of those that are saved on the stack.                 *)
Colored ==
  /\ phase = "alloc"
  /\ \E c \in [Unsaved -> Reg] :
       /\ \A p, q \in Unsaved : c[p] = c[q] => p = q
       /\ color' = [p \in Perm |-> IF p \in Unsaved THEN c[p] ELSE 0]
       /\ used' = Reg \ {c[p] : p \in Unsaved}
  /\ phase' = "perms"
  /\ UNCHANGED <<loc, nsavregs, spilled, longsp, beenhere, i, entry, exit>>

-----------------------------------------------------------------------------
(* longtemp rewrites the uses of a variable by its REGW: class 0 asks for  *)
(* a place in the frame, any other class is taken as the base register of  *)
(* the place the variable already has.                                     *)
longtemp(r_class) == CASE r_class = "0" -> "frame"
                       [] r_class = "argreg" -> "arg"
                       [] r_class = "class" -> "wild"

leafrewrite(V, r_class) ==
  [v \in Var |-> IF v \in V /\ loc[v] = "temp" THEN longtemp(r_class[v]) ELSE loc[v]]

(* The classes RewriteProgram gives the variables: 0, or what temparg finds. *)
temparg == [v \in Var |-> IF xtemps /\ v \in StackArg THEN "argreg" ELSE "0"]

(* Those they have while their registers are allocated. *)
allocated == [v \in Var |-> "class"]

(* Variant: the callee-saved registers that were spilled are not marked. *)
ONLYPERMForget ==
  /\ phase = "rewrite"
  /\ spilled \cap (Perm \cup Var) # {}
  /\ UNCHANGED nsavregs
  /\ loc' = leafrewrite(spilled \cap Var, temparg)
  /\ spilled' = {}
  /\ phase' = "alloc"
  /\ UNCHANGED <<longsp, beenhere, color, used, i, entry, exit>>

(* RewriteProgram, when callee-saved registers or variables are spilled:   *)
(* the short-lived nodes get another chance.                               *)
ONLYPERM ==
  /\ phase = "rewrite"
  /\ spilled \cap (Perm \cup Var) # {}
  /\ nsavregs' = nsavregs \cup (spilled \cap Perm)
  /\ loc' = leafrewrite(spilled \cap Var, temparg)
  /\ spilled' = {}
  /\ phase' = "alloc"
  /\ UNCHANGED <<longsp, beenhere, color, used, i, entry, exit>>

(* treerewrite, when only short-lived nodes are.  For each of them         *)
(* shorttemp stores a part of its statement, or points longsp at a         *)
(* long-lived node in its way; the last such pointer wins.  Stored is      *)
(* then moved to memory.                                                   *)
Stored(l) ==
  /\ nsavregs' = IF l \in Perm THEN nsavregs \cup {l} ELSE nsavregs
  /\ loc' = leafrewrite({l}, allocated)

SMALL ==
  /\ phase = "rewrite"
  /\ spilled \subseteq Stmt
  /\ \E l \in {longsp} \cup Unsaved \cup InRegister :
       /\ Stored(l)
       /\ longsp' = IF xssa /\ l # None THEN Old ELSE l
  /\ phase' = IF beenhere = MAXLOOP THEN "comperr" ELSE "alloc"
  /\ beenhere' = beenhere + 1
  /\ spilled' = {}
  /\ UNCHANGED <<color, used, i, entry, exit>>

(* comperr("cannot spill TOP node!") of shorttemp. *)
TopNode ==
  /\ phase = "rewrite"
  /\ spilled \subseteq Stmt
  /\ phase' = "comperr"
  /\ UNCHANGED <<loc, nsavregs, spilled, longsp, beenhere, color, used, i,
                 entry, exit>>

-----------------------------------------------------------------------------
(* The end of ngenregs, one callee-saved register at a time.               *)

(* The other temporary that got this register. *)
Taker == {j \in i + 1 .. NPerm : color[j] = permregs[i]}

First(J) == CHOOSE j \in J : \A k \in J : j <= k

AtPerm == phase = "perms" /\ i <= NPerm

InPlace ==
  /\ AtPerm
  /\ i \in nsavregs \/ color[i] = permregs[i]
  /\ i' = i + 1
  /\ UNCHANGED <<phase, loc, nsavregs, spilled, longsp, beenhere, color, used,
                 entry, exit>>

(* Variant: the registers are not exchanged. *)
SwapNot ==
  /\ AtPerm
  /\ i \notin nsavregs
  /\ color[i] # permregs[i]
  /\ Taker # {}
  /\ entry' = <<<<color[i], permregs[i]>>>> \o entry
  /\ exit' = Append(exit, <<permregs[i], color[i]>>)
  /\ i' = i + 1
  /\ UNCHANGED <<phase, loc, nsavregs, spilled, longsp, beenhere, color, used>>

Swap ==
  /\ AtPerm
  /\ i \notin nsavregs
  /\ color[i] # permregs[i]
  /\ Taker # {}
  /\ color' = [color EXCEPT ![First(Taker)] = color[i]]
  /\ i' = i + 1
  /\ UNCHANGED <<phase, loc, nsavregs, spilled, longsp, beenhere, used, entry,
                 exit>>

(* The save goes to the front of the function, the restore to its end. *)
SaveMove ==
  /\ AtPerm
  /\ i \notin nsavregs
  /\ color[i] # permregs[i]
  /\ Taker = {}
  /\ entry' = <<<<color[i], permregs[i]>>>> \o entry
  /\ exit' = Append(exit, <<permregs[i], color[i]>>)
  /\ i' = i + 1
  /\ UNCHANGED <<phase, loc, nsavregs, spilled, longsp, beenhere, color, used>>

PermsDone ==
  /\ phase = "perms"
  /\ i > NPerm
  /\ phase' = "done"
  /\ UNCHANGED <<loc, nsavregs, spilled, longsp, beenhere, color, used, i,
                 entry, exit>>

Ended == phase \in {"done", "comperr"} /\ UNCHANGED vars

Rewrite == ONLYPERM \/ SMALL \/ TopNode

SavePerms == InPlace \/ Swap \/ SaveMove \/ PermsDone

Next == Spill \/ Colored \/ Rewrite \/ SavePerms \/ Ended

Spec == Init /\ [][Next]_vars

(* ngenregs is one loop of one thread. *)
FairSpec == Spec /\ WF_vars(Next)

-----------------------------------------------------------------------------
(* The function as it runs: a register holds the register whose value it   *)
(* had at the call, or nothing the caller knows.                           *)
Junk == -1

AfterMoves(R, mv) ==
  LET f[k \in 0 .. Len(mv)] ==
        IF k = 0 THEN R ELSE [f[k - 1] EXCEPT ![mv[k][1]] = f[k - 1][mv[k][2]]]
  IN f[Len(mv)]

(* The prologue and the epilogue of the target save what p_regs names. *)
AtReturn ==
  LET start == AfterMoves([r \in Reg |-> r], entry)
      body  == [r \in Reg |-> IF r \in used THEN Junk ELSE start[r]]
      end   == AfterMoves(body, exit)
  IN [r \in Reg |-> IF \E p \in nsavregs : permregs[p] = r THEN r ELSE end[r]]

-----------------------------------------------------------------------------
(* Properties.                                                             *)

(* The code of the function returns with every callee-saved register as it *)
(* found it, wherever colouring put the temporary that stands for it and   *)
(* whatever the exchanges and the order of the moves ("If the entry is 0   *)
(* but the resulting color differs from the corresponding permregs index,  *)
(* add moves").                                                            *)
PermsRestored ==
  phase = "done" => \A p \in Perm : AtReturn[permregs[p]] = permregs[p]

(* What is left to lose: each round that colours again has taken a node    *)
(* out of the registers for good, or one of the MAXLOOP attempts.          *)
Left == Cardinality(Unsaved) + Cardinality(InRegister) + (MAXLOOP - beenhere)

RoundsShrink ==
  [][phase = "rewrite" /\ phase' = "alloc" => Left' < Left]_vars

(* ngenregs ends, with code or with comperr.                               *)
Termination == <>(phase \in {"done", "comperr"})

(* longtemp, "Store all spilled nodes in memory by fetching a temporary on *)
(* the stack": a variable taken out of the registers is in the frame or    *)
(* where it arrived as an argument.                                        *)
SpilledOnStack == \A v \in Var : loc[v] \in {"temp", "frame", "arg"}

=============================================================================
