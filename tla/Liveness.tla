------------------------------ MODULE Liveness ------------------------------
(***************************************************************************)
(* Live variables as Build of pcc/mip/regs.c finds them: the gen and       *)
(* killed sets of the basic blocks, the sweeps over the blocks until       *)
(* nothing changes, the removal of dead assignments (dce), which starts    *)
(* the analysis again, and the walk that links the variables that are      *)
(* live together.                                                          *)
(*                                                                         *)
(* A statement is abstracted to the variable it assigns, those it reads,   *)
(* and whether it has a side effect.  The short-lived nodes of a tree are  *)
(* left out: they are Temp \ Long of RegAlloc.                             *)
(***************************************************************************)
EXTENDS Integers, Sequences, FiniteSets

CONSTANTS
  NBlocks,    \* basic blocks; the last one is the epilogue
  Var,        \* the long-lived variables
  Perm,       \* temporaries standing for callee-saved registers
  Bodies,     \* bound: the statements a block may hold
  Jumps,      \* bound: the jumps a block may end with
  NoVar,      \* "assigns nothing"
  Sheltered   \* TRUE: only the branch of an if can be a block without label and jump

Block == 1 .. NBlocks
Temp  == Var \cup Perm
Stmt  == [def : Var \cup {NoVar}, use : SUBSET Var, eff : BOOLEAN]
Jump  == [kind : {"fall", "cbranch", "goto"}, to : Block, use : SUBSET Var]

ASSUME LivenessAssumption ==
  /\ NBlocks \in Nat \ {0}
  /\ NoVar \notin Temp
  /\ Bodies \subseteq Seq(Stmt)
  /\ Jumps \subseteq Jump
  /\ Sheltered \in BOOLEAN

VARIABLES
  body,     \* the statements of each block
  jump,     \* how it ends
  bblocks,  \* the blocks on the list p2e->bblocks
  phase,    \* "analyse", "sweep", "dce", "walk" or "done"
  gen, killed, in, out,
  bb,       \* the block at hand
  again,    \* did this sweep change a set?
  pos,      \* dce: the statement of bb at hand, -1 before bb is entered
  lvar,     \* dce: the variables taken to be live there
  fix,      \* dce: was a statement removed?
  edges     \* the pairs AddEdge was called for

program == <<body, jump>>
sets == <<gen, killed, in, out>>
vars == <<body, jump, bblocks, phase, gen, killed, in, out, bb, again, pos,
          lvar, fix, edges>>

-----------------------------------------------------------------------------
(* The flow graph, as bblocks_build and cfg_build make it.                 *)

Targets == {jump[b].to : b \in {c \in Block : jump[c].kind # "fall"}}

(* A block starts at a label or after a jump; of the labels, deljumps      *)
(* leaves the one before the first statement and those jumped to.          *)
Labelled(b) == b \in Targets \cup {1, NBlocks}

child(b) ==
  (IF jump[b].kind # "fall" THEN {jump[b].to} ELSE {})
    \cup (IF jump[b].kind # "goto" /\ b < NBlocks THEN {b + 1} ELSE {})

(* A block that is nothing but statements. *)
Plain(b) == ~ Labelled(b) /\ jump[b].kind = "fall"

Init ==
  /\ body \in [Block -> Bodies]
  /\ jump \in [Block -> Jumps]
  /\ body[NBlocks] = <<>> /\ jump[NBlocks].kind = "fall"
  /\ \A b \in Block :
       /\ jump[b].kind = "fall" => jump[b].to = 1 /\ jump[b].use = {}
       /\ jump[b].kind = "fall" /\ b < NBlocks => Labelled(b + 1)
       /\ Plain(b) => body[b] # <<>>
       /\ Plain(b) /\ Sheltered => jump[b - 1].kind = "cbranch" /\ jump[b - 1].to = b + 1
  /\ bblocks = Block
  /\ phase = "analyse"
  /\ gen = [b \in Block |-> {}]
  /\ killed = [b \in Block |-> {}]
  /\ in = [b \in Block |-> {}]
  /\ out = [b \in Block |-> {}]
  /\ bb = NBlocks
  /\ again = FALSE
  /\ pos = -1
  /\ lvar = {}
  /\ fix = FALSE
  /\ edges = {}

-----------------------------------------------------------------------------
(* What is live after the k-th statement of b when L is live at its end;   *)
(* k = 0 is the start of the block.                                        *)
LiveAt(b, L, k) ==
  LET s == body[b]
      f[n \in 0 .. Len(s)] ==   \* after all but the last n statements
        IF n = 0 THEN L \cup jump[b].use
        ELSE (f[n - 1] \ {s[Len(s) - n + 1].def}) \cup s[Len(s) - n + 1].use
  IN f[Len(s) - k]

Assigned(b) == {body[b][k].def : k \in 1 .. Len(body[b])} \ {NoVar}

(* Variant: a variable that the block reads after assigning it is in gen. *)
unionizeAll(b) ==
  jump[b].use \cup UNION {body[b][k].use : k \in 1 .. Len(body[b])}

(* unionize over the block, from its end. *)
unionize(b) == LiveAt(b, {}, 0)

(* LivenessAnalysis, and the callee-saved registers at the end.  The sets  *)
(* were cleared before; those of a block no longer listed stay empty.      *)
LivenessAnalysis ==
  /\ phase = "analyse"
  /\ gen' = [b \in Block |-> IF b \in bblocks THEN unionize(b) ELSE {}]
  /\ killed' = [b \in Block |-> IF b \in bblocks THEN Assigned(b) ELSE {}]
  /\ in' = gen'
  /\ out' = [b \in Block |-> IF b = NBlocks THEN Perm ELSE {}]
  /\ phase' = "sweep"
  /\ bb' = NBlocks
  /\ again' = FALSE
  /\ UNCHANGED <<program, bblocks, pos, lvar, fix, edges>>

(* One block of a sweep, from the last block to the first. *)
Flow(b) ==
  /\ out' = [out EXCEPT ![b] = @ \cup UNION {in[c] : c \in child(b)}]
  /\ in' = [in EXCEPT ![b] = gen[b] \cup (out'[b] \ killed[b])]

Sweep ==
  /\ phase = "sweep"
  /\ bb > 0
  /\ IF bb \in bblocks
     THEN Flow(bb) /\ again' = (again \/ out' # out \/ in' # in)
     ELSE UNCHANGED <<in, out, again>>
  /\ bb' = bb - 1
  /\ UNCHANGED <<program, bblocks, phase, gen, killed, pos, lvar, fix, edges>>

(* Variant: no second sweep. *)
SweepOnce ==
  /\ phase = "sweep"
  /\ bb = 0
  /\ phase' = "dce" /\ bb' = 1 /\ fix' = FALSE
  /\ again' = FALSE
  /\ UNCHANGED <<program, bblocks, sets, pos, lvar, edges>>

(* Variant: again is not reset. *)
SweepEndForever ==
  /\ phase = "sweep"
  /\ bb = 0
  /\ IF again THEN bb' = NBlocks /\ UNCHANGED <<phase, fix>>
              ELSE phase' = "dce" /\ bb' = 1 /\ fix' = FALSE
  /\ UNCHANGED <<program, bblocks, sets, again, pos, lvar, edges>>

SweepEnd ==
  /\ phase = "sweep"
  /\ bb = 0
  /\ IF again THEN bb' = NBlocks /\ UNCHANGED <<phase, fix>>
              ELSE phase' = "dce" /\ bb' = 1 /\ fix' = FALSE
  /\ again' = FALSE
  /\ UNCHANGED <<program, bblocks, sets, pos, lvar, edges>>

-----------------------------------------------------------------------------
(* dce, from the end of each block to its start.                           *)

NextBlock ==
  /\ bb' = bb + 1
  /\ pos' = -1

dceEnter ==
  /\ phase = "dce"
  /\ bb <= NBlocks
  /\ pos = -1
  /\ IF bb \in bblocks
     THEN /\ lvar' = out[bb] \cup jump[bb].use
          /\ pos' = Len(body[bb])
          /\ UNCHANGED bb
     ELSE NextBlock /\ UNCHANGED lvar
  /\ UNCHANGED <<program, bblocks, phase, sets, again, fix, edges>>

AtStmt == phase = "dce" /\ bb <= NBlocks /\ pos > 0

Here == body[bb][pos]

Dead == Here.def # NoVar /\ Here.def \notin lvar

(* deldead leaves the statement, and takes all it names to be live. *)
dceKeep ==
  /\ AtStmt
  /\ ~ Dead
  /\ lvar' = lvar \cup Here.use \cup ({Here.def} \ {NoVar})
  /\ pos' = pos - 1
  /\ UNCHANGED <<program, bblocks, phase, sets, bb, again, fix, edges>>

(* The assignment goes, the side effect of its right-hand side stays. *)
dceStrip ==
  /\ AtStmt
  /\ Dead
  /\ Here.eff
  /\ body' = [body EXCEPT ![bb][pos].def = NoVar]
  /\ lvar' = lvar \cup Here.use
  /\ pos' = pos - 1
  /\ UNCHANGED <<jump, bblocks, phase, sets, bb, again, fix, edges>>

Without(s, k) == SubSeq(s, 1, k - 1) \o SubSeq(s, k + 1, Len(s))

First == pos = 1 /\ ~ Labelled(bb)
Last  == pos = Len(body[bb]) /\ jump[bb].kind = "fall"

(* The whole statement goes.  Where dce goes on depends on its place: with *)
(* the last statement the block is done again; a block of one statement    *)
(* leaves the list.                                                        *)
dceRemove ==
  /\ AtStmt
  /\ Dead
  /\ ~ Here.eff
  /\ body' = [body EXCEPT ![bb] = Without(@, pos)]
  /\ fix' = TRUE
  /\ bblocks' = IF First /\ Last THEN bblocks \ {bb} ELSE bblocks
  /\ IF First THEN NextBlock /\ UNCHANGED lvar
     ELSE IF Last THEN pos' = -1 /\ UNCHANGED <<bb, lvar>>
     ELSE pos' = pos - 1 /\ lvar' = lvar \cup Here.use /\ UNCHANGED bb
  /\ UNCHANGED <<jump, phase, sets, again, edges>>

dceNext ==
  /\ phase = "dce"
  /\ bb <= NBlocks
  /\ pos = 0
  /\ NextBlock
  /\ UNCHANGED <<program, bblocks, phase, sets, again, lvar, fix, edges>>

(* Something was removed: once more from the start. *)
dceEnd ==
  /\ phase = "dce"
  /\ bb > NBlocks
  /\ phase' = IF fix THEN "analyse" ELSE "walk"
  /\ bb' = 1
  /\ UNCHANGED <<program, bblocks, sets, again, pos, lvar, fix, edges>>

-----------------------------------------------------------------------------
(* insnwalk: the pairs for one statement with L live after it. *)

Pairs(S, L) == {{u, v} : u \in S, v \in L} \ {{u} : u \in S}

(* Variant: what is assigned is not linked with what stays live. *)
addalledgesUses(s, L) == Pairs(s.use, s.use \cup (L \ {s.def}))

addalledges(s, L) ==
  Pairs({s.def} \ {NoVar}, L \ {s.def}) \cup Pairs(s.use, s.use \cup (L \ {s.def}))

insnwalk ==
  /\ phase = "walk"
  /\ bb <= NBlocks
  /\ edges' = edges \cup Pairs(jump[bb].use, jump[bb].use \cup out[bb])
                    \cup (UNION {addalledges(body[bb][k], LiveAt(bb, out[bb], k)) :
                                   k \in 1 .. Len(body[bb])})
                    \cup (IF bb = NBlocks THEN Pairs(Perm, Perm) ELSE {})
  /\ bb' = bb + 1
  /\ UNCHANGED <<program, bblocks, phase, sets, again, pos, lvar, fix>>

BuildDone ==
  /\ phase = "walk"
  /\ bb > NBlocks
  /\ phase' = "done"
  /\ UNCHANGED <<program, bblocks, sets, bb, again, pos, lvar, fix, edges>>

Finished == phase = "done" /\ UNCHANGED vars

dce == dceEnter \/ dceKeep \/ dceStrip \/ dceRemove \/ dceNext \/ dceEnd

Next == LivenessAnalysis \/ Sweep \/ SweepEnd \/ dce \/ insnwalk \/ BuildDone \/ Finished

Spec == Init /\ [][Next]_vars

(* Build is one loop of one thread. *)
FairSpec == Spec /\ WF_vars(Next)

-----------------------------------------------------------------------------
(* Liveness by its definition: a path on which the variable is read before *)
(* it is assigned.                                                         *)

ReadFirst(v, b, k) ==
  \/ \E j \in k + 1 .. Len(body[b]) :
       v \in body[b][j].use /\ \A i \in k + 1 .. j - 1 : body[b][i].def # v
  \/ v \in jump[b].use /\ \A i \in k + 1 .. Len(body[b]) : body[b][i].def # v

Kept(v, b, k) == \A i \in k + 1 .. Len(body[b]) : body[b][i].def # v

(* The blocks at whose start v is live, by paths of at most n + 1 blocks. *)
Needing(v) ==
  LET f[n \in 0 .. NBlocks] ==
        IF n = 0
        THEN {b \in Block : ReadFirst(v, b, 0) \/ (v \in Perm /\ b = NBlocks)}
        ELSE LET nearer == f[n - 1]
             IN nearer \cup {b \in Block : Kept(v, b, 0) /\ child(b) \cap nearer # {}}
  IN f[NBlocks]

LiveAtEnd(v, b) == child(b) \cap Needing(v) # {} \/ (v \in Perm /\ b = NBlocks)

(* v is live after the k-th statement of b. *)
Needed(v, b, k) == ReadFirst(v, b, k) \/ (Kept(v, b, k) /\ LiveAtEnd(v, b))

-----------------------------------------------------------------------------
(* Properties.                                                             *)

(* The sweeps find exactly the live variables of the program as it stands, *)
(* for whatever order of blocks and jumps and after whatever was removed.  *)
OutIsLive ==
  phase = "dce" /\ bb = 1 /\ pos = -1 /\ ~ fix =>
    \A v \in Temp :
      LET needing == Needing(v) IN
      \A b \in bblocks :
        v \in out[b] <=> child(b) \cap needing # {} \/ (v \in Perm /\ b = NBlocks)

(* The last sweep leaves a solution of the flow equations.                 *)
Solved ==
  phase \in {"dce", "walk", "done"} =>
    \A b \in bblocks :
      /\ out[b] = (UNION {in[c] : c \in child(b)}) \cup (IF b = NBlocks THEN Perm ELSE {})
      /\ in[b] = gen[b] \cup (out[b] \ killed[b])

(* dce, "if an assignment is found that writes to a temporary that is not  *)
(* live out, remove that assignment": an assignment goes only if no path   *)
(* reads its variable.                                                     *)
OnlyDeadRemoved ==
  [][body' # body => Here.def # NoVar /\ ~ Needed(Here.def, bb, pos)]_vars

(* Two variables that hold values at the same time are linked, so that     *)
(* AssignColors keeps them apart: where one is assigned, every other that  *)
(* is read later has an edge to it.                                        *)
LiveTogetherLinked ==
  phase = "done" =>
    \A b \in Block : \A k \in 1 .. Len(body[b]) :
      LET d == body[b][k].def IN
      d # NoVar => \A v \in Temp \ {d} : Needed(v, b, k) => {d, v} \in edges

(* Why Build ends.  Every step takes a statement away, or else an          *)
(* assignment, or else goes on to the next of dce after a removal,         *)
(* analysis, sweeps, dce and walk, or else finds a live variable no set    *)
(* had, or else starts the last sweep, or else goes on to the next block   *)
(* or statement; and no step gives back what comes earlier in this list.   *)
Statements  == UNION {{b} \X (1 .. Len(body[b])) : b \in Block}
Assignments == {s \in Statements : body[s[1]][s[2]].def # NoVar}

Stage ==
  CASE phase = "dce" /\ fix   -> 5
    [] phase = "analyse"      -> 4
    [] phase = "sweep"        -> 3
    [] phase = "dce" /\ ~ fix -> 2
    [] phase = "walk"         -> 1
    [] phase = "done"         -> 0

Missing == {x \in {"in", "out"} \X Block \X Temp :
              x[3] \notin IF x[1] = "in" THEN in[x[2]] ELSE out[x[2]]}

BlocksLeft == IF phase = "sweep" THEN bb ELSE NBlocks + 1 - bb
StmtsLeft  == IF pos = -1 /\ bb \in Block THEN Len(body[bb]) + 1 ELSE pos

Shrinks(before, after) == after \subseteq before /\ after # before

BuildAdvances ==
  [][IF body' # body
     THEN \/ Shrinks(Statements, Statements')
          \/ Statements' = Statements /\ Shrinks(Assignments, Assignments')
     ELSE \/ Stage' < Stage
          \/ Stage' = Stage /\ Shrinks(Missing, Missing')
          \/ UNCHANGED <<Stage, in, out>> /\ again /\ ~ again'
          \/ UNCHANGED <<Stage, in, out, again>> /\ BlocksLeft' < BlocksLeft
          \/ UNCHANGED <<Stage, in, out, again, BlocksLeft>> /\ StmtsLeft' < StmtsLeft]_vars

(* Build ends: sweeps and removals do not start one another for ever.      *)
Termination == <>(phase = "done")

=============================================================================
