# TLA+ models of PCC, the Portable C Compiler

This directory holds TLA+ specifications of parts of the compiler in
`src/pcc`, the TLC configurations that check them on small instances, and
TLAPS proofs of their main properties for every instance.  `PROJECT.json` is the
index: components, runs, the mutation each property is tested with, the source lines every
definition stands for, findings, hazards and theorems.  Paths below
are relative to `src/pcc`.

## 1. Inventory of the system

`cc` runs a pipeline of programs, each a single sequential process:

    cc/cc (driver) -> cc/cpp -> cc/ccom [parser, pass 1 | mip, pass 2] -> as -> ld

There are no threads.  The only concurrency is between the driver, the pass it
is running and the signals that may reach either.  What makes the code
hard to test is elsewhere: long sequences of updates to linked structures that must stay
consistent (register allocator, conditionals, scopes), state that outlives the step, round
or function it was made for, and failures between two steps of the driver.

| Component | Code | State it keeps | Operations | What makes it correct | Module |
|---|---|---|---|---|---|
| Register allocator, one round | `mip/regs.c`, tables from `mip/mkext.c` | `REGW` nodes with adjacency lists, class counts, move lists; ten worklists; the select stack; colours | `AddEdge`, `moveadd`, `MkWorklist`, `Coalassign`, `Simplify`, `Coalesce`/`Combine`, `Freeze`, `SelectSpill`, `AssignColors` | nodes live together never share storage; counts and worklists stay exact; the loop ends; nothing spills needlessly | `RegAlloc` |
| Spill rounds, callee-saved registers | `mip/regs.c` `ngenregs`, `RewriteProgram` ... | where every variable lives, `nsavregs`, `longsp`, attempts | rewrite and colour again; exchange, save and restore the callee-saved registers | callee-saved registers survive the call; every round makes progress; spilled variables get a place | `SpillLoop` |
| Liveness | `mip/regs.c` `LivenessAnalysis`, `Build` | bit sets gen, killed, in, out, live | fixpoint over the flow graph, walk back through each block | in/out are the least solution; only dead assignments go; every two values live together get an edge | `Liveness` |
| Conditional inclusion | `cc/cpp/token.c`, `cc/cpp/cpp.c` | `trulvl`, `flslvl`, `elflvl`, `elslvl`, `otrulvl` of each open file | `#if #ifdef #ifndef #elif #else #endif #include`, end of file | the counters do what a stack would | `CppCond` |
| Macro expansion | `cc/cpp/cpp.c`, `cc/cpp/token.c` | symbol table, buffers, block lists | `kfind`, `submac`, `exparg`, `subarg`, `readargs`, `loopover`; `fastscan` and `yylex` that call them | what the standard's hide sets give; expansion terminates | `Macro` |
| Driver | `cc/cc/cc.c` | list of inputs, `temp_outputs`, `middle_linker_flags`, current file and suffix | cpp, cc, as, ld passes; exit; signals | exit 0 means the outputs are right; temporary files are removed | `Driver` |
| Control-flow optimiser | `mip/optim2.c` | statement list, reference counts of labels; basic blocks, CFG, dominators, phi lists | `deljumps`; `cfg_build`, `dominators`, `computeDF`; phi placement, `renamevar`, `removephi` | statements run in the order of the program, labels stay as long as they are used; dominators and frontiers right; every read gets its value | `DelJumps`, `Dominators`, `Ssa` |
| Instruction selection | `mip/match.c`, `reader.c` | tree annotations | match, order, emit | depends on 18 target tables | not modelled |
| Symbol tables | `cc/ccom/symtabs.c` | Patricia tree per name space, scope lists | `lookup`, `hide`, `symclear` | acts as a map with scopes | planned |
| Declarations, layout | `cc/ccom/pftn.c` | declaration stack, offsets | `defid`, `soumemb`, `upoff`, `oalloc`, `falloc`, labels | members do not overlap and are aligned | planned |
| Initialisers | `cc/ccom/init.c` | element stack, bit-field accumulator | `scalinit`, braces, designators | every byte written once, in order | planned |
| Inline functions | `cc/ccom/inline.c`, `pftn.c`, `cgram.y` | list of saved functions with their flags and references | declare, define, call, take the address, end of a function, `inline_prtout` | every referenced one written, once | `Inline` |
| Parser, expression trees | `cc/ccom/cgram.y`, `trees.c`, `optim.c` | trees | type rules | language semantics | not modelled |
| Others | `common`, `cc2`, `f77`, `cc/cxxcom`, `cc/driver`, `arch`, `os`, `pcc-libs` | - | - | - | see `PROJECT.json` |

Interaction: the driver hands files from pass to pass by name and learns only
their exit status.  Inside ccom, pass 1 hands pass 2 a list of `interpass`
records per function; pass 2 builds the flow graph (`optim2.c`), matches trees
(`match.c`), and `ngenregs` colours, rewriting the list and starting again
until everything has a register.  Targets enter through `RSTATUS`, `ROVERLAP`,
`COLORMAP` and the instruction table, from which `mkext` generates C tables.

Behaviours that are hard, and where: signals and child death (driver); a
failing pass (driver); order of the select stack, degrees across classes,
moves that are retried (allocator); state surviving a round (`longsp`, registers' `r_moveList`,
`nsavregs`, colours cleared by `memset`); an analysis started again after
the program has changed under it (liveness); nesting (conditionals); the same list relinked while it is walked
(`deljumps`, `inline_prtout`); text that is scanned again (macros).  The list
with source lines is under `hazards` in `PROJECT.json`.

## 2. The modules

### RegAlloc (MCRegAlloc, MCRegAllocNova, RegAllocProofs)

One round from the empty graph to the colours.  In the `build` phase `AddEdge` and
`moveadd` are called with arbitrary nodes, because what Build finds live together depends on
the program being compiled; then each function of the source is one
action (`Simplify`, `Freeze`, `SelectSpill`, `AssignColor`, and `Coalesce` as its four branches),
guarded by the order in which `ngenregs` looks at the lists.  `Combine` is a
single operator with everything it calls: `EnableMoves`, `AddEdge`,
`DecrementDegree` and `AddWorkList`.

Correspondence: `onlist` is `r_onlist`, `queue` the list a `REGM` is on
(`wlist` = `worklistMoves`, `active` = `activeMoves`), `ncl` is `r_nclass`, `adj` is `r_adjList`, `alias` is
`GetAlias` (the chain is kept resolved).  Lists are sets: where the code takes
the first element the model takes any, so every order of the lists is covered.
`selectStack` keeps its order in `pos`.  `graph` and `chosen` are history variables:
the edges Build made and the nodes SelectSpill picked.  Left out: which
edges Build makes, `xssa`'s disabled code, and SelectSpill's tie-breaking by
cost within a kind of candidate.

### SpillLoop (MCSpillLoop, SpillLoopProofs)

`ngenregs` around that round.  A round ends either with any set of nodes spilled, or with any
injective choice of registers for the callee-saved temporaries that are
still uncoloured by `nsavregs` (they are live throughout, so pairwise distinct, which is `ProperColoring`
of RegAlloc).  `ONLYPERM` and `SMALL` are the two branches of `RewriteProgram`; `SMALL`
includes `treerewrite`'s use of the static `longsp`.
`InPlace`, `Swap`, `SaveMove` are the loop at the end, one register per step.
`AtReturn` executes the moves, the body and the restores of the epilogue.

### Liveness (MCLiveness, LivenessProofs)

`Build` of `mip/regs.c`, which decides the edges `RegAlloc` starts from: `LivenessAnalysis` (gen and killed of
every block by `unionize`, and the callee-saved temporaries live at the end), one `Sweep` action per block from the last to the
first, `SweepEnd` (`do ... while (again)`), `dce` statement by statement with its four ways to
go on after a removal, the restart at `livagain`, and `insnwalk` per block.  The program is any assignment of `Bodies` and `Jumps` to
the blocks that `bblocks_build` can produce (`Init`): a block starts at a label or after
a jump, and labels are those jumped to, the one before the first statement and the epilogue.
A statement is the variable it assigns, those it reads and whether it has a side effect (then `dce` strips the assignment
and leaves the rest).  `Sheltered` restricts the programs to those where the only unlabelled block without a jump
of its own is the branch of an if, whose disappearance changes nothing;
without it `OnlyDeadRemoved` fails (see the findings).  Left out: asm constraints, computed gotos, the short-lived nodes and moves.

### CppCond, refining CondGroups (CondDefs, CppCondProofs)

`CppCond` has the counters and the source's tests; its `groups` variable is the
text being read, which no condition of the code looks at.  `CondGroups` is the abstract
specification: a stack of groups and a stack of files.  The refinement mapping
is `files <- saved, shown <- (flslvl = 0)`, `groups` as is.  `WellFormed` restricts texts
to those where `#else` is the last branch of its group; for others the code does not match the standard
(see findings).  The end-of-file check in both compares depths only: an
included file that closes one of its includer's groups and opens another is accepted by
the code, and by `CondGroups`.

### Driver (DriverProofs)

`main`'s loop as a process (`pc` "next", "append", "fork", "wait", "exited"), the pass it forked as another
(`child`), and `idexit` for SIGINT/SIGTERM at any moment, reaching the driver alone or the pass too.
`gettmp` and `strlist_append` are two steps, since a signal may come
between them.  The passes are external programs: they open (truncate) their
output, and then finish or fail.  The content of a file is the number of the input it stems from.
Mode `E` writes to standard output or the -o file, `S` implies `-c` for files that are assembled, as in the code.
Left out: -M, cc2, -###, Win32.

### DelJumps (DelJumpsProofs)

`deljumps` of `mip/optim2.c` from `refcount` to the end: `iterate`'s loop as one action per statement it looks at, with
threading (`JBR` to a `JBR`), inverted branches over a jump, dead code, unused labels and `codemove` as operators over the list.
A node is named by its place in the program, so `SameFlow` can compare: from every statement that is left, control
comes next to the statement it would have come to in the program, for either outcome of each branch.  `RefsExact` relates
the counts to the jumps in the list while they are being changed.  `iterate` goes on behind the node `codemove` returns, the first of
the moved piece; that may be a label `decref` has just taken off the list, whose `forw` still leads into it, so `p'` is the
second of them, or the third if the second was that label.

### Dominators and Ssa (SsaProofs)

`Dominators`: `cfg_build`, `cfg_dfs`, `dominators` (Lengauer and Tarjan, with `ancestorwithlowestsemi` walking up the ancestors and
the deferred loop) and `computeDF`, over every graph of gotos, computed gotos and conditional branches `bblocks_build` can make of a
function (`Graph`: what follows a block that just ends has a label, and `deljumps` has removed jumps to the next statement).
A computed goto has every label in `ip_labels` as child, in that order and as often as it stands there; `ip_labels` is any list of
at most `MaxTaken` labels, the return label, which no program can name, excepted.  `Ssa` EXTENDS it with one variable's way: liveness, `placePhiFunctions`,
`renamevar` as its calls and returns, and `removephi` block by block; the blocks between the first and the last read the variable, assign it, do both
or neither (`Body`), the first may assign it (an argument), the last may read it.  `removephi` treats a computed goto as it treats
any goto: the copies for each block it may go to stand in front of it, in the order of the blocks (`JumpCopies`), and all of
them are made whichever way is taken (`AfterJump`).  Then the program is run from the first block to the last
(`Run`), with every outcome of every branch, and `holds` is the set of versions that have the value the variable had in the source program.
`ReadsRight` says that a read names one of them.  One variable is enough: phi functions, stacks and
copies of a variable name versions of that variable only (this answers the question of copies in a cycle, which for several
variables in one block cannot arise).  `BranchOn` lets a conditional branch go to the block behind it; the run `ssa` leaves those out, since the code is
wrong for them (finding 1).  Assumption: `removephi` reads `labinfo` past its end for a label it has just made; the
model takes what it finds there to be another block's entry.

### Inline (InlineProofs)

The inline functions of one file: declarations and definitions of them with the storage classes in any order (`Declare`,
`DefineInline`, `DefinePlain`, with `defid2`'s merge of the classes and the words), the calls and addresses in a body
(`Say`, `Call`: `inlinetree` copies or refers), `ftnend`, and `inline_prtout` one element a step.
`written`, `needs` and `copiedframe` are history variables.  `NothingDangling` speaks of the moments when a function has been compiled,
`WrittenOnce` of all.  `Redefined` (GNU dialect), `Unannounced` and `Frames` admit the files for which the code goes wrong (see the findings).

### Macro (MCMacro)

`kfind` and the functions under it as mutually recursive operators named as in the code, which
return what the code leaves in its buffers (`Result`); `fastscan` (`Expand`, `Copy`) and `yylex` as the actions that call them.  Text is a
sequence of words; a token carries the names it is blocked for, `BLKID` and the list it stands for.
`StdExpand` is the standard's algorithm with hide sets, written independently; `ExpandsAsStd` compares what was written, and
the errors.  The two agree on `Tame` texts and definitions: a parenthesis stands only behind a name that can be called with it (a
function-like macro, a parameter, or words joined by `##`), and no argument or replacement list is empty or starts with a parenthesis.
`MacroAssumption` states that every definition and every text of an instance is tame, so nothing is left out silently; what happens outside is
described under the findings.  `#`, `__VA_ARGS__`, `defined`
and the predefined names are left out.

## 3. Runs

| Run | Instance | Shows |
|---|---|---|
| `regalloc` | 4 temporaries (2 long, 2 short), 2 registers, one class; up to 4 edges, 2 moves, register 0 in the initial graph; symmetry | proper colouring, worklists, moves decided, stack order, every step an advance |
| `regalloc_nova` | Nova: A0-A2 and the pair LC0 overlapping two; a callee-saved, two short ones, a pair node; up to 3 edges, 1 move; fair | exact degrees, proper colours across classes, no needless spill, the worklist loop ends |
| `cppcond` | depth 5, includes 2 | counters implement the stack |
| `driver` | 3 inputs x 5 suffixes x 4 modes, -X, -o, failures, signals | cleanup, honest exit, complete inputs |
| `liveness` | 4 blocks, 6 bodies of up to 2 statements over 2 variables, 6 jumps; fair | sweeps find liveness, dce is safe, edges complete, Build ends and each step is nearer to it |
| `spill_loop` | 3 callee-saved + 2 scratch registers, 2 variables (one a stack argument), 1 statement, 2 attempts | callee-saved registers restored, progress, termination |
| `deljumps` | 6 statements, 3 labels, one of them in use by a computed goto; fair | same flow, exact reference counts, the end |
| `ssa` | 5 blocks, any gotos, branches but one to the next block, and computed gotos, `&&` on up to 2 labels; 4 kinds of inner block (no use, read, assignment, both), 2 (no use, both) where computed gotos have labels | dominators, frontiers, right values read, also where copies are made for all targets of a jump |
| `ssa_branch_on` | the same with those branches, without labels for computed gotos | finding: an argument of a phi function is lost |
| `inline` | 2 functions, 4 declarations or definitions, 2 calls or addresses, both dialects; fair | written once, nothing dangling, `inline_prtout` ends and each step is nearer to it |
| `macro` | 1470 sets of three macros, 6 texts, in text and in an `#if` | expansion as the standard has it, no call left |
| `macro_if` | `#if` only, names that lead back to themselves | finding: expansion without end |

Bounds.  `MaxEdges`/`MaxMoves`/`Touched` bound the initial graph only, not what coalescing adds.
Four edges on four nodes and a register include a node with more
neighbours than there are registers (so SelectSpill runs), triangles (so a
colour is missing), moves between constrained and unconstrained nodes and a
coalesced node whose alias is coalesced again.  Three registers make every kind
of permutation of callee-saved registers (cycles of two and three, and chains through
a scratch register).  Four blocks make nested and overlapping loops, a branch into a loop,
a branch of an if that vanishes and unreachable blocks; two sweeps are needed in loops, and two rounds of `dce`
when `x = v` goes and makes `v` dead.  Depth 5 lets a skipped group hold two further
levels inside two processed ones.  Three inputs let a file precede and follow the one that
fails.  `MAXLOOP` is 20 in the code, 2 here.
Six statements let a jump lead over a jump, into a circle of jumps, and a piece of code with its label be moved and then meet a
label that became unused.  Five blocks are the least with an irreducible loop whose entry is reached by two ways,
an unreachable parent, and phi functions that need each other; two labels let a computed goto
go to two blocks with phi functions, to one block twice, or back to itself.  Lists of labels are tried only in functions with a computed goto, which alone
uses them, and there inner blocks are of two kinds only (`InnerTaken`), to keep the run short; the theorems say the rest.  Two inline functions can refer to each other and be defined in both
orders; four items are two declarations and two definitions, or three about one of them.  The pieces the macros are made of put a macro name
at the end of an expansion, an argument that is a call, and a call in an argument completed by the text; the texts add calls nested in each other,
a call the text never completes, and arguments that `##` joins to the name of a function-like macro in front of a parenthesis and to the name of an object-like one.  Each property is accompanied by a
mutation of the modelled code that violates it (variants are marked "Variant" in the modules).

Symmetry is used in safety runs only, between temporaries of the same kind and class; no module
orders temporaries (`okColors` picks the least register, and registers are never permuted).

Fairness is `WF_vars(Next)` for RegAlloc, SpillLoop, Liveness and DelJumps: each is one loop of one
thread that always takes its next step.  In Inline it is weak fairness of `inline_prtout` and of `Round` only: once called, it
goes on; nothing obliges a file to continue.  Nothing else assumes fairness.
Deadlock is checked in every run: the states where the program has stopped loop explicitly
(`Finished`, `Stopped`, `Ended`).

## 4. Findings

Two have runs that are expected to fail, on a property that quotes the code's comments or its tests:

1. A conditional branch to the block behind it gives that block the same parent twice; `renamevar` sets the argument of the
   first entry, `removephi` needs that of the second on the way that falls through, and makes no copy: in `x=1; if (c) ; L: x=x+1; goto L;`
   the version that is read was never set (`mip/optim2.c:1484`; run `ssa_branch_on`).
2. The line of an `#if` in which a name stands in its own expansion, `#define foo foo`, is expanded for ever: what `kfind` returns
   has no blocks and is read again (`cc/cpp/token.c:1000`; run `macro_if`).

The others keep a configuration that shows them, to be run by hand with `tlc -config <cfg> <module>`: they ask the question of
a passing run once more, on inputs which that run excludes, and so are not in the index.

| What | Where | Configuration (module), property |
|---|---|---|
| PDP-11 `COLORMAP` calls a pair with two single neighbours colourable; R1 and R3 displace all pairs | `arch/pdp11/local2.c:722` | `MCRegAllocPdp11.cfg` (MCRegAllocNova), `NoSpuriousSpill` |
| A nested `#endif` clears `elslvl`, so a second `#else` goes unnoticed | `cc/cpp/token.c:1313` | `CppCondTwoElse.cfg` (CppCond), `NoSecondElse` |
| A pass killed by a signal counts as success | `cc/cc/cc.c:1603` | `DriverKilled.cfg` (Driver), `HonestExit` |
| A variable stored to save a short-lived node is addressed through its class as if it were a register | `mip/regs.c:2735` | `SpillLoopStored.cfg` (MCSpillLoop), `SpilledOnStack` |
| On sparc64, where %g1 is register 0 and callee-saved, its save can be dropped | `mip/regs.c:3127` | `SpillLoopG1.cfg` (MCSpillLoop), `PermsRestored` |
| `dce` takes a block whose only statement goes off the list but not out of the flow graph; the analysis it starts again computes nothing for it, and assignments read after it are removed | `mip/regs.c:1425` | `LivenessVanish.cfg` (MCLiveness), `OnlyDeadRemoved` |
| What is referred to after the last function of a file is never written: `inline_prtout` is called at the end of a function only; nor is a function defined inline after a declaration without the word | `cc/ccom/inline.c:274`, `pftn.c:619` | `InlineMissing.cfg` (Inline), `NothingMissing` |
| A function that uses its stack frame is to be kept out of line, but `intcopy` clears `CANINL` of the newest element of the list, not of the function it is saving | `cc/ccom/inline.c:147` | `InlineFrame.cfg` (Inline), `NoStackRefs` |

Seen in the model without a configuration of their own:

- GNU dialect: an `extern inline` function that is defined again after its address was taken is written twice (`Redefined = TRUE`, `WrittenOnce`).
- `loopover` scans what was expanded once more without the blocks of its calls, so outside `Tame` expansion differs from the standard
  both ways.  With `#define E (2)` and `#define X f E`, `X` calls a function-like `f` although no parenthesis followed its name.
  With `#define id(x) x`, `#define f(a) a h`, `#define h(a) a` and `#define X id(f)(1)`, `X(2)` gives `1 h(2)`, where
  the standard gives `1 2`.  With `#define g(a) f`, `#define f(a) x` and `#define x g(1)(1)`, `x` gives `f(1)`, not `x`.
- `exandrm` is never reached, since `strlist_exec` exits by itself, so a failing pass leaves its half-written output (`cc/cc/cc.c:1605`).

## 5. Proofs

| Theorem | Statement | Argument |
|---|---|---|
| `TypeCorrect` (RegAllocProofs) | `Spec => []TypeOK` | `TypeOK` is inductive: lemmas on each helper (`AdjWith`, `NclWith`, `Decremented`, `EnableMoves`, `Relisted`, `AddWorkList`), then one lemma per action.  It includes that no temporary is its own neighbour, which for `Combine` rests on `S` leaving out `u`. |
| `NeighboursApart` (RegAllocProofs) | `Spec => []ProperColoring` | invariant `AInv`.  Its heart is `Edges`: the nodes that now stand for the two ends of an edge of the initial graph are `Apart`.  Two nodes still in the graph know each other by name (`Meets`, and `Symmetric`, without which `Combine` could add an edge on one side only); of two pushed nodes the one pushed first, which is coloured last, finds the other through a neighbour that was coalesced into it; for a machine register it is enough that none of the node's class conflicts with it (`aliasmap` empty).  `TakesOver` shows that `Combine(u, v)` makes `v`'s edges `u`'s; `ColourFits` that a colour of `okColors` is free of conflict with all of them.  That neither end of a move `Coalesce` picks is on the stack follows from `MovesKnown` and `Unmoved`. |
| `MovesDecided` (RegAllocProofs) | `Spec => []EveryMoveDecided` | `AInv` again: a live move is known to both its ends (`MovesKnown`), nodes on the stack have none (`Unmoved`), and a deferred move is never between two registers (`Deferred`), since `Combine` enables the moves of the node that goes. |
| `LastPushedFirst` (RegAllocProofs) | `Spec => StackIsLIFO` | while the graph is worked on a node is on the stack exactly if it has a position (`Stacked`), and positions are given once. |
| `LoopNeverCircles` (RegAllocProofs) | `Spec => LoopAdvances` | from `AInv`: a node that is simplified or coalesced leaves the graph, so whatever `EnableMoves` brings back is paid for (`SimplifyAdvances`, `CombineAdvances`); otherwise `Coalesce` takes the move it tried off the pending ones (`OneLessPending`), and `SelectSpill` or `Freeze` takes a node off its list while no move is pending, and puts none there (`FreezeAdvances`). |
| `CountsExact` (RegAllocProofs) | `Spec => []DegreeInvariant` | `Counts`: `r_nclass` is the number of neighbours of each class that are left in the graph.  `Simplify` and `Combine` count down exactly the nodes that lose a neighbour, since neighbours know each other (`Symmetric`); in `Combine` a common neighbour of `u` and `v` loses one, any other has `v` replaced by `u` of the same class. |
| `WorklistsRight` (RegAllocProofs) | `Monotone => (Spec => []WorklistInvariant)` | `Worklists`: besides the two lists (`Sorted`), that a move is only in the lists of its ends and of coalesced nodes (`MovesOwned`): so when `FreezeMoves` or `Coalesce` settles a move, no node but its two ends can have lost its last one.  `Monotone` is needed because `DecrementDegree` moves every node whose colourability changes off `spillWorklist`, whichever way it changed (`CrossedEases`). |
| `SpillsAreChosen` (RegAllocProofs) | `Monotone /\ Honest => (Spec => []NoSpuriousSpill)` | `Roomy`: a pushed node that `SelectSpill` did not pick was trivially colourable with counts that bound, class by class, the nodes that get a colour before it (`Space`).  That holds when it is pushed because the node its coalesced neighbours stand for is a neighbour itself (`Seen`), and stays because coalescing afterwards only replaces one such node by another (`CombineLater`).  When it is popped `Honest` leaves it a register (`ColourLeft`). |
| `CountersCorrect` (CppCondProofs) | `WellFormed => (Spec => [](TypeOK /\ CountersMatchGroups))` | the conjunction is inductive; `Levels`, `ElifMark` and `ElseMark` are needed together: `elifcommon` and `elsestmt` choose by `elflvl`, whose meaning `ElifMark` gives in terms of the groups; `ElseMark` shows that `error("too many #else")` is not raised on a legal text. |
| `CountersImplementStd` (CppCondProofs) | `WellFormed => (Spec => Std!Spec)` | under the same invariant every step is a step of `CondGroups` or leaves it alone. |
| `CleanExit` (DriverProofs) | `Spec => []NoTempLeft` | invariant `DInv`: at most three temporary files per input (`FewTemps`), every one but the newest is in `temp_outputs` (`Remembered`), a pass runs only while the driver waits or has gone (`OneChild`), and after exit what is left is the current file (`Left`).  `NoTempLeft` alone says nothing before exit, hence the strengthening. |
| `ExitIsHonest` (DriverProofs) | `~Killed => (Spec => []HonestExit)` | invariant `OInv` on top of `DInv`: where the running pass puts what it makes (`Output`), that this is nothing another pass still has to read (`Private`, `Safe`), that the current input and every object for the linker hold the number of their input (`Input`, `Objects`), and that what was made for earlier inputs stays (`Delivered`).  `HonestExit` speaks of the end only, and a file made early is kept by all later passes. `~Killed` is needed: the driver takes a killed pass for a success (section 4). |
| `ReadsFinished` (DriverProofs) | `~Killed => (Spec => []InputsComplete)` | follows from `Input` and `Objects` of `OInv`. |
| `Progress` (SpillLoopProofs) | `Spec => RoundsShrink` | `SpillInv` (spilled nodes are ones still in registers, attempts within `MAXLOOP + 1`), and finite-set lemmas on how `ONLYPERM` and `SMALL` shrink what is left. |
| `RegistersSurvive` (SpillLoopProofs) | `NoRegisterZero => (Spec => []PermsRestored)` | `PermInv`: each callee-saved register has one place in the list of moves or a slot, and what the loop at the end has settled so far restores it (`SettledRestores`).  `AfterMoves` is a recursive function over the list; `Trace` says what it satisfies, and by induction there is one such function.  The exit list undoes the entry list because the registers moved to are distinct and none is moved from later. `NoRegisterZero` is needed: see sparc64 in section 4. |
| `TypeCorrect`, `NothingLeftOut` (InlineProofs) | `Spec => []TypeOK`; `~Unannounced => (Spec => []NothingDangling)` | Invariant: a body is open only for a function on the list (`BodyOpen`, `Filed`); a function's words never claim more than was declared (`Declared`); what is still `Due` to be written is `InHand` of `inline_prtout`, which runs to the end once called; everything a written function refers to is marked (`NeedsMarked`, `ExternMarked`), the marks outlive a second declaration (`NamesKept`), and at the end of the list nothing marked is left (`NoneLeft`, `Promise`).  `~Unannounced` excludes the files of the finding in section 4. |
| `RoundsAreFew` (InlineProofs) | `Spec => PrtoutAdvances` | `TypeOK`: what is written is marked in the same step, and marks are not taken back while `inline_prtout` runs (`WritingAdvances`); `gotone` is set by nothing else. |
| `TypeCorrect` (CppCondProofs) | `Spec => []TypeOK` | `Depths`: the counters are within the depth of the groups, for every text, not only `WellFormed` ones. |
| `SetsAreLive` (LivenessProofs) | `Sheltered => (Spec => []OutIsLive)` | invariant `LiveInv`.  `Needing(v)`, defined by `NBlocks` rounds of a recursive function, is the least set of blocks closed under the ways to need `v` (`NeedingIsLeast`: each round but the last finds another block).  So the sweeps never put more into a set than is live, because every closed set contains what they put there (`OnlyLive`), and they end with all of it, because what solves the equations is closed (`LiveIsIn`).  `Sheltered` is needed for a block that left the list: its sets are empty, which harms nobody only when the branch before it leads to the same place (`VanishedBlock`). |
| `DeadOnly` (LivenessProofs) | `Sheltered => (Spec => OnlyDeadRemoved)` | `Covered` and `InView`: the sets, computed before the first removal, and `lvar` stay large enough for what is left of the program, since a removal never makes a variable wanted where it was not (`RemovedWanted`, `StrippedWanted`). |
| `AllLinked` (LivenessProofs) | `Sheltered => (Spec => []LiveTogetherLinked)` | `Linked`: the blocks walked so far have all their edges.  When the walk starts nothing was removed since the sweeps, so the sets are those of the program (`Covered` and `LiveIsIn`). |
| `FixedPoint` (LivenessProofs) | `Spec => []Solved` | `FlowInv`: during the sweeps `in` and `out` never hold more than the equations ask for (`Bounds`), so they only grow; as long as this sweep has changed nothing, every block behind it is solved (`SweptSolved`).  After the sweeps only the list of blocks shrinks.  Both parts are needed: without `Bounds` an unchanged `out[b]` could be too large. |
| `BuildNeverCircles` (LivenessProofs) | `Spec => BuildAdvances` | `Typed`, and `FlowInv`: by `Bounds` a sweep only adds to `in` and `out`, so `again` is set only when one of them grew; `fix` is set only by a removal, and dce goes back a block only after one.  No hypothesis on the programs. |
| `ReferencesExact` (DelJumpsProofs) | `Spec => []RefsExact` | `RefInv`: what `Program` asks of the statements (`Shape`), and after `refcount` that list, references and counts are `Exact`, with every label whose address is taken still there.  A label leaves with the last reference to it (`LastReference`, `DropRef`), a jump that is redirected moves one count from a label to another (`Redirect`, `TakeOver`); that `nonlab`, `forw`, `back` and the piece `codemove` takes are what the code thinks they are rests on the list being free of repetitions, with the head first and the epilogue last (`Lists`, `MovedFacts`). |
| `FlowKept` (DelJumpsProofs) | `Spec => []SameFlow` | `FlowInv` on top of `RefInv`.  `Reach` follows jumps and labels for a bounded number of steps; the nodes from which it finds `x` are the least set that holds `x` and is closed under `Follow` (`LeadsLeast`, with `2 * (MaxLen + 2)` steps enough for a list and a circle never arriving).  `Flow` says that what follows each node of the list leads in the program to where the program leads, and that a set closed under the list's `Follow` holds all that does: so an endless circle stays one and nothing new becomes one.  Five kinds of change keep it: `Retarget`, `RemoveLabel`, `RemoveDead`, `ReplaceJump`, `TurnBranch`; each action is one or two of them, in another order than in the code (`LessCommutes`, `DropBoth`). |
| `IdomAlwaysRight` (SsaProofs) | `Spec => []IdomRight` | invariant `DomInv`, one part for each phase.  `DfsSearched`: what `cfg_dfs` leaves is a depth-first tree of the reachable blocks (`DfsTree`: a block's parent lies on the tree's way to the block numbered before it, and an edge to a higher number comes from an ancestor), within the `Rounds` its stack of calls may need: a block is entered once and leaves at most two calls or one for each label in `ip_labels`.  While the blocks are treated from the last to the first, `SemiInv` says: the forest of ancestors holds the blocks behind (`LinkedFrom`), their semi-dominators are those of the definition (`Semis`), every block is in the bucket of its semi-dominator until its parent empties it, and then either its idom is decided or `samedom` has a block with the same idom (`Buckets`).  `IdomIsSemi` and `IdomIsShared` are Lengauer and Tarjan's two facts for that, on ways in a graph of numbers (`WayBounds`, `WayTransitive`); `SameDomNumbers` shows that the second loop, going upwards, only copies what is final. |
| `FrontierAlwaysRight` (SsaProofs) | `Spec => []FrontierRight` | `DfInv`: the tree is that of the immediate dominators and `dfchildren` its children.  A block's frontier is what it owns and what its children pass on (`FrontStep`), because a block it dominates strictly is below one of its children (`TreeChild`); the loop meets children first, since an immediate dominator has a lower number (`FrontiersFound`). |
| `ReadsAlwaysRight` (SsaProofs) | `~BranchOn => (Spec => []ReadsRight)` | invariant `SsaInv` on top of `DomInv`, one part for each phase (`Named`).  `PlacedIs`: the worklist of `placePhiFunctions` is empty after at most `2 * NBlocks` rounds, and what is placed is `Closed`, every live block in the frontier of one that assigns or has a phi function having one.  `Renaming`: a record `V` of the version at the end of each block entered so far agrees with the arrays (`Entered`); each block still to be entered whose parent in the dominator tree has been is called once (`Awaited`); and the stack at that call, after all the pops in between, has the parent's version on top (`Stacks`): without the last part nothing is known when a child is entered after its brother's subtree.  When the calls are used up every reachable block is entered (`RenameEnds`).  `Running`: if the variable is live into the block the program is in, the version that arrives there by `V` holds the value, and as long as the variable was not assigned all versions do (`Held`).  A way to a block without a phi function brings the version of its immediate dominator (`SameVersion`: every block between them in the tree is outside the frontiers, so none gives a new one), a way to one with a phi function has the copy.  In front of a computed goto stand the copies for all its targets (`AfterJumpIs`); they all take the version the block ends
with, so whichever of the new versions is read next holds what that one held, and no copy overwrites it with anything else (`WayHolds`).  `~BranchOn` is needed where `removephi` looks for the entry of a parent: for a parent that is there twice it takes the second entry, which `renamevar` has not filled in. |
| `WrittenAtMostOnce` (InlineProofs) | `~Redefined => (Spec => []WrittenOnce)` | `IInv`: a function that was written and has a body saved is marked `WRITTEN` (`Marked`), and a body is being saved exactly for the function being defined inline (`Saving`).  `Marked` is what keeps `inline_prtout` from a second time; `Saving` is needed since a body that is begun again loses its mark. |

Assumptions on constants are the named `ASSUME`s of the modules (node sets finite and disjoint,
overlap symmetric, permregs injective ...); TLC evaluates them in the runs.  `Monotone` and `Honest` are what the
allocator relies on the target's `COLORMAP` for: that fewer neighbours never make it refuse a node, and that when it accepts
one, a register is left whatever those neighbours get.  They are hypotheses of two theorems and not assumptions of the module, since
the PDP-11's `COLORMAP` is not `Honest`: MCRegAllocNova assumes both for the Nova and the negation for the PDP-11,
whose spurious spill is a finding (section 4), and MCRegAlloc assumes both for its single class.
`NoRegisterZero` says that register 0 is not callee-saved; MCSpillLoop assumes it of the instance of `spill_loop` and its negation of the
instance with sparc64's %g1.  `Sheltered`, `Unannounced` and `BranchOn` are constants that say which programs the model lets in; each
excludes those of one finding, and the runs have the same value as the theorems.

The library's induction theorems have a predicate as parameter, which no prover here can instantiate.  Proofs that need induction
start with `SetInduction`, which is stated over a set and follows from the well-foundedness of `<`, and with `FoldExists` or `RecursionExists`: a
fold and a recursive function over `0 .. N` exist and do what they were defined to.  Each module has these few lemmas for itself.

Model-checked only: liveness (`Termination` in four modules and `PrtoutEnds`: liveness under fairness is outside the proof system's
reach; `LoopAdvances`, `BuildAdvances`, `PrtoutAdvances` and `RoundsShrink` are the part of it that is proved: each step, or each round of spilling,
makes a quantity smaller in an order that, over finite sets, has no endless descent.  For `DelJumps` no such quantity was found: threading
may lead a jump round a circle of jumps); `ExpandsAsStd` and `NothingLeft` (the functions of `Macro` are mutually recursive operators, which the proof system does not read).

## 6. Plan

In this order; done ones are marked.

1. `RegAlloc` with the proofs of all its safety properties - done.
   Next: the theorems' hypotheses on `COLORMAP` checked for the other targets.
2. `CppCond` with refinement proof - done.
3. `Driver` with the proofs of cleanup, of finished inputs and of the exit status - done.
4. `SpillLoop` with the proofs of progress and of the restored registers - done.
5. `Liveness` with the proofs of all its safety properties - done.  Next: the short-lived nodes of a tree, and the moves.
6. `Inline` with the proofs that nothing is written twice and nothing is left dangling - done.
7. `DelJumps` with the proofs of the flow and of the references, `Dominators` with the proofs of the dominator tree and the frontiers,
   `Ssa` with the proof that the renamed program reads the right versions - done.
8. `Macro` - done.  Next: `#` and variadic macros, the evaluator of `#if`.
9. `SymTab`: the Patricia tree and scope lists, refining a map from names to symbols per scope.
10. `Layout`: `oalloc`, `upoff`, `falloc`, against non-overlap and alignment; initialisers.

## 7. Not modelled

Of modelled parts: in the optimiser `simple_cp` and what is only built with `ENABLE_NEW` (`remunreach` is not called); in the allocator the targets
other than the Nova and the PDP-11; in the preprocessor `#`, variadic macros, `defined` and the evaluator of `#if`; `gnu_inline`
and `always_inline`.  Not begun: the symbol tables, declarations and storage layout, initialisers (see the plan).

Parser and type rules, instruction tables and code emission (data per target), debug output,
soft floating point (words too wide for explicit states), the C++ and Fortran front ends,
the unbuilt `cc/driver`, run-time libraries.  Reasons are with each component in `PROJECT.json`.
