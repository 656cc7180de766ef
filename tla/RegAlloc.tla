------------------------------ MODULE RegAlloc ------------------------------
(***************************************************************************)
(* One round of the graph-colouring register allocator of pcc/mip/regs.c:  *)
(* the interference graph and the moves that Build collects, MkWorklist,   *)
(* Coalassign, the Simplify / Coalesce / Freeze / SelectSpill loop of      *)
(* ngenregs, and AssignColors.                                             *)
(*                                                                         *)
(* The doubly linked lists of the source are sets here ("any element"      *)
(* stands for "the first one") except selectStack, whose order matters:    *)
(* pos[t] is the moment t was pushed and the top is the greatest pos.      *)
(* alias[n] is what GetAlias(n) returns (the chain is kept resolved).      *)
(***************************************************************************)
EXTENDS Integers, FiniteSets

CONSTANTS
  Temp,           \* the REGW nodes to colour
  Reg,            \* the machine registers, numbered in the order of their colours
  Class,          \* the register classes
  cls,            \* r_class of each node
  Overlap,        \* the pairs of distinct registers that share storage
  Colormap(_, _), \* COLORMAP of the target
  Perm,           \* temporaries standing for the callee-saved registers
  Long,           \* temporaries that live across statements (Perm is among them)
  NotSpill,       \* long-lived temporaries entered by addnotspill
  Leaf,           \* short-lived nodes that are leaves of their tree
  Touched,        \* bound: registers that occur in initial edges and moves
  MaxEdges,       \* bound: edges of the initial graph
  MaxMoves        \* bound: moves of the initial graph

Node == Temp \cup Reg

ASSUME NodesAssumption ==
  /\ IsFiniteSet(Temp)
  /\ IsFiniteSet(Reg)
  /\ Reg \subseteq Nat
  /\ Temp \cap Reg = {}
  /\ cls \in [Node -> Class]

ASSUME KindsAssumption ==
  /\ Perm \subseteq Long
  /\ Long \subseteq Temp
  /\ NotSpill \subseteq Long
  /\ Leaf \subseteq Temp \ Long
  /\ Touched \subseteq Reg

ASSUME OverlapAssumption ==
  /\ Overlap \subseteq Reg \X Reg
  /\ \A r, s \in Reg : <<r, s>> \in Overlap => <<s, r>> \in Overlap

ASSUME ColormapAssumption ==
  \A c \in Class, n \in [Class -> 0 .. Cardinality(Reg)] : Colormap(c, n) \in BOOLEAN

VARIABLES
  phase,     \* where ngenregs is
  graph,     \* history: the edges {u, v} AddEdge made during Build
  adj,       \* r_adjList of each temporary
  ncl,       \* r_nclass of each temporary: neighbours left, by class
  moveList,  \* r_moveList of each node
  queue,     \* queue of each REGM, "none" when there is no such move
  onlist,    \* r_onlist of each node
  alias,     \* GetAlias of each node
  pos,       \* position of a temporary on selectStack
  top,       \* the next position
  color,     \* r_color of each node
  chosen     \* history: the nodes SelectSpill has picked

vars == <<phase, graph, adj, ncl, moveList, queue, onlist, alias, pos, top,
          color, chosen>>

NoReg == -1

(* A REGM: <<src, dst>>.  Coalesce calls comperr on two different classes. *)
Move == {m \in Node \X Node : m[1] # m[2] /\ cls[m[1]] = cls[m[2]]}

Lists == {"initial", "precolored", "simplify", "freeze", "spill", "spilled",
          "coalesced", "colored", "select"}
Queues == {"none", "wlist", "active", "coal", "constr", "frozen"}

(* Nodes the adjacency walks skip: they no longer count as neighbours. *)
Gone == {"select", "coalesced"}

-----------------------------------------------------------------------------
(* Tables that mkext generates from the target's RSTATUS and ROVERLAP.     *)

classmask(c) == {r \in Reg : cls[r] = c}

regK(c) == Cardinality(classmask(c))

interferes(r, s) == r = s \/ <<r, s>> \in Overlap

(* Variant: a register conflicts with itself only. *)
aliasmapSame(c, r) == {s \in classmask(c) : s = r}

(* The registers of class c that a neighbour in register r rules out. *)
aliasmap(c, r) == {s \in classmask(c) : interferes(s, r)}

(* What the allocator relies on COLORMAP for.  Fewer neighbours never make *)
(* it refuse a node,                                                       *)
Degrees == [Class -> 0 .. Cardinality(Reg)]

Monotone ==
  \A c \in Class, m, n \in Degrees :
    (\A k \in Class : m[k] <= n[k]) /\ Colormap(c, n) => Colormap(c, m)

(* and when it accepts one, then whatever registers the neighbours it was  *)
(* told of get, one of the class is left.                                  *)
Honest ==
  \A c \in Class, n \in Degrees, R \in SUBSET Reg :
    Colormap(c, n) /\ (\A k \in Class : Cardinality(R \cap classmask(k)) <= n[k]) =>
      \E s \in classmask(c) : \A r \in R : s \notin aliasmap(c, r)

-----------------------------------------------------------------------------
(* Helpers over the allocator's structures.                                *)

(* Variant: counts capped one below the number of registers. *)
trivially_colorableCapped(t, n) ==
  Colormap(cls[t], [c \in Class |-> IF n[t][c] < regK(c) - 1 THEN n[t][c]
                                                             ELSE regK(c) - 1])

trivially_colorable(t, n) ==
  Colormap(cls[t], [c \in Class |-> IF n[t][c] < regK(c) THEN n[t][c]
                                                         ELSE regK(c)])

LiveMove(q, m) == q[m] \in {"wlist", "active"}

(* Variant: deferred moves are overlooked. *)
MoveRelatedPending(ml, q, n) == \E m \in ml[n] : q[m] = "wlist"

MoveRelated(ml, q, n) == \E m \in ml[n] : LiveMove(q, m)

(* adjSet(u, v) for a temporary v. *)
adjSet(u, v) ==
  IF u \in Reg THEN \E r \in adj[v] \cap Reg : interferes(r, u)
               ELSE u \in adj[v]

(* AddEdge(u, s) for every s in S, none of them linked with u before. *)
AdjWith(u, S) ==
  [x \in Temp |-> IF x = u THEN adj[x] \cup S
                  ELSE IF x \in S THEN adj[x] \cup {u} ELSE adj[x]]

NclWith(u, S) ==
  [x \in Temp |->
    [c \in Class |->
      ncl[x][c] + (IF x = u THEN Cardinality({s \in S : cls[s] = c})
                   ELSE IF x \in S /\ cls[u] = c THEN 1 ELSE 0)]]

(* EnableMoves on each node of N: its deferred moves become pending. *)
EnableMoves(q, ml, N) ==
  [m \in Move |-> IF q[m] = "active" /\ (\E n \in N : m \in ml[n])
                  THEN "wlist" ELSE q[m]]

(* The nodes EnableAdjMoves visits for each node of X. *)
AdjOrSelf(a, o, X) ==
  X \cup UNION {{y \in a[x] : o[y] \notin Gone} : x \in X}

(* DecrementDegree(t, c) for every t in T, in three parts: the counts, the *)
(* nodes whose colourability changed by it, and the lists those move to.   *)

(* Variant: each neighbour is counted down twice. *)
DecrementedTwice(n, T, c) ==
  [x \in Temp |-> IF x \in T /\ n[x][c] > 1
                  THEN [n[x] EXCEPT ![c] = @ - 2] ELSE n[x]]

Decremented(n, T, c) ==
  [x \in Temp |-> IF x \in T /\ n[x][c] > 0
                  THEN [n[x] EXCEPT ![c] = @ - 1] ELSE n[x]]

Crossed(T, n1, n2) ==
  {x \in T : trivially_colorable(x, n1) # trivially_colorable(x, n2)}

(* Variant: without the MoveRelated test. *)
RelistedAnyMove(o, X, ml, q) ==
  [x \in Node |-> IF x \in X THEN "simplify" ELSE o[x]]

Relisted(o, X, ml, q) ==
  [x \in Node |-> IF x \in X
                  THEN IF MoveRelated(ml, q, x) THEN "freeze" ELSE "simplify"
                  ELSE o[x]]

(* Variant: without the MoveRelated test. *)
AddWorkListAnyMove(o, n, ml, q, N) ==
  [x \in Node |-> IF x \in N \cap Temp /\ trivially_colorable(x, n)
                  THEN "simplify" ELSE o[x]]

(* AddWorkList on each node of N. *)
AddWorkList(o, n, ml, q, N) ==
  [x \in Node |-> IF /\ x \in N \cap Temp
                     /\ ~ MoveRelated(ml, q, x)
                     /\ trivially_colorable(x, n)
                  THEN "simplify" ELSE o[x]]

On(list) == {n \in Node : onlist[n] = list}

-----------------------------------------------------------------------------
(* Setup: the REGW and REGM structures as Build leaves them.               *)

Init ==
  /\ phase = "build"
  /\ graph = {}
  /\ adj = [t \in Temp |-> {}]
  /\ ncl = [t \in Temp |-> [c \in Class |-> 0]]
  /\ moveList = [n \in Node |-> {}]
  /\ queue = [m \in Move |-> "none"]
  /\ onlist = [n \in Node |-> IF n \in Reg THEN "precolored" ELSE "initial"]
  /\ alias = [n \in Node |-> n]
  /\ pos = [t \in Temp |-> 0]
  /\ top = 1
  /\ color = [n \in Node |-> IF n \in Reg THEN n ELSE NoReg]
  /\ chosen = {}

(* Variant: without the test for an edge to itself. *)
AddEdgeSelf(u, v) ==
  /\ phase = "build"
  /\ v \notin adj[u]
  /\ Cardinality(graph) < MaxEdges
  /\ graph' = graph \cup {{u, v}}
  /\ adj' = AdjWith(u, {v})
  /\ ncl' = NclWith(u, {v})
  /\ UNCHANGED <<phase, moveList, queue, onlist, alias, pos, top, color, chosen>>

AddEdge(u, v) ==
  /\ phase = "build"
  /\ u # v
  /\ v \notin adj[u]
  /\ Cardinality(graph) < MaxEdges
  /\ graph' = graph \cup {{u, v}}
  /\ adj' = AdjWith(u, {v})
  /\ ncl' = NclWith(u, {v})
  /\ UNCHANGED <<phase, moveList, queue, onlist, alias, pos, top, color, chosen>>

moveadd(def, use) ==
  LET m == <<use, def>> IN
  /\ phase = "build"
  /\ m \in Move
  /\ m \notin moveList[def]
  /\ <<def, use>> \notin moveList[def]
  /\ Cardinality({x \in Move : queue[x] # "none"}) < MaxMoves
  /\ queue' = [queue EXCEPT ![m] = "wlist"]
  /\ moveList' = [moveList EXCEPT ![def] = @ \cup {m}, ![use] = @ \cup {m}]
  /\ UNCHANGED <<phase, graph, adj, ncl, onlist, alias, pos, top, color, chosen>>

MkWorklist ==
  /\ phase = "build"
  /\ phase' = "coalassign"
  /\ onlist' = [n \in Node |->
                 IF n \in Reg THEN onlist[n]
                 ELSE IF ~ trivially_colorable(n, ncl) THEN "spill"
                 ELSE IF MoveRelated(moveList, queue, n) THEN "freeze"
                 ELSE "simplify"]
  /\ UNCHANGED <<graph, adj, ncl, moveList, queue, alias, pos, top, color, chosen>>

-----------------------------------------------------------------------------
(* Combine(u, v), and the AddWorkList(u) each caller makes after it.  q0   *)
(* is the queue of the moves when Combine is entered.                      *)
Combine(u, v, q0) ==
  LET o1 == [onlist EXCEPT ![v] = "coalesced"]
      ml == [moveList EXCEPT ![u] = @ \cup moveList[v]]
      q1 == EnableMoves(q0, ml, {v})
      T  == {t \in adj[v] : o1[t] \notin Gone}
      S  == IF u \in Temp
            THEN T \ (adj[u] \cup {u})
            ELSE {t \in T \cap Temp : u \notin adj[t] /\ aliasmap(cls[t], u) # {}}
      a1 == AdjWith(u, S)
      n1 == NclWith(u, S)
      n2 == Decremented(n1, T \cap Temp, cls[v])
      X  == Crossed(T \cap Temp, n1, n2)
      q2 == EnableMoves(q1, ml, AdjOrSelf(a1, o1, X))
      o2 == Relisted(o1, X, ml, q1)
      o3 == IF u \in Temp /\ o2[u] = "freeze" /\ ~ trivially_colorable(u, n2)
            THEN [o2 EXCEPT ![u] = "spill"] ELSE o2
  IN /\ adj' = a1
     /\ ncl' = n2
     /\ moveList' = ml
     /\ queue' = q2
     /\ onlist' = AddWorkList(o3, n2, ml, q2, {u})
     /\ alias' = [n \in Node |-> IF alias[n] = v THEN u ELSE alias[n]]
     /\ UNCHANGED <<graph, pos, top, color, chosen>>

(* coalasg on ASSIGN(u, ..) whose own node is v: a short-lived node bound  *)
(* to the assigned variable or register by a move, and not live with it.   *)
coalasg(u, v) ==
  /\ phase = "coalassign"
  /\ v \in Temp \ Long
  /\ u \in Long \cup Reg
  /\ onlist[v] # "coalesced"
  /\ \E m \in moveList[v] : queue[m] = "wlist" /\ {m[1], m[2]} = {u, v}
  /\ ~ adjSet(u, v)
  /\ Combine(u, v, queue)
  /\ UNCHANGED phase

StartLoop ==
  /\ phase = "coalassign"
  /\ phase' = "loop"
  /\ UNCHANGED <<graph, adj, ncl, moveList, queue, onlist, alias, pos, top,
                 color, chosen>>

-----------------------------------------------------------------------------
(* The do-while loop of ngenregs: the first list that is not empty decides. *)

Pending == {m \in Move : queue[m] = "wlist"}

MayCoalesce == phase = "loop" /\ On("simplify") = {}
MayFreeze   == MayCoalesce /\ Pending = {}
MaySpill    == MayFreeze /\ On("freeze") = {}

Simplify(w) ==
  LET o1 == [onlist EXCEPT ![w] = "select"]
      T  == {t \in adj[w] \cap Temp : o1[t] \notin Gone}
      n2 == Decremented(ncl, T, cls[w])
      X  == Crossed(T, ncl, n2)
  IN /\ phase = "loop"
     /\ onlist[w] = "simplify"
     /\ ncl' = n2
     /\ queue' = EnableMoves(queue, moveList, AdjOrSelf(adj, o1, X))
     /\ onlist' = Relisted(o1, X, moveList, queue)
     /\ pos' = [pos EXCEPT ![w] = top]
     /\ top' = top + 1
     /\ UNCHANGED <<phase, graph, adj, moveList, alias, color, chosen>>

(* The ends of a move as Coalesce orders them: a register comes first. *)
EndU(m) == IF alias[m[2]] \in Reg THEN alias[m[2]] ELSE alias[m[1]]
EndV(m) == IF alias[m[2]] \in Reg THEN alias[m[1]] ELSE alias[m[2]]

(* adjSet(t, r), t first: only an edge to r itself counts, not one to a    *)
(* register that overlaps it.                                              *)
OK(t, r) ==
  t \in Temp =>
    \/ trivially_colorable(t, ncl)
    \/ r \in adj[t]
    \/ aliasmap(cls[t], r) = {}

adjok(v, r) == \A t \in adj[v] : onlist[t] \notin Gone => OK(t, r)

(* Briggs' test: the significant neighbours both ends would have. *)
Conservative(u, v) ==
  LET sig(c) == {n \in adj[u] \cup adj[v] :
                  /\ onlist[n] \notin Gone
                  /\ cls[n] = c
                  /\ n \in Reg \/ ~ trivially_colorable(n, ncl)}
  IN Colormap(cls[u], [c \in Class |-> IF Cardinality(sig(c)) < regK(c)
                                       THEN Cardinality(sig(c)) ELSE regK(c)])

Constrained(u, v) == v \in Temp => adjSet(u, v)

MayCombine(u, v) == IF u \in Reg THEN adjok(v, u) ELSE Conservative(u, v)

CoalesceSame(m) ==
  LET q1 == [queue EXCEPT ![m] = "coal"] IN
  /\ MayCoalesce
  /\ queue[m] = "wlist"
  /\ EndU(m) = EndV(m)
  /\ queue' = q1
  /\ onlist' = AddWorkList(onlist, ncl, moveList, q1, {EndU(m)})
  /\ UNCHANGED <<phase, graph, adj, ncl, moveList, alias, pos, top, color, chosen>>

CoalesceConstrained(m) ==
  LET q1 == [queue EXCEPT ![m] = "constr"] IN
  /\ MayCoalesce
  /\ queue[m] = "wlist"
  /\ EndU(m) # EndV(m)
  /\ Constrained(EndU(m), EndV(m))
  /\ queue' = q1
  /\ onlist' = AddWorkList(onlist, ncl, moveList, q1, {EndU(m), EndV(m)})
  /\ UNCHANGED <<phase, graph, adj, ncl, moveList, alias, pos, top, color, chosen>>

CoalesceCombine(m) ==
  /\ MayCoalesce
  /\ queue[m] = "wlist"
  /\ EndU(m) # EndV(m)
  /\ ~ Constrained(EndU(m), EndV(m))
  /\ MayCombine(EndU(m), EndV(m))
  /\ Combine(EndU(m), EndV(m), [queue EXCEPT ![m] = "coal"])
  /\ UNCHANGED phase

(* Variant: the deferred move is put back on worklistMoves. *)
CoalesceRetry(m) ==
  /\ MayCoalesce
  /\ queue[m] = "wlist"
  /\ EndU(m) # EndV(m)
  /\ ~ Constrained(EndU(m), EndV(m))
  /\ ~ MayCombine(EndU(m), EndV(m))
  /\ UNCHANGED vars

CoalesceDefer(m) ==
  /\ MayCoalesce
  /\ queue[m] = "wlist"
  /\ EndU(m) # EndV(m)
  /\ ~ Constrained(EndU(m), EndV(m))
  /\ ~ MayCombine(EndU(m), EndV(m))
  /\ queue' = [queue EXCEPT ![m] = "active"]
  /\ UNCHANGED <<phase, graph, adj, ncl, moveList, onlist, alias, pos, top,
                 color, chosen>>

(* Variant: u is left on its list. *)
FreezeMovesStays(u) ==
  LET F  == {m \in moveList[u] : LiveMove(queue, m)}
      q1 == [m \in Move |-> IF m \in F THEN "frozen" ELSE queue[m]]
      partner(m) == IF alias[m[2]] = alias[u] THEN alias[m[1]] ELSE alias[m[2]]
      Z  == {z \in {partner(m) : m \in F} :
              z # u /\ onlist[z] = "freeze" /\ ~ MoveRelated(moveList, q1, z)}
  IN /\ queue' = q1
     /\ onlist' = [n \in Node |-> IF n \in Z THEN "simplify" ELSE onlist[n]]

(* Put u on simplifyWorklist and FreezeMoves(u). *)
FreezeMoves(u) ==
  LET F  == {m \in moveList[u] : LiveMove(queue, m)}
      q1 == [m \in Move |-> IF m \in F THEN "frozen" ELSE queue[m]]
      partner(m) == IF alias[m[2]] = alias[u] THEN alias[m[1]] ELSE alias[m[2]]
      Z  == {z \in {partner(m) : m \in F} :
              z # u /\ onlist[z] = "freeze" /\ ~ MoveRelated(moveList, q1, z)}
  IN /\ queue' = q1
     /\ onlist' = [n \in Node |-> IF n \in Z \cup {u} THEN "simplify" ELSE onlist[n]]

(* Freeze prefers a colourable long-lived node with at most two moves. *)
EasyFreeze == {u \in On("freeze") \cap Long :
                 trivially_colorable(u, ncl) /\ Cardinality(moveList[u]) <= 2}

Freeze(u) ==
  /\ MayFreeze
  /\ u \in IF EasyFreeze # {} THEN EasyFreeze ELSE On("freeze")
  /\ FreezeMoves(u)
  /\ UNCHANGED <<phase, graph, adj, ncl, moveList, alias, pos, top, color, chosen>>

(* SelectSpill tries four kinds of candidates in turn. *)
SpillCandidates ==
  LET L == On("spill") IN
  IF L \cap Perm # {} THEN L \cap Perm
  ELSE IF (L \cap Long) \ NotSpill # {} THEN (L \cap Long) \ NotSpill
  ELSE IF L \ Leaf # {} THEN L \ Leaf
  ELSE L

SelectSpill(w) ==
  /\ MaySpill
  /\ w \in SpillCandidates
  /\ FreezeMoves(w)
  /\ chosen' = chosen \cup {w}
  /\ UNCHANGED <<phase, graph, adj, ncl, moveList, alias, pos, top, color>>

EndLoop ==
  /\ MaySpill
  /\ On("spill") = {}
  /\ phase' = "color"
  /\ UNCHANGED <<graph, adj, ncl, moveList, queue, onlist, alias, pos, top,
                 color, chosen>>

-----------------------------------------------------------------------------
(* AssignColors.                                                           *)

IsColored(n) == onlist[n] \in {"colored", "precolored"}

(* Variant: looks at the neighbour instead of the node it was coalesced into. *)
okColorsNoAlias(w) ==
  {c \in classmask(cls[w]) :
    \A x \in adj[w] : IsColored(x) => c \notin aliasmap(cls[w], color[x])}

okColors(w) ==
  {c \in classmask(cls[w]) :
    \A x \in adj[w] : IsColored(alias[x]) =>
                        c \notin aliasmap(cls[w], color[alias[x]])}

(* colfind: the colour of a node r was joined to by a move, else the first. *)
Recommended(ok, r) ==
  LET other(m) == alias[IF m[1] = r THEN m[2] ELSE m[1]]
  IN {c \in ok : \E m \in moveList[r] : IsColored(other(m)) /\ color[other(m)] = c}

colfind(ok, r) ==
  IF Recommended(ok, r) # {} THEN Recommended(ok, r)
  ELSE {c \in ok : \A d \in ok : c <= d}

Popped(w) == onlist[w] = "select" /\ \A x \in Temp : onlist[x] = "select" => pos[x] <= pos[w]

AssignColor(w) ==
  /\ phase = "color"
  /\ Popped(w)
  /\ \/ /\ okColors(w) = {}
        /\ onlist' = [onlist EXCEPT ![w] = "spilled"]
        /\ UNCHANGED color
     \/ \E c \in colfind(okColors(w), w) :
          /\ onlist' = [onlist EXCEPT ![w] = "colored"]
          /\ color' = [color EXCEPT ![w] = c]
  /\ UNCHANGED <<phase, graph, adj, ncl, moveList, queue, alias, pos, top, chosen>>

(* The final walk over coalescedNodes. *)
FinishColors ==
  /\ phase = "color"
  /\ On("select") = {}
  /\ phase' = "done"
  /\ color' = [n \in Node |-> color[alias[n]]]
  /\ onlist' = [n \in Node |-> IF onlist[n] = "coalesced" /\ onlist[alias[n]] = "spilled"
                               THEN "spilled" ELSE onlist[n]]
  /\ UNCHANGED <<graph, adj, ncl, moveList, queue, alias, pos, top, chosen>>

Finished == phase = "done" /\ UNCHANGED vars

-----------------------------------------------------------------------------
Build ==
  \/ \E u \in Temp, v \in Temp \cup Touched : AddEdge(u, v)
  \/ \E d, s \in Temp \cup Touched : moveadd(d, s)

Coalesce ==
  \E m \in Move : \/ CoalesceSame(m)
                  \/ CoalesceConstrained(m)
                  \/ CoalesceCombine(m)
                  \/ CoalesceDefer(m)

Next ==
  \/ Build
  \/ MkWorklist
  \/ \E u \in Node, v \in Temp : coalasg(u, v)
  \/ StartLoop
  \/ \E t \in Temp : Simplify(t) \/ Freeze(t) \/ SelectSpill(t) \/ AssignColor(t)
  \/ Coalesce
  \/ EndLoop
  \/ FinishColors
  \/ Finished

Spec == Init /\ [][Next]_vars

(* The allocator is one loop of one thread: it always takes its next step. *)
FairSpec == Spec /\ WF_vars(Next)

-----------------------------------------------------------------------------
(* Properties.                                                             *)

(* Every structure holds values of its C type, and a temporary's adjacency *)
(* list never names the temporary itself.                                  *)
TypeOK ==
  /\ phase \in {"build", "coalassign", "loop", "color", "done"}
  /\ graph \subseteq SUBSET Node
  /\ adj \in [Temp -> SUBSET Node]
  /\ \A t \in Temp : t \notin adj[t]
  /\ ncl \in [Temp -> [Class -> Nat]]
  /\ moveList \in [Node -> SUBSET Move]
  /\ queue \in [Move -> Queues]
  /\ onlist \in [Node -> Lists]
  /\ \A n \in Node : n \in Reg <=> onlist[n] = "precolored"
  /\ alias \in [Node -> Node]
  /\ pos \in [Temp -> Nat]
  /\ top \in Nat
  /\ color \in [Node -> Reg \cup {NoReg}]
  /\ chosen \subseteq Temp

(* What the allocator is for: two nodes that Build found live together and *)
(* that both got a register (directly, by coalescing, or as a machine      *)
(* register) never share storage, whatever was simplified, coalesced,      *)
(* frozen or spilled on the way, and in whatever order.                    *)
ProperColoring ==
  phase = "done" =>
    \A u \in Temp, v \in Node :
      {u, v} \in graph /\ u # v /\ onlist[u] # "spilled" /\ onlist[v] # "spilled" =>
        color[u] \in Reg /\ color[v] \in Reg /\ ~ interferes(color[u], color[v])

(* The incremental counts of DecrementDegree and AddEdge, kept through     *)
(* simplification and coalescing, are the number of neighbours still in    *)
(* the graph: a count too low would push an uncolourable node, one too     *)
(* high would spill for nothing.                                           *)
DegreeInvariant ==
  phase \in {"coalassign", "loop"} =>
    \A t \in Temp, c \in Class :
      onlist[t] \notin Gone =>
        ncl[t][c] = Cardinality({n \in adj[t] : onlist[n] \notin Gone /\ cls[n] = c})

(* The worklists say what their names promise whenever ngenregs chooses the *)
(* next step: freeze holds colourable nodes that still have a move, spill   *)
(* nodes that are not colourable, and nothing on simplify or on the select  *)
(* stack still has a move that Coalesce could pick up.                      *)
WorklistInvariant ==
  phase = "loop" =>
    \A t \in Temp :
      /\ onlist[t] = "freeze" => /\ trivially_colorable(t, ncl)
                                 /\ MoveRelated(moveList, queue, t)
      /\ onlist[t] = "spill" => ~ trivially_colorable(t, ncl)
      /\ onlist[t] \in {"simplify", "select"} => ~ MoveRelated(moveList, queue, t)

(* A node pushed on selectStack stays there, at its place, until           *)
(* AssignColors pops it (AddWorkList or Combine would take it off if one   *)
(* of its moves were still live, and the nodes pushed since would not see  *)
(* it any more).                                                           *)
StackIsLIFO ==
  [][\A t \in Temp : onlist[t] = "select" =>
        \/ onlist'[t] = "select" /\ pos'[t] = pos[t]
        \/ phase = "color" /\ \A x \in Temp : onlist[x] = "select" => pos[x] <= pos[t]]_vars

(* Why the loop of ngenregs comes to an end, although EnableMoves puts     *)
(* deferred moves back on worklistMoves and nodes return to                *)
(* simplifyWorklist: every step takes a node out of the graph, or else     *)
(* settles or defers a pending move and brings none back, or else takes a  *)
(* node off freezeWorklist or spillWorklist and puts none there.           *)
InPlay == {t \in Temp : onlist[t] \notin Gone}
Waiting == On("freeze") \cup On("spill")

Shrinks(before, after) == after \subseteq before /\ after # before

LoopAdvances ==
  [][phase = "loop" /\ phase' = "loop" =>
        \/ Shrinks(InPlay, InPlay')
        \/ InPlay' = InPlay /\ Shrinks(Pending, Pending')
        \/ InPlay' = InPlay /\ Pending' = Pending /\ Shrinks(Waiting, Waiting')]_vars

(* When AssignColors starts every move has been coalesced, constrained or  *)
(* frozen.  The registers' moveList outlives the round (recalc does not    *)
(* clear it) while the lists are made anew: an ACTIVE move left on it      *)
(* would be unlinked from a list it is not on by EnableMoves in the next.  *)
EveryMoveDecided ==
  phase \in {"color", "done"} => \A m \in Move : ~ LiveMove(queue, m)

(* No register is wasted: a node is stored in memory only if SelectSpill   *)
(* gave up on it (or on the node it was coalesced into); everything pushed *)
(* as trivially colourable does find a register.                           *)
NoSpuriousSpill ==
  phase = "done" => \A t \in Temp : onlist[t] = "spilled" => alias[t] \in chosen

(* The worklist loop comes to an end: moves that EnableMoves puts back on  *)
(* worklistMoves are not tried for ever.                                   *)
Termination == <>(phase = "done")

=============================================================================
