--------------------------- MODULE RegAllocProofs ---------------------------
(***************************************************************************)
(* Proofs about the register allocator, for every set of temporaries, every *)
(* register file and every colour map: type correctness first.  Then that  *)
(* the allocator colours the interference graph, and what that needs: no   *)
(* node leaves the stack before its turn, and when the colours are         *)
(* assigned every move has been decided.  That the loop which takes the    *)
(* graph apart cannot go round in a circle.  Then that the counts of       *)
(* neighbours are exact, and, for a COLORMAP that the allocator can rely   *)
(* on, that the worklists are right and that nothing is spilled that       *)
(* SelectSpill has not picked.                                             *)
(***************************************************************************)
EXTENDS RegAlloc, FiniteSetTheorems, TLAPS

-----------------------------------------------------------------------------
(* What the helpers return.                                                *)

AdjType == [Temp -> SUBSET Node]
NclType == [Temp -> [Class -> Nat]]
Listing == {o \in [Node -> Lists] : \A n \in Node : n \in Reg <=> o[n] = "precolored"}

LEMMA ClassNeighbours ==
  ASSUME NEW S \in SUBSET Node, NEW c
  PROVE  Cardinality({s \in S : cls[s] = c}) \in Nat
<1>1. IsFiniteSet(Node)
  BY NodesAssumption, FS_Union DEF Node
<1>2. IsFiniteSet({s \in S : cls[s] = c})
  BY <1>1, FS_Subset
<1>3. QED
  BY <1>2, FS_CardinalityType

LEMMA AdjWithType ==
  ASSUME adj \in AdjType, \A t \in Temp : t \notin adj[t],
         NEW u \in Node, NEW S \in SUBSET Node, u \notin S
  PROVE  /\ AdjWith(u, S) \in AdjType
         /\ \A t \in Temp : t \notin AdjWith(u, S)[t]
  BY DEF AdjWith, AdjType

LEMMA NclWithType ==
  ASSUME ncl \in NclType, NEW u \in Node, NEW S \in SUBSET Node
  PROVE  NclWith(u, S) \in NclType
<1> DEFINE count(c) == Cardinality({s \in S : cls[s] = c})
<1>1. \A c : count(c) \in Nat
  BY ClassNeighbours
<1> HIDE DEF count
<1>2. ASSUME NEW x \in Temp, NEW c \in Class
      PROVE  ncl[x][c] + (IF x = u THEN count(c)
                          ELSE IF x \in S /\ cls[u] = c THEN 1 ELSE 0) \in Nat
  BY <1>1 DEF NclType
<1>3. QED
  BY <1>2 DEF NclWith, NclType, count

LEMMA DecrementedType ==
  ASSUME NEW n \in NclType, NEW T, NEW c \in Class
  PROVE  Decremented(n, T, c) \in NclType
<1>1. ASSUME NEW x \in Temp, n[x][c] > 0
      PROVE  [n[x] EXCEPT ![c] = @ - 1] \in [Class -> Nat]
  BY <1>1 DEF NclType
<1>2. QED
  BY <1>1 DEF Decremented, NclType

LEMMA EnableMovesType ==
  ASSUME NEW q \in [Move -> Queues], NEW ml, NEW N
  PROVE  EnableMoves(q, ml, N) \in [Move -> Queues]
  BY DEF EnableMoves, Queues

LEMMA ListingUpdate ==
  ASSUME NEW o \in Listing, NEW X, X \cap Reg = {}, NEW list \in Lists,
         list # "precolored"
  PROVE  [x \in Node |-> IF x \in X THEN list ELSE o[x]] \in Listing
  BY DEF Listing, Node

LEMMA RelistedType ==
  ASSUME NEW o \in Listing, NEW X, X \cap Reg = {}, NEW ml, NEW q
  PROVE  Relisted(o, X, ml, q) \in Listing
  BY DEF Relisted, Listing, Lists, Node

LEMMA AddWorkListType ==
  ASSUME NEW o \in Listing, NEW n, NEW ml, NEW q, NEW N
  PROVE  AddWorkList(o, n, ml, q, N) \in Listing
  BY NodesAssumption DEF AddWorkList, Listing, Lists, Node

LEMMA ExceptType ==
  ASSUME NEW o \in Listing, NEW v \in Temp, NEW list \in Lists,
         list # "precolored"
  PROVE  [o EXCEPT ![v] = list] \in Listing
  BY NodesAssumption DEF Listing, Node

-----------------------------------------------------------------------------
(* TypeOK, step by step.                                                   *)

LEMMA InitType == Init => TypeOK
  BY NodesAssumption DEF Init, TypeOK, Node, Lists, Queues, NoReg

LEMMA AddEdgeType ==
  ASSUME TypeOK, NEW u \in Temp, NEW v \in Temp \cup Touched, AddEdge(u, v)
  PROVE  TypeOK'
<1>1. u \in Node /\ v \in Node /\ {v} \in SUBSET Node /\ u \notin {v}
  BY KindsAssumption DEF AddEdge, Node
<1>2. AdjWith(u, {v}) \in AdjType /\ \A t \in Temp : t \notin AdjWith(u, {v})[t]
  BY <1>1, AdjWithType DEF TypeOK, AdjType
<1>3. NclWith(u, {v}) \in NclType
  BY <1>1, NclWithType DEF TypeOK, NclType
<1>4. graph' \subseteq SUBSET Node
  BY <1>1 DEF TypeOK, AddEdge
<1>5. QED
  BY <1>2, <1>3, <1>4 DEF TypeOK, AddEdge, AdjType, NclType

LEMMA moveaddType ==
  ASSUME TypeOK, NEW d \in Temp \cup Touched, NEW s \in Temp \cup Touched,
         moveadd(d, s)
  PROVE  TypeOK'
<1>1. d \in Node /\ s \in Node /\ <<s, d>> \in Move
  BY KindsAssumption DEF moveadd, Node
<1>2. moveList' \in [Node -> SUBSET Move] /\ queue' \in [Move -> Queues]
  BY <1>1 DEF TypeOK, moveadd, Queues
<1>3. QED
  BY <1>2 DEF TypeOK, moveadd

LEMMA MkWorklistType ==
  ASSUME TypeOK, MkWorklist
  PROVE  TypeOK'
<1>1. onlist' \in Listing
  BY NodesAssumption DEF TypeOK, MkWorklist, Listing, Lists, Node
<1>2. QED
  BY <1>1 DEF TypeOK, MkWorklist, Listing

LEMMA CombineType ==
  ASSUME TypeOK, NEW u \in Node, NEW v \in Temp, NEW q0 \in [Move -> Queues],
         Combine(u, v, q0)
  PROVE  /\ adj' \in AdjType /\ \A t \in Temp : t \notin adj'[t]
         /\ ncl' \in NclType
         /\ moveList' \in [Node -> SUBSET Move]
         /\ queue' \in [Move -> Queues]
         /\ onlist' \in Listing
         /\ alias' \in [Node -> Node]
         /\ UNCHANGED <<graph, pos, top, color, chosen>>
<1> DEFINE o1 == [onlist EXCEPT ![v] = "coalesced"]
           ml == [moveList EXCEPT ![u] = @ \cup moveList[v]]
           q1 == EnableMoves(q0, ml, {v})
           T  == {t \in adj[v] : o1[t] \notin Gone}
           S  == IF u \in Temp
                 THEN T \ (adj[u] \cup {u})
                 ELSE {t \in T \cap Temp : u \notin adj[t] /\ aliasmap(cls[t], u) # {}}
           a1 == AdjWith(u, S)
           n1 == NclWith(u, S)
           n2 == Decremented(n1, T \cap Temp, cls[v])
           X  == Crossed(T \cap Temp, n1, n2)
           q2 == EnableMoves(q1, ml, AdjOrSelf(a1, o1, X))
           o2 == Relisted(o1, X, ml, q1)
           o3 == IF u \in Temp /\ o2[u] = "freeze" /\ ~ trivially_colorable(u, n2)
                 THEN [o2 EXCEPT ![u] = "spill"] ELSE o2
<1>1. /\ adj' = a1
      /\ ncl' = n2
      /\ moveList' = ml
      /\ queue' = q2
      /\ onlist' = AddWorkList(o3, n2, ml, q2, {u})
      /\ alias' = [n \in Node |-> IF alias[n] = v THEN u ELSE alias[n]]
      /\ UNCHANGED <<graph, pos, top, color, chosen>>
  BY DEF Combine
<1>2. T \in SUBSET Node /\ v \in Node /\ cls[v] \in Class /\ Temp \cap Reg = {}
  BY NodesAssumption DEF TypeOK, Node
<1>3. X \subseteq T \cap Temp
  BY DEF Crossed
<1> HIDE DEF T, X
<1>4. S \in SUBSET Node /\ u \notin S
  BY <1>2 DEF Node
<1> HIDE DEF S
<1>5. a1 \in AdjType /\ \A t \in Temp : t \notin a1[t]
  BY <1>4, AdjWithType DEF TypeOK, AdjType
<1>6. n1 \in NclType
  BY <1>4, NclWithType DEF TypeOK, NclType
<1> HIDE DEF n1
<1>7. n2 \in NclType
  BY <1>2, <1>6, DecrementedType
<1>8. ml \in [Node -> SUBSET Move]
  BY <1>2 DEF TypeOK
<1>9. q1 \in [Move -> Queues]
  BY EnableMovesType
<1>10. o1 \in Listing
  BY ExceptType DEF TypeOK, Listing, Lists
<1> HIDE DEF o1, ml, q1
<1>11. q2 \in [Move -> Queues]
  BY <1>9, EnableMovesType
<1>12. o2 \in Listing
  BY <1>2, <1>3, <1>10, RelistedType
<1> HIDE DEF o2
<1>13. o3 \in Listing
  BY <1>12, ExceptType DEF Lists
<1> HIDE DEF o3, n2, q2
<1>14. AddWorkList(o3, n2, ml, q2, {u}) \in Listing
  BY <1>13, AddWorkListType
<1>15. alias' \in [Node -> Node]
  BY <1>1 DEF TypeOK
<1>16. QED
  BY <1>1, <1>5, <1>7, <1>8, <1>11, <1>14, <1>15

LEMMA coalasgType ==
  ASSUME TypeOK, NEW u \in Node, NEW v \in Temp, coalasg(u, v)
  PROVE  TypeOK'
<1>1. queue \in [Move -> Queues] /\ Combine(u, v, queue) /\ phase' = phase
  BY DEF TypeOK, coalasg
<1>2. QED
  BY <1>1, CombineType DEF TypeOK, AdjType, NclType, Listing

LEMMA SimplifyType ==
  ASSUME TypeOK, NEW w \in Temp, Simplify(w)
  PROVE  TypeOK'
<1> DEFINE o1 == [onlist EXCEPT ![w] = "select"]
           T  == {t \in adj[w] \cap Temp : o1[t] \notin Gone}
           n2 == Decremented(ncl, T, cls[w])
           X  == Crossed(T, ncl, n2)
<1>1. /\ ncl' = n2
      /\ queue' = EnableMoves(queue, moveList, AdjOrSelf(adj, o1, X))
      /\ onlist' = Relisted(o1, X, moveList, queue)
      /\ pos' = [pos EXCEPT ![w] = top]
      /\ top' = top + 1
      /\ UNCHANGED <<phase, graph, adj, moveList, alias, color, chosen>>
  BY DEF Simplify
<1>2. cls[w] \in Class /\ X \cap Reg = {}
  BY NodesAssumption DEF Node, Crossed
<1> HIDE DEF X, T
<1>3. n2 \in NclType
  BY <1>2, DecrementedType DEF TypeOK, NclType
<1>4. o1 \in Listing
  BY ExceptType DEF TypeOK, Listing, Lists
<1> HIDE DEF o1
<1>5. queue' \in [Move -> Queues]
  BY <1>1, EnableMovesType DEF TypeOK
<1>6. onlist' \in Listing
  BY <1>1, <1>2, <1>4, RelistedType
<1>7. pos' \in [Temp -> Nat] /\ top' \in Nat
  BY <1>1 DEF TypeOK
<1>8. QED
  BY <1>1, <1>3, <1>5, <1>6, <1>7 DEF TypeOK, NclType, Listing

LEMMA CoalesceType ==
  ASSUME TypeOK, Coalesce
  PROVE  TypeOK'
<1> PICK m \in Move : \/ CoalesceSame(m) \/ CoalesceConstrained(m)
                      \/ CoalesceCombine(m) \/ CoalesceDefer(m)
  BY DEF Coalesce
<1>1. \A s \in {"coal", "constr", "active"} :
        [queue EXCEPT ![m] = s] \in [Move -> Queues]
  BY DEF TypeOK, Queues
<1>2. EndU(m) \in Node /\ EndV(m) \in Node
  BY DEF EndU, EndV, TypeOK, Move
<1>3. onlist \in Listing
  BY DEF TypeOK, Listing
<1>4. CASE CoalesceSame(m)
  <2>1. onlist' \in Listing /\ queue' \in [Move -> Queues]
    BY <1>1, <1>3, <1>4, AddWorkListType DEF CoalesceSame
  <2>2. QED
    BY <1>4, <2>1 DEF CoalesceSame, TypeOK, Listing
<1>5. CASE CoalesceConstrained(m)
  <2>1. onlist' \in Listing /\ queue' \in [Move -> Queues]
    BY <1>1, <1>3, <1>5, AddWorkListType DEF CoalesceConstrained
  <2>2. QED
    BY <1>5, <2>1 DEF CoalesceConstrained, TypeOK, Listing
<1>6. CASE CoalesceCombine(m)
  <2>1. EndV(m) \in Temp
    BY <1>6 DEF CoalesceCombine, Constrained
  <2>2. Combine(EndU(m), EndV(m), [queue EXCEPT ![m] = "coal"]) /\ phase' = phase
    BY <1>6 DEF CoalesceCombine
  <2>3. QED
    BY <1>1, <1>2, <2>1, <2>2, CombineType DEF TypeOK, AdjType, NclType, Listing
<1>7. CASE CoalesceDefer(m)
  BY <1>1, <1>7 DEF CoalesceDefer, TypeOK
<1>8. QED
  BY <1>4, <1>5, <1>6, <1>7

LEMMA FreezeMovesType ==
  ASSUME TypeOK, NEW u \in Temp, FreezeMoves(u)
  PROVE  queue' \in [Move -> Queues] /\ onlist' \in Listing
<1> DEFINE F  == {m \in moveList[u] : LiveMove(queue, m)}
           q1 == [m \in Move |-> IF m \in F THEN "frozen" ELSE queue[m]]
           partner(m) == IF alias[m[2]] = alias[u] THEN alias[m[1]] ELSE alias[m[2]]
           Z  == {z \in {partner(m) : m \in F} :
                   z # u /\ onlist[z] = "freeze" /\ ~ MoveRelated(moveList, q1, z)}
<1>1. /\ queue' = q1
      /\ onlist' = [n \in Node |-> IF n \in Z \cup {u} THEN "simplify" ELSE onlist[n]]
  BY DEF FreezeMoves
<1>2. q1 \in [Move -> Queues]
  BY DEF TypeOK, Queues
<1>3. \A z \in Z : onlist[z] = "freeze"
  OBVIOUS
<1> HIDE DEF Z
<1>4. (Z \cup {u}) \cap Reg = {}
  BY <1>3, NodesAssumption DEF TypeOK, Node
<1>5. onlist \in Listing
  BY DEF TypeOK, Listing
<1>6. onlist' \in Listing
  BY <1>1, <1>4, <1>5, ListingUpdate DEF Lists
<1>7. QED
  BY <1>1, <1>2, <1>6

LEMMA ColorsAreRegisters ==
  ASSUME NEW w, NEW c \in colfind(okColors(w), w)
  PROVE  c \in Reg
<1>1. okColors(w) \subseteq Reg
  BY DEF okColors, classmask
<1>2. c \in okColors(w)
  BY DEF colfind, Recommended
<1>3. QED
  BY <1>1, <1>2

LEMMA AssignColorType ==
  ASSUME TypeOK, NEW w \in Temp, AssignColor(w)
  PROVE  TypeOK'
<1>1. onlist \in Listing /\ color \in [Node -> Reg \cup {NoReg}]
  BY DEF TypeOK, Listing
<1>2. UNCHANGED <<phase, graph, adj, ncl, moveList, queue, alias, pos, top, chosen>>
  BY DEF AssignColor
<1>3. CASE onlist' = [onlist EXCEPT ![w] = "spilled"] /\ color' = color
  <2>1. onlist' \in Listing
    BY <1>1, <1>3, ExceptType DEF Lists
  <2>2. QED
    BY <1>2, <1>3, <2>1 DEF TypeOK, Listing
<1>4. ASSUME NEW c \in colfind(okColors(w), w),
             onlist' = [onlist EXCEPT ![w] = "colored"],
             color' = [color EXCEPT ![w] = c]
      PROVE  TypeOK'
  <2>1. onlist' \in Listing
    BY <1>1, <1>4, ExceptType DEF Lists
  <2>2. color' \in [Node -> Reg \cup {NoReg}]
    BY <1>1, <1>4, ColorsAreRegisters
  <2>3. QED
    BY <1>2, <2>1, <2>2 DEF TypeOK, Listing
<1>5. QED
  BY <1>3, <1>4 DEF AssignColor

LEMMA FinishColorsType ==
  ASSUME TypeOK, FinishColors
  PROVE  TypeOK'
<1>1. onlist' \in Listing
  BY DEF FinishColors, TypeOK, Listing, Lists
<1>2. QED
  BY <1>1 DEF FinishColors, TypeOK, Listing

LEMMA NextType ==
  ASSUME TypeOK, [Next]_vars
  PROVE  TypeOK'
<1>1. CASE Build
  BY <1>1, AddEdgeType, moveaddType DEF Build
<1>2. CASE MkWorklist
  BY <1>2, MkWorklistType
<1>3. CASE \E u \in Node, v \in Temp : coalasg(u, v)
  BY <1>3, coalasgType
<1>4. CASE StartLoop \/ EndLoop
  BY <1>4 DEF StartLoop, EndLoop, TypeOK
<1>5. ASSUME NEW t \in Temp, Simplify(t)
      PROVE  TypeOK'
  BY <1>5, SimplifyType
<1>6. ASSUME NEW t \in Temp, Freeze(t) \/ SelectSpill(t)
      PROVE  TypeOK'
  <2>1. FreezeMoves(t) /\ UNCHANGED <<phase, graph, adj, ncl, moveList, alias, pos,
                                      top, color>> /\ chosen' \subseteq Temp
    BY <1>6 DEF Freeze, SelectSpill, TypeOK
  <2>2. queue' \in [Move -> Queues] /\ onlist' \in Listing
    BY <2>1, FreezeMovesType
  <2>3. QED
    BY <2>1, <2>2 DEF TypeOK, Listing
<1>7. ASSUME NEW t \in Temp, AssignColor(t)
      PROVE  TypeOK'
  BY <1>7, AssignColorType
<1>8. CASE Coalesce
  BY <1>8, CoalesceType
<1>9. CASE FinishColors
  BY <1>9, FinishColorsType
<1>10. CASE Finished \/ UNCHANGED vars
  BY <1>10 DEF Finished, vars, TypeOK
<1>11. QED
  BY <1>1, <1>2, <1>3, <1>4, <1>5, <1>6, <1>7, <1>8, <1>9, <1>10 DEF Next

(* Every structure of the allocator keeps its type, and no temporary is    *)
(* ever its own neighbour, in every round.                                 *)
THEOREM TypeCorrect == Spec => []TypeOK
  BY InitType, NextType, PTL DEF Spec

-----------------------------------------------------------------------------
(* The inductive invariant, up to the end of the round.                    *)

(* The graph is still worked on.                                           *)
Open == phase \in {"build", "coalassign", "loop"}

(* Nodes of the graph that are coalesced point at one that is not, of the  *)
(* same class.                                                             *)
Aliases ==
  \A n \in Node :
    /\ alias[alias[n]] = alias[n]
    /\ alias[n] # n <=> onlist[n] = "coalesced"
    /\ cls[alias[n]] = cls[n]

Listed ==
  \A t \in Temp :
    /\ phase = "build" => onlist[t] = "initial"
    /\ phase \in {"coalassign", "loop"} =>
         onlist[t] \in {"simplify", "freeze", "spill", "select", "coalesced"}
    /\ phase = "color" => onlist[t] \in {"select", "coalesced", "colored", "spilled"}
    /\ phase = "coalassign" => onlist[t] # "select"
    /\ phase = "coalassign" /\ t \in Long => onlist[t] # "coalesced"

(* The stack.  A position that is not 0 is kept for good.                  *)
Stacked ==
  /\ top > 0
  /\ \A t \in Temp :
       /\ pos[t] < top
       /\ Open => (pos[t] # 0 <=> onlist[t] = "select")
       /\ phase = "color" => (pos[t] = 0 <=> onlist[t] = "coalesced")
  /\ \A s, t \in Temp :
       /\ s # t /\ pos[s] # 0 => pos[s] # pos[t]
       /\ phase = "color" /\ onlist[s] = "select" /\ onlist[t] \in {"colored", "spilled"}
            => pos[s] < pos[t]

(* A move that may still be coalesced is known to both its ends; so none   *)
(* of them is on the stack or about to go there.                           *)
MovesKnown ==
  \A m \in Move :
    LiveMove(queue, m) => m \in moveList[alias[m[1]]] /\ m \in moveList[alias[m[2]]]

Unmoved ==
  \A t \in Temp :
    onlist[t] \in {"simplify", "select"} => ~ MoveRelated(moveList, queue, t)

(* A deferred move is not between two registers.                           *)
Deferred ==
  \A m \in Move : queue[m] = "active" => alias[m[1]] \in Temp \/ alias[m[2]] \in Temp

(* Neighbours that are both in the graph know each other.                  *)
Within(t) == pos[t] = 0 /\ onlist[t] # "coalesced"

Symmetric ==
  Open => \A s, t \in Temp : Within(s) /\ Within(t) /\ t \in adj[s] => s \in adj[t]

(* a, that stands for one end of an edge, finds b, that stands for the     *)
(* other one: while it is in the graph by name, once it has been pushed    *)
(* through a node that was coalesced into b maybe.                         *)
Meets(a, b) ==
  IF pos[a] = 0 THEN b \in adj[a] ELSE \E x \in adj[a] : alias[x] = b

(* What keeps the ends of an edge apart.  Of two nodes on the stack it is  *)
(* the one pushed first, that gets its colour last, that has to see the    *)
(* other.                                                                  *)
Apart(a, b) ==
  /\ a # b
  /\ a \in Reg /\ b \in Reg => ~ interferes(a, b)
  /\ a \in Temp /\ b \in Reg => aliasmap(cls[a], b) = {} \/ Meets(a, b)
  /\ a \in Temp /\ b \in Temp /\ (pos[b] = 0 \/ (pos[a] # 0 /\ pos[a] < pos[b]))
       => Meets(a, b)

Edges == \A a, b \in Node : {a, b} \in graph => Apart(alias[a], alias[b])

(* Colours given so far.                                                   *)
Colours ==
  /\ \A r \in Reg : color[r] = r
  /\ \A t \in Temp : onlist[t] = "colored" => color[t] \in Reg
  /\ \A a, b \in Node :
       {a, b} \in graph /\ IsColored(alias[a]) /\ IsColored(alias[b]) =>
         ~ interferes(color[alias[a]], color[alias[b]])

Round ==
  /\ Aliases
  /\ Listed
  /\ Stacked
  /\ MovesKnown
  /\ Unmoved
  /\ Deferred
  /\ Symmetric
  /\ Edges
  /\ Colours

AInv ==
  /\ TypeOK
  /\ ProperColoring
  /\ EveryMoveDecided
  /\ phase # "done" => Round

-----------------------------------------------------------------------------
(* Facts about types that most steps use.                                  *)

InGraph == {"simplify", "freeze", "spill"}

LEMMA Kinds ==
  ASSUME TypeOK
  PROVE  /\ Temp \cap Reg = {} /\ Node = Temp \cup Reg
         /\ \A n \in Node : n \in Reg <=> onlist[n] = "precolored"
         /\ adj \in [Temp -> SUBSET Node] /\ alias \in [Node -> Node]
         /\ onlist \in [Node -> Lists] /\ queue \in [Move -> Queues]
         /\ moveList \in [Node -> SUBSET Move]
         /\ pos \in [Temp -> Nat] /\ top \in Nat
         /\ color \in [Node -> Reg \cup {NoReg}]
  BY NodesAssumption DEF TypeOK, Node

LEMMA RegistersStand ==
  ASSUME TypeOK, Aliases
  PROVE  \A r \in Reg : alias[r] = r
  BY Kinds DEF Aliases

-----------------------------------------------------------------------------
(* Build.                                                                  *)

LEMMA InitRound == Init => Round
<1> SUFFICES ASSUME Init PROVE Round
  OBVIOUS
<1> USE NodesAssumption DEF Init
<1>1. Aliases
  BY DEF Aliases, Node
<1>2. Listed
  BY DEF Listed, Node
<1>3. Stacked
  BY DEF Stacked, Open, Node
<1>4. MovesKnown /\ Deferred /\ Unmoved
  BY DEF MovesKnown, Deferred, LiveMove, Unmoved, Node
<1>5. Symmetric /\ Edges
  BY DEF Symmetric, Edges
<1>6. Colours
  BY DEF Colours, Node
<1>7. QED
  BY <1>1, <1>2, <1>3, <1>4, <1>5, <1>6 DEF Round

LEMMA AddEdgeKeeps ==
  ASSUME TypeOK, Round, NEW u \in Temp, NEW v \in Temp \cup Touched, AddEdge(u, v)
  PROVE  Round'
<1>1. /\ phase = "build" /\ u # v /\ u \in Node /\ v \in Node
      /\ graph' = graph \cup {{u, v}}
      /\ adj' = AdjWith(u, {v})
      /\ UNCHANGED <<phase, moveList, queue, onlist, alias, pos, top, color>>
  BY KindsAssumption DEF AddEdge, Node
<1>2. \A n \in Node : alias[n] = n
  BY <1>1, Kinds DEF Round, Aliases, Listed
<1>3. \A t \in Temp : pos[t] = 0
  BY <1>1, Kinds DEF Round, Stacked, Listed, Open, Node
<1>4. /\ adj' \in [Temp -> SUBSET Node]
      /\ \A t \in Temp : adj[t] \subseteq adj'[t]
      /\ v \in adj'[u] /\ (v \in Temp => u \in adj'[v])
      /\ \A s, t \in Temp : t \in adj'[s] /\ t \notin adj[s] => (s = u /\ t = v) \/ (s = v /\ t = u)
  BY <1>1, Kinds DEF AdjWith
<1>5. Edges'
  <2> SUFFICES ASSUME NEW a \in Node, NEW b \in Node, {a, b} \in graph'
               PROVE  Apart(a, b)'
    BY <1>1, <1>2 DEF Edges
  <2>1. CASE {a, b} \in graph
    <3>1. Apart(a, b)
      BY <1>2, <2>1 DEF Round, Edges
    <3>2. a \in Temp /\ Meets(a, b) => Meets(a, b)'
      BY <1>1, <1>3, <1>4 DEF Meets
    <3>3. QED
      BY <1>1, <3>1, <3>2 DEF Apart
  <2>2. CASE {a, b} = {u, v}
    <3>1. (a = u /\ b = v) \/ (a = v /\ b = u)
      BY <2>2
    <3>2. a # b /\ (a \in Temp => b \in adj'[a]) /\ ~ (a \in Reg /\ b \in Reg)
      BY <1>1, <1>4, <3>1, Kinds
    <3>3. a \in Temp => Meets(a, b)'
      BY <1>1, <1>3, <3>2 DEF Meets
    <3>4. QED
      BY <3>2, <3>3 DEF Apart
  <2>3. QED
    BY <1>1, <2>1, <2>2
<1>6. Symmetric'
  BY <1>1, <1>4 DEF Round, Symmetric, Within, Open
<1>7. Colours'
  <2>1. ASSUME NEW a \in Node, NEW b \in Node, {a, b} \in graph'
        PROVE  a \in Reg /\ b \in Reg => ~ interferes(a, b)
    BY <1>2, <1>5, <2>1, <1>1 DEF Edges, Apart
  <2>2. \A n \in Node : IsColored(n) => n \in Reg /\ color[n] = n
    BY <1>1, Kinds DEF Round, Listed, Colours, IsColored
  <2>3. QED
    BY <1>1, <1>2, <2>1, <2>2 DEF Round, Colours, IsColored
<1>8. QED
  BY <1>1, <1>5, <1>6, <1>7 DEF Round, Aliases, Listed, Stacked, MovesKnown, Unmoved,
     Deferred, LiveMove, MoveRelated, Open

LEMMA moveaddKeeps ==
  ASSUME TypeOK, Round, NEW d \in Temp \cup Touched, NEW s \in Temp \cup Touched,
         moveadd(d, s)
  PROVE  Round'
<1> DEFINE m == <<s, d>>
<1>1. /\ phase = "build" /\ m \in Move /\ s \in Node /\ d \in Node
      /\ queue' = [queue EXCEPT ![m] = "wlist"]
      /\ moveList' = [moveList EXCEPT ![d] = @ \cup {m}, ![s] = @ \cup {m}]
      /\ UNCHANGED <<phase, graph, adj, onlist, alias, pos, top, color>>
  BY KindsAssumption DEF moveadd, Node
<1>2. \A n \in Node : alias[n] = n
  BY <1>1, Kinds DEF Round, Aliases, Listed
<1>3. /\ m[1] = s /\ m[2] = d
      /\ m \in moveList'[s] /\ m \in moveList'[d]
      /\ \A n \in Node : moveList[n] \subseteq moveList'[n]
      /\ \A x \in Move : x # m => queue'[x] = queue[x]
      /\ queue'[m] = "wlist"
  BY <1>1, Kinds
<1> HIDE DEF m
<1>4. \A x \in Move : x[1] \in Node /\ x[2] \in Node
  BY DEF Move
<1>5. MovesKnown'
  <2> SUFFICES ASSUME NEW x \in Move, LiveMove(queue', x)
               PROVE  x \in moveList'[x[1]] /\ x \in moveList'[x[2]]
    BY <1>1, <1>2, <1>4 DEF MovesKnown
  <2>1. CASE x = m
    BY <1>3, <2>1
  <2>2. CASE x # m
    BY <1>2, <1>3, <1>4, <2>2 DEF Round, MovesKnown, LiveMove
  <2>3. QED
    BY <2>1, <2>2
<1>6. Deferred'
  BY <1>1, <1>3 DEF Round, Deferred
<1>7. Unmoved'
  BY <1>1 DEF Round, Listed, Unmoved
<1>8. QED
  BY <1>1, <1>5, <1>6, <1>7 DEF Round, Aliases, Listed, Stacked, Symmetric, Within,
     Edges, Apart, Meets, Colours, IsColored, Open

LEMMA MkWorklistKeeps ==
  ASSUME TypeOK, Round, MkWorklist
  PROVE  Round'
<1>1. /\ phase = "build" /\ phase' = "coalassign"
      /\ \A t \in Temp : onlist'[t] \in InGraph
      /\ \A t \in Temp : onlist'[t] = "simplify" => ~ MoveRelated(moveList, queue, t)
      /\ \A r \in Reg : onlist'[r] = onlist[r]
      /\ UNCHANGED <<graph, adj, moveList, queue, alias, pos, top, color>>
  BY Kinds DEF MkWorklist, InGraph
<1>2. \A t \in Temp : onlist[t] = "initial"
  BY <1>1 DEF Round, Listed
<1>3. Aliases'
  BY <1>1, <1>2, Kinds DEF Round, Aliases, InGraph
<1>4. Listed'
  BY <1>1 DEF Listed, InGraph
<1>5. Stacked'
  BY <1>1, <1>2 DEF Round, Stacked, Open, InGraph
<1>6. MovesKnown' /\ Unmoved' /\ Deferred'
  BY <1>1 DEF Round, MovesKnown, Unmoved, Deferred, InGraph, LiveMove, MoveRelated
<1>7. Symmetric'
  BY <1>1, <1>2 DEF Round, Symmetric, Within, Open, InGraph
<1>8. Edges'
  BY <1>1 DEF Round, Edges, Apart, Meets
<1>9. Colours'
  <2>1. \A n \in Node : IsColored(n)' => IsColored(n)
    BY <1>1, Kinds DEF IsColored, InGraph
  <2>2. QED
    BY <1>1, <2>1, Kinds DEF Round, Colours, InGraph
<1>10. QED
  BY <1>3, <1>4, <1>5, <1>6, <1>7, <1>8, <1>9 DEF Round

-----------------------------------------------------------------------------
(* Steps that only move nodes between the worklists and settle moves.      *)

Relists ==
  /\ \A t \in Temp : \/ onlist'[t] = onlist[t]
                     \/ onlist[t] \in InGraph /\ onlist'[t] \in InGraph
  /\ \A r \in Reg : onlist'[r] = onlist[r]

(* No move comes to life, and simplifyWorklist gets no node with a move.   *)
Settles ==
  /\ \A m \in Move : /\ LiveMove(queue', m) => LiveMove(queue, m)
                     /\ queue'[m] = "active" => queue[m] = "active"
  /\ \A t \in Temp : onlist'[t] = "simplify" /\ onlist[t] # "simplify" =>
                       ~ MoveRelated(moveList', queue', t)

LEMMA SettledStay ==
  ASSUME Unmoved, moveList' = moveList, Settles, NEW t \in Temp,
         onlist[t] \in {"simplify", "select"}, TypeOK
  PROVE  ~ MoveRelated(moveList', queue', t)
  BY Kinds, NodesAssumption DEF Unmoved, Settles, MoveRelated, Node

LEMMA EdgesStay ==
  ASSUME Edges, UNCHANGED <<graph, adj, alias, pos>>
  PROVE  Edges'
  BY DEF Edges, Apart, Meets

LEMMA QuietKeeps ==
  ASSUME TypeOK, Round, phase = "loop",
         UNCHANGED <<phase, graph, adj, alias, pos, top, color, moveList>>,
         Relists, Settles
  PROVE  Round'
<1> USE Kinds DEF Round
<1>1. \A n \in Node : /\ onlist'[n] = "coalesced" <=> onlist[n] = "coalesced"
                      /\ onlist'[n] = "select" <=> onlist[n] = "select"
                      /\ IsColored(n)' <=> IsColored(n)
                      /\ onlist'[n] = "colored" <=> onlist[n] = "colored"
  BY DEF Relists, InGraph, IsColored
<1>2. Aliases' /\ Stacked' /\ Symmetric' /\ Edges'
  <2>1. Aliases'
    BY <1>1 DEF Aliases
  <2>2. Stacked'
    BY <1>1 DEF Stacked, Open
  <2>3. Symmetric'
    BY <1>1 DEF Symmetric, Within, Open
  <2>4. Edges'
    BY EdgesStay
  <2>5. QED
    BY <2>1, <2>2, <2>3, <2>4
<1>3. Listed'
  BY DEF Listed, Relists, InGraph
<1>4. MovesKnown' /\ Deferred'
  BY DEF MovesKnown, Deferred, Settles
<1>5. Unmoved'
  <2> SUFFICES ASSUME NEW t \in Temp, onlist'[t] \in {"simplify", "select"}
               PROVE  ~ MoveRelated(moveList', queue', t)
    BY DEF Unmoved
  <2>1. CASE onlist[t] \in {"simplify", "select"}
    BY <2>1, SettledStay
  <2>2. CASE onlist[t] \notin {"simplify", "select"}
    BY <1>1, <2>2, NodesAssumption DEF Settles, Node
  <2>3. QED
    BY <2>1, <2>2
<1>6. Colours'
  <2>1. \A n \in Node : alias[n] \in Node
    OBVIOUS
  <2>2. QED
    BY <1>1, <2>1 DEF Colours
<1>7. QED
  BY <1>2, <1>3, <1>4, <1>5, <1>6

LEMMA StartLoopKeeps ==
  ASSUME TypeOK, Round, StartLoop
  PROVE  Round'
<1>1. /\ phase = "coalassign" /\ phase' = "loop"
      /\ UNCHANGED <<graph, adj, moveList, queue, onlist, alias, pos, top, color>>
  BY DEF StartLoop
<1>2. QED
  BY <1>1 DEF Round, Aliases, Listed, Stacked, MovesKnown, Unmoved, Deferred,
     LiveMove, MoveRelated, Symmetric, Within, Edges, Apart, Meets, Colours,
     IsColored, Open

(* A move that may be coalesced is between two nodes that are neither on   *)
(* the stack nor about to go there, and neither of which is coalesced.     *)
LEMMA EndsWithin ==
  ASSUME TypeOK, Round, phase \in {"coalassign", "loop"}, NEW m \in Move,
         LiveMove(queue, m), NEW k \in 1 .. 2
  PROVE  /\ alias[m[k]] \in Node /\ alias[alias[m[k]]] = alias[m[k]]
         /\ m \in moveList[alias[m[k]]]
         /\ alias[m[k]] \in Temp => onlist[alias[m[k]]] \in {"freeze", "spill"}
         /\ cls[alias[m[1]]] = cls[alias[m[2]]]
<1>1. m[1] \in Node /\ m[2] \in Node /\ cls[m[1]] = cls[m[2]]
  BY DEF Move
<1>2. m[k] \in Node /\ m \in moveList[alias[m[k]]]
  BY <1>1 DEF Round, MovesKnown
<1>3. alias[m[k]] \in Node /\ alias[alias[m[k]]] = alias[m[k]]
  BY <1>2, Kinds DEF Round, Aliases
<1>4. ASSUME alias[m[k]] \in Temp
      PROVE  onlist[alias[m[k]]] \in {"freeze", "spill"}
  <2>1. MoveRelated(moveList, queue, alias[m[k]])
    BY <1>2 DEF MoveRelated
  <2>2. onlist[alias[m[k]]] # "coalesced"
    BY <1>3 DEF Round, Aliases
  <2>3. QED
    BY <1>4, <2>1, <2>2 DEF Round, Unmoved, Listed
<1>5. cls[alias[m[1]]] = cls[alias[m[2]]]
  BY <1>1 DEF Round, Aliases
<1>6. QED
  BY <1>2, <1>3, <1>4, <1>5

LEMMA EndsOfMove ==
  ASSUME TypeOK, Round, phase \in {"coalassign", "loop"}, NEW m \in Move,
         LiveMove(queue, m), NEW n \in {EndU(m), EndV(m)}
  PROVE  /\ n \in Node /\ alias[n] = n /\ m \in moveList[n]
         /\ n \in Temp => onlist[n] \in {"freeze", "spill"}
         /\ cls[EndU(m)] = cls[EndV(m)]
<1>1. /\ EndU(m) \in {alias[m[1]], alias[m[2]]}
      /\ EndV(m) \in {alias[m[1]], alias[m[2]]}
      /\ cls[alias[m[1]]] = cls[alias[m[2]]]
  BY EndsWithin DEF EndU, EndV
<1>2. PICK k \in 1 .. 2 : n = alias[m[k]]
  BY <1>1
<1>3. QED
  BY <1>1, <1>2, EndsWithin

(* AddWorkList on nodes that are in the graph.                             *)
LEMMA ListedAnew ==
  ASSUME TypeOK, NEW n, NEW q, NEW N \in SUBSET Node,
         \A x \in N \cap Temp : onlist[x] \in InGraph,
         onlist' = AddWorkList(onlist, n, moveList, q, N)
  PROVE  /\ Relists
         /\ \A t \in Temp : onlist'[t] = "simplify" /\ onlist[t] # "simplify" =>
                              ~ MoveRelated(moveList, q, t)
  BY Kinds DEF AddWorkList, Relists, InGraph

LEMMA CoalesceSameKeeps ==
  ASSUME TypeOK, Round, NEW m \in Move, CoalesceSame(m)
  PROVE  /\ UNCHANGED <<phase, graph, adj, alias, pos, top, color, moveList>>
         /\ phase = "loop" /\ Relists /\ Settles
<1>1. /\ phase = "loop" /\ queue[m] = "wlist"
      /\ queue' = [queue EXCEPT ![m] = "coal"]
      /\ onlist' = AddWorkList(onlist, ncl, moveList, queue', {EndU(m)})
      /\ UNCHANGED <<phase, graph, adj, moveList, alias, pos, top, color>>
  BY DEF CoalesceSame, MayCoalesce
<1>2. EndU(m) \in Node /\ (EndU(m) \in Temp => onlist[EndU(m)] \in InGraph)
  BY <1>1, EndsOfMove DEF LiveMove, InGraph
<1>3. /\ Relists
      /\ \A t \in Temp : onlist'[t] = "simplify" /\ onlist[t] # "simplify" =>
                           ~ MoveRelated(moveList, queue', t)
  BY <1>1, <1>2, ListedAnew
<1>4. Settles
  BY <1>1, <1>3, Kinds DEF Settles, LiveMove
<1>5. QED
  BY <1>1, <1>3, <1>4

LEMMA CoalesceConstrainedKeeps ==
  ASSUME TypeOK, Round, NEW m \in Move, CoalesceConstrained(m)
  PROVE  /\ UNCHANGED <<phase, graph, adj, alias, pos, top, color, moveList>>
         /\ phase = "loop" /\ Relists /\ Settles
<1>1. /\ phase = "loop" /\ queue[m] = "wlist"
      /\ queue' = [queue EXCEPT ![m] = "constr"]
      /\ onlist' = AddWorkList(onlist, ncl, moveList, queue', {EndU(m), EndV(m)})
      /\ UNCHANGED <<phase, graph, adj, moveList, alias, pos, top, color>>
  BY DEF CoalesceConstrained, MayCoalesce
<1>2. \A n \in {EndU(m), EndV(m)} : n \in Node /\ (n \in Temp => onlist[n] \in InGraph)
  BY <1>1, EndsOfMove DEF LiveMove, InGraph
<1>3. /\ Relists
      /\ \A t \in Temp : onlist'[t] = "simplify" /\ onlist[t] # "simplify" =>
                           ~ MoveRelated(moveList, queue', t)
  BY <1>1, <1>2, ListedAnew
<1>4. Settles
  BY <1>1, <1>3, Kinds DEF Settles, LiveMove
<1>5. QED
  BY <1>1, <1>3, <1>4

LEMMA CoalesceDeferKeeps ==
  ASSUME TypeOK, Round, NEW m \in Move, CoalesceDefer(m)
  PROVE  Round'
<1>1. /\ phase = "loop" /\ queue[m] = "wlist" /\ EndV(m) \in Temp
      /\ queue' = [queue EXCEPT ![m] = "active"]
      /\ UNCHANGED <<phase, graph, adj, moveList, onlist, alias, pos, top, color>>
  BY DEF CoalesceDefer, MayCoalesce, Constrained
<1>2. \A x \in Move : LiveMove(queue', x) <=> LiveMove(queue, x)
  BY <1>1, Kinds DEF LiveMove
<1>3. alias[m[1]] \in Temp \/ alias[m[2]] \in Temp
  BY <1>1 DEF EndV
<1>4. Deferred'
  BY <1>1, <1>3, Kinds DEF Round, Deferred
<1>5. MovesKnown'
  BY <1>1, <1>2 DEF Round, MovesKnown
<1>6. Unmoved'
  <2>1. \A n \in Node : moveList[n] \subseteq Move
    BY Kinds
  <2>2. \A t \in Temp : MoveRelated(moveList, queue', t) => MoveRelated(moveList, queue, t)
    BY <1>2, <2>1, Kinds DEF MoveRelated
  <2>3. QED
    BY <1>1, <2>2 DEF Round, Unmoved
<1>7. Edges'
  BY <1>1, EdgesStay DEF Round
<1>8. QED
  BY <1>1, <1>4, <1>5, <1>6, <1>7 DEF Round, Aliases, Listed, Stacked, Symmetric, Within,
     Colours, IsColored, Open

LEMMA FreezeMovesKeeps ==
  ASSUME TypeOK, Round, NEW u \in Temp, onlist[u] \in {"freeze", "spill"},
         FreezeMoves(u), moveList' = moveList
  PROVE  Relists /\ Settles
<1> DEFINE F  == {m \in moveList[u] : LiveMove(queue, m)}
           q1 == [m \in Move |-> IF m \in F THEN "frozen" ELSE queue[m]]
           partner(m) == IF alias[m[2]] = alias[u] THEN alias[m[1]] ELSE alias[m[2]]
           Z  == {z \in {partner(m) : m \in F} :
                    z # u /\ onlist[z] = "freeze" /\ ~ MoveRelated(moveList, q1, z)}
<1>1. /\ queue' = q1
      /\ onlist' = [n \in Node |-> IF n \in Z \cup {u} THEN "simplify" ELSE onlist[n]]
  BY DEF FreezeMoves
<1>2. \A z \in Z : onlist[z] = "freeze" /\ ~ MoveRelated(moveList, q1, z)
  OBVIOUS
<1>3. \A m \in moveList[u] : ~ LiveMove(q1, m)
  BY Kinds DEF LiveMove
<1>4. \A m \in Move : q1[m] = "frozen" \/ q1[m] = queue[m]
  OBVIOUS
<1> HIDE DEF F, q1, Z
<1>5. Relists
  BY <1>1, <1>2, Kinds DEF Relists, InGraph
<1>6. \A t \in Temp : onlist'[t] = "simplify" /\ onlist[t] # "simplify" =>
                        ~ MoveRelated(moveList, q1, t)
  BY <1>1, <1>2, <1>3, Kinds DEF MoveRelated
<1>7. QED
  BY <1>1, <1>4, <1>5, <1>6 DEF Settles, LiveMove

LEMMA FreezeKeeps ==
  ASSUME TypeOK, Round, NEW u \in Temp, Freeze(u) \/ SelectSpill(u)
  PROVE  Round'
<1>1. /\ phase = "loop" /\ FreezeMoves(u)
      /\ UNCHANGED <<phase, graph, adj, moveList, alias, pos, top, color>>
  BY DEF Freeze, SelectSpill, MayFreeze, MaySpill, MayCoalesce
<1>2. onlist[u] \in {"freeze", "spill"}
  BY DEF Freeze, SelectSpill, EasyFreeze, SpillCandidates, On
<1>3. QED
  BY <1>1, <1>2, FreezeMovesKeeps, QuietKeeps

-----------------------------------------------------------------------------
(* Simplify: the pushed node meets all that are in the graph by name.      *)

LEMMA SimplifyKeeps ==
  ASSUME TypeOK, Round, NEW w \in Temp, Simplify(w)
  PROVE  Round'
<1> DEFINE o1 == [onlist EXCEPT ![w] = "select"]
           T  == {t \in adj[w] \cap Temp : o1[t] \notin Gone}
           n2 == Decremented(ncl, T, cls[w])
           X  == Crossed(T, ncl, n2)
<1>1. /\ phase = "loop" /\ onlist[w] = "simplify"
      /\ queue' = EnableMoves(queue, moveList, AdjOrSelf(adj, o1, X))
      /\ onlist' = Relisted(o1, X, moveList, queue)
      /\ pos' = [pos EXCEPT ![w] = top]
      /\ top' = top + 1
      /\ UNCHANGED <<phase, graph, adj, moveList, alias, color>>
  BY DEF Simplify
<1>2. X \subseteq Temp /\ w \notin X /\ \A x \in X : onlist[x] \notin Gone
  <2>1. w \notin T
    BY DEF TypeOK
  <2>2. T \subseteq Temp /\ \A x \in T : onlist[x] \notin Gone
    BY <2>1, Kinds
  <2>3. QED
    BY <2>1, <2>2 DEF Crossed
<1> HIDE DEF X, T
<1>3. /\ \A t \in Temp \ {w} :
           onlist'[t] = onlist[t] \/ (onlist[t] \in InGraph /\ onlist'[t] \in {"freeze", "simplify"})
      /\ \A t \in Temp \ {w} : onlist'[t] = "simplify" =>
                onlist[t] = "simplify" \/ ~ MoveRelated(moveList, queue, t)
      /\ \A r \in Reg : onlist'[r] = onlist[r]
      /\ onlist'[w] = "select"
  <2>1. \A x \in X : onlist[x] \in InGraph
    BY <1>1, <1>2 DEF Round, Listed, InGraph, Gone
  <2>2. \A n \in Node : o1[n] = IF n = w THEN "select" ELSE onlist[n]
    BY Kinds
  <2> HIDE DEF o1
  <2>3. QED
    BY <1>1, <1>2, <2>1, <2>2, Kinds DEF Relisted
<1>4. \A m \in Move : /\ LiveMove(queue', m) <=> LiveMove(queue, m)
                      /\ queue'[m] = "active" => queue[m] = "active"
  BY <1>1 DEF EnableMoves, LiveMove
<1>5. pos[w] = 0 /\ \A t \in Temp : pos[t] < top
  BY <1>1 DEF Round, Stacked, Open
<1>6. /\ pos'[w] = top /\ \A t \in Temp \ {w} : pos'[t] = pos[t]
      /\ pos' \in [Temp -> Nat] /\ top > 0
  BY <1>1, Kinds DEF Round, Stacked
<1>7. Aliases'
  <2>1. \A n \in Node : onlist'[n] = "coalesced" <=> onlist[n] = "coalesced"
    BY <1>1, <1>3, Kinds DEF InGraph
  <2>2. QED
    BY <1>1, <2>1 DEF Round, Aliases
<1>8. Listed'
  BY <1>1, <1>3 DEF Round, Listed, InGraph
<1>9. Stacked'
  <2>1. ASSUME NEW t \in Temp
        PROVE  pos'[t] < top' /\ (pos'[t] # 0 <=> onlist'[t] = "select")
    <3>1. pos[t] # 0 <=> onlist[t] = "select"
      BY <1>1 DEF Round, Stacked, Open
    <3>2. t # w => (onlist'[t] = "select" <=> onlist[t] = "select")
      BY <1>3 DEF InGraph
    <3>3. pos'[t] # 0 <=> onlist'[t] = "select"
      BY <1>3, <1>6, <3>1, <3>2
    <3>4. top' = top + 1 /\ pos'[t] \in Nat /\ top \in Nat /\ pos'[t] <= top
      BY <1>1, <1>5, <1>6, Kinds
    <3>5. QED
      BY <3>3, <3>4
  <2>2. \A s, t \in Temp : s # t /\ pos'[s] # 0 => pos'[s] # pos'[t]
    BY <1>5, <1>6, Kinds DEF Round, Stacked
  <2>3. top' > 0
    BY <1>1, <1>6, Kinds
  <2>4. QED
    BY <1>1, <2>1, <2>2, <2>3 DEF Stacked
<1>10. MovesKnown' /\ Deferred'
  BY <1>1, <1>4 DEF Round, MovesKnown, Deferred
<1>11. Unmoved'
  <2>1. \A n \in Node : moveList[n] \subseteq Move
    BY Kinds
  <2>2. \A t \in Temp : MoveRelated(moveList, queue', t) => MoveRelated(moveList, queue, t)
    BY <1>4, <2>1, Kinds DEF MoveRelated
  <2>3. \A t \in Temp : onlist'[t] \in {"simplify", "select"} =>
           onlist[t] \in {"simplify", "select"} \/ ~ MoveRelated(moveList, queue, t)
    BY <1>1, <1>3 DEF InGraph
  <2>4. QED
    BY <1>1, <2>2, <2>3 DEF Round, Unmoved
<1>12. Symmetric'
  <2>1. \A t \in Temp : Within(t)' => Within(t)
    BY <1>3, <1>5, <1>6 DEF Within, InGraph
  <2>2. QED
    BY <1>1, <2>1 DEF Round, Symmetric, Open
<1>13. Edges'
  <2> SUFFICES ASSUME NEW a \in Node, NEW b \in Node, Apart(a, b),
                      alias[a] = a, alias[b] = b
               PROVE  Apart(a, b)'
    <3>1. \A n \in Node : alias[n] \in Node /\ alias[alias[n]] = alias[n]
      BY Kinds DEF Round, Aliases
    <3>2. QED
      BY <1>1, <3>1 DEF Round, Edges
  <2>1. a \in Temp /\ Meets(a, b) => Meets(a, b)'
    BY <1>1, <1>6 DEF Meets
  <2>2. ASSUME a \in Temp, b \in Temp, pos'[b] = 0 \/ (pos'[a] # 0 /\ pos'[a] < pos'[b])
        PROVE  pos[b] = 0 \/ (pos[a] # 0 /\ pos[a] < pos[b])
    BY <1>5, <1>6, <2>2, Kinds
  <2>3. QED
    BY <1>1, <2>1, <2>2 DEF Apart
<1>14. Colours'
  <2>1. \A n \in Node : /\ IsColored(n)' <=> IsColored(n)
                        /\ onlist'[n] = "colored" <=> onlist[n] = "colored"
    BY <1>1, <1>3, Kinds DEF IsColored, InGraph
  <2>2. QED
    BY <1>1, <2>1, Kinds DEF Round, Colours
<1>15. QED
  BY <1>7, <1>8, <1>9, <1>10, <1>11, <1>12, <1>13, <1>14 DEF Round

-----------------------------------------------------------------------------
(* The end of the loop: everything has been pushed or coalesced.           *)

LEMMA EndLoopKeeps ==
  ASSUME TypeOK, Round, EndLoop
  PROVE  Round' /\ EveryMoveDecided'
<1>1. /\ phase = "loop" /\ phase' = "color"
      /\ \A n \in Node : onlist[n] \notin InGraph
      /\ \A m \in Move : queue[m] # "wlist"
      /\ UNCHANGED <<graph, adj, moveList, queue, onlist, alias, pos, top, color>>
  BY DEF EndLoop, MaySpill, MayFreeze, MayCoalesce, Pending, On, InGraph
<1>2. \A t \in Temp : onlist[t] \in {"select", "coalesced"}
  BY <1>1, Kinds DEF Round, Listed, InGraph
<1>3. Listed' /\ Stacked'
  <2>1. \A t \in Temp : pos[t] = 0 <=> onlist[t] = "coalesced"
    BY <1>1, <1>2 DEF Round, Stacked, Open
  <2>2. QED
    BY <1>1, <1>2, <2>1 DEF Round, Listed, Stacked, Open
<1>4. EveryMoveDecided'
  <2> SUFFICES ASSUME NEW m \in Move, LiveMove(queue, m)
               PROVE  FALSE
    BY <1>1 DEF EveryMoveDecided, LiveMove
  <2>1. alias[m[1]] \in Temp \/ alias[m[2]] \in Temp
    BY <1>1 DEF Round, Deferred, LiveMove
  <2>2. PICK k \in 1 .. 2 : alias[m[k]] \in Temp
    BY <2>1
  <2>3. onlist[alias[m[k]]] \in {"freeze", "spill"}
    BY <1>1, <2>2, EndsWithin
  <2>4. QED
    BY <1>2, <2>2, <2>3
<1>5. Edges'
  BY <1>1, EdgesStay DEF Round
<1>6. QED
  BY <1>1, <1>3, <1>4, <1>5 DEF Round, Aliases, MovesKnown, Unmoved, Deferred, LiveMove,
     MoveRelated, Symmetric, Open, Colours, IsColored

-----------------------------------------------------------------------------
(* AssignColors: a colour that is free for the node popped is not in       *)
(* conflict with any node of an edge that has one.                         *)

LEMMA ColourFits ==
  ASSUME TypeOK, Round, phase = "color", NEW w \in Temp, onlist[w] = "select",
         NEW c \in okColors(w), NEW b \in Node, Apart(w, b), IsColored(b)
  PROVE  ~ interferes(c, color[b])
<1>1. c \in classmask(cls[w]) /\ color[b] \in Reg
  BY Kinds DEF okColors, Round, Colours, IsColored
<1>2. pos[w] # 0
  BY DEF Round, Stacked
<1>3. CASE Meets(w, b)
  <2>1. PICK x \in adj[w] : alias[x] = b
    BY <1>2, <1>3 DEF Meets
  <2>2. c \notin aliasmap(cls[w], color[b])
    BY <2>1 DEF okColors
  <2>3. QED
    BY <1>1, <2>2 DEF aliasmap
<1>4. CASE b \in Reg /\ aliasmap(cls[w], b) = {}
  <2>1. color[b] = b
    BY <1>4 DEF Round, Colours
  <2>2. QED
    BY <1>1, <1>4, <2>1 DEF aliasmap
<1>5. CASE b \in Temp
  <2>1. onlist[b] = "colored"
    BY <1>5, Kinds DEF IsColored
  <2>2. pos[w] < pos[b]
    BY <1>5, <2>1 DEF Round, Stacked
  <2>3. QED
    BY <1>2, <1>3, <1>5, <2>2 DEF Apart
<1>6. QED
  BY <1>3, <1>4, <1>5, Kinds DEF Apart

LEMMA ConflictSymmetric ==
  ASSUME NEW r \in Reg, NEW s \in Reg, interferes(r, s)
  PROVE  interferes(s, r)
  BY OverlapAssumption DEF interferes

LEMMA AssignColorKeeps ==
  ASSUME TypeOK, Round, NEW w \in Temp, AssignColor(w)
  PROVE  Round'
<1>1. /\ phase = "color" /\ onlist[w] = "select"
      /\ \A x \in Temp : onlist[x] = "select" => pos[x] <= pos[w]
      /\ UNCHANGED <<phase, graph, adj, moveList, queue, alias, pos, top>>
  BY DEF AssignColor, Popped
<1>2. \/ onlist' = [onlist EXCEPT ![w] = "spilled"] /\ color' = color
      \/ /\ onlist' = [onlist EXCEPT ![w] = "colored"]
         /\ \E c \in okColors(w) : c \in Reg /\ color' = [color EXCEPT ![w] = c]
  <2>1. \A c \in colfind(okColors(w), w) : c \in okColors(w) /\ c \in Reg
    BY ColorsAreRegisters DEF colfind, Recommended
  <2>2. QED
    BY <2>1 DEF AssignColor
<1>3. /\ onlist'[w] \in {"spilled", "colored"}
      /\ \A n \in Node : n # w => onlist'[n] = onlist[n] /\ color'[n] = color[n]
      /\ onlist'[w] = "colored" => color'[w] \in okColors(w) /\ color'[w] \in Reg
  BY <1>2, Kinds
<1>4. Aliases' /\ Listed'
  BY <1>1, <1>3, Kinds DEF Round, Aliases, Listed
<1>5. Stacked'
  <2>1. ASSUME NEW s \in Temp, NEW t \in Temp, onlist'[s] = "select",
               onlist'[t] \in {"colored", "spilled"}
        PROVE  pos[s] < pos[t]
    <3>1. s # w /\ onlist[s] = "select"
      BY <1>3, <2>1, Kinds
    <3>2. CASE t = w
      <4>1. pos[s] # 0 /\ pos[s] # pos[w] /\ pos[s] <= pos[w]
        BY <1>1, <3>1 DEF Round, Stacked
      <4>2. QED
        BY <3>2, <4>1, Kinds
    <3>3. CASE t # w
      BY <1>1, <1>3, <2>1, <3>1, <3>3, Kinds DEF Round, Stacked
    <3>4. QED
      BY <3>2, <3>3
  <2>2. \A t \in Temp : pos[t] = 0 <=> onlist'[t] = "coalesced"
    BY <1>1, <1>3, Kinds DEF Round, Stacked
  <2>3. QED
    BY <1>1, <2>1, <2>2 DEF Round, Stacked, Open
<1>6. MovesKnown' /\ Deferred'
  BY <1>1 DEF Round, MovesKnown, Deferred, LiveMove
<1>7. Unmoved'
  BY <1>1, <1>3, Kinds DEF Round, Unmoved, MoveRelated, LiveMove
<1>8. Symmetric' /\ Edges'
  BY <1>1, EdgesStay DEF Round, Symmetric, Open
<1>9. Colours'
  <2>1. ASSUME NEW a \in Node, NEW b \in Node, {a, b} \in graph,
               IsColored(alias[a])', IsColored(alias[b])'
        PROVE  ~ interferes(color'[alias[a]], color'[alias[b]])
    <3>1. alias[a] \in Node /\ alias[b] \in Node /\ {b, a} \in graph
      BY <2>1, Kinds
    <3>2. Apart(alias[a], alias[b]) /\ Apart(alias[b], alias[a])
      BY <2>1, <3>1 DEF Round, Edges
    <3>3. alias[a] # alias[b]
      BY <3>2 DEF Apart
    <3>4. \A n \in {a, b} : alias[n] # w => IsColored(alias[n])
      BY <1>1, <1>3, <2>1, <3>1 DEF IsColored
    <3>5. \A n \in {a, b} : alias[n] = w => onlist'[w] = "colored"
      BY <1>1, <1>3, <2>1, <3>1 DEF IsColored
    <3>6. CASE alias[a] # w /\ alias[b] # w
      BY <1>3, <2>1, <3>1, <3>4, <3>6 DEF Round, Colours
    <3>7. CASE alias[a] = w
      <4>1. /\ color'[w] \in okColors(w) /\ IsColored(alias[b])
            /\ color'[alias[b]] = color[alias[b]]
        BY <1>3, <3>1, <3>3, <3>4, <3>5, <3>7
      <4>2. QED
        BY <1>1, <3>1, <3>2, <3>7, <4>1, ColourFits
    <3>8. CASE alias[b] = w
      <4>1. /\ color'[w] \in okColors(w) /\ color'[w] \in Reg /\ IsColored(alias[a])
            /\ color'[alias[a]] = color[alias[a]]
        BY <1>3, <3>1, <3>3, <3>4, <3>5, <3>8
      <4>2. ~ interferes(color'[w], color[alias[a]])
        BY <1>1, <3>1, <3>2, <3>8, <4>1, ColourFits
      <4>3. color[alias[a]] \in Reg
        BY <3>1, <4>1, Kinds DEF Round, Colours, IsColored
      <4>4. QED
        BY <3>8, <4>1, <4>2, <4>3, ConflictSymmetric
    <3>9. QED
      BY <3>6, <3>7, <3>8
  <2>2. \A r \in Reg : color'[r] = r
    BY <1>3, Kinds DEF Round, Colours
  <2>3. \A t \in Temp : onlist'[t] = "colored" => color'[t] \in Reg
    BY <1>3, Kinds DEF Round, Colours
  <2>4. QED
    BY <1>1, <2>1, <2>2, <2>3 DEF Colours
<1>10. QED
  BY <1>4, <1>5, <1>6, <1>7, <1>8, <1>9 DEF Round

LEMMA FinishColorsProper ==
  ASSUME TypeOK, Round, FinishColors
  PROVE  ProperColoring'
<1>1. /\ phase = "color" /\ \A n \in Node : onlist[n] # "select"
      /\ color' = [n \in Node |-> color[alias[n]]]
      /\ onlist' = [n \in Node |->
             IF onlist[n] = "coalesced" /\ onlist[alias[n]] = "spilled"
             THEN "spilled" ELSE onlist[n]]
      /\ graph' = graph
  BY DEF FinishColors, On
<1>2. ASSUME NEW n \in Node, onlist'[n] # "spilled"
      PROVE  IsColored(alias[n]) /\ color'[n] = color[alias[n]] /\ color'[n] \in Reg
  <2>1. alias[n] \in Node /\ alias[alias[n]] = alias[n]
    BY Kinds DEF Round, Aliases
  <2>2. onlist[alias[n]] \notin {"coalesced", "select"}
    BY <1>1, <2>1 DEF Round, Aliases
  <2>3. onlist[alias[n]] # "spilled"
    BY <1>1, <1>2 DEF Round, Aliases
  <2>4. IsColored(alias[n])
    BY <1>1, <2>1, <2>2, <2>3, Kinds DEF Round, Listed, IsColored
  <2>5. color[alias[n]] \in Reg
    BY <2>1, <2>4, Kinds DEF Round, Colours, IsColored
  <2>6. QED
    BY <1>1, <2>4, <2>5
<1>3. QED
  BY <1>1, <1>2, Kinds DEF ProperColoring, Round, Colours

-----------------------------------------------------------------------------
(* Combine.  First what it does to each structure.                         *)

(* The neighbours of v in the graph, and those u is linked with.           *)
Neighbours(v) == {t \in adj[v] : t # v /\ onlist[t] \notin Gone}

Linked(u, v) ==
  IF u \in Temp
  THEN Neighbours(v) \ (adj[u] \cup {u})
  ELSE {t \in Neighbours(v) \cap Temp : u \notin adj[t] /\ aliasmap(cls[t], u) # {}}

LEMMA CombineDoes ==
  ASSUME TypeOK, NEW u \in Node, NEW v \in Temp, NEW q0 \in [Move -> Queues],
         u # v, u \in Temp => u \notin adj[v] /\ onlist[u] \in {"freeze", "spill"},
         \A t \in Temp : onlist[t] \in InGraph \cup Gone, Combine(u, v, q0)
  PROVE  /\ adj' = AdjWith(u, Linked(u, v))
         /\ moveList' = [moveList EXCEPT ![u] = @ \cup moveList[v]]
         /\ alias' = [n \in Node |-> IF alias[n] = v THEN u ELSE alias[n]]
         /\ \A m \in Move : LiveMove(queue', m) <=> LiveMove(q0, m)
         /\ \A m \in Move : queue'[m] = "active" => q0[m] = "active" /\ m \notin moveList[v]
         /\ onlist'[v] = "coalesced"
         /\ \A n \in Node \ {v} :
              /\ onlist'[n] = onlist[n] \/ (onlist[n] \in InGraph /\ onlist'[n] \in InGraph)
              /\ onlist'[n] = "simplify" =>
                   (onlist[n] = "simplify" /\ n # u) \/ ~ MoveRelated(moveList', q0, n)
<1> DEFINE o1 == [onlist EXCEPT ![v] = "coalesced"]
           ml == [moveList EXCEPT ![u] = @ \cup moveList[v]]
           q1 == EnableMoves(q0, ml, {v})
           T  == {t \in adj[v] : o1[t] \notin Gone}
           S  == IF u \in Temp
                 THEN T \ (adj[u] \cup {u})
                 ELSE {t \in T \cap Temp : u \notin adj[t] /\ aliasmap(cls[t], u) # {}}
           a1 == AdjWith(u, S)
           n1 == NclWith(u, S)
           n2 == Decremented(n1, T \cap Temp, cls[v])
           X  == Crossed(T \cap Temp, n1, n2)
           q2 == EnableMoves(q1, ml, AdjOrSelf(a1, o1, X))
           o2 == Relisted(o1, X, ml, q1)
           o3 == IF u \in Temp /\ o2[u] = "freeze" /\ ~ trivially_colorable(u, n2)
                 THEN [o2 EXCEPT ![u] = "spill"] ELSE o2
<1>1. /\ adj' = a1 /\ moveList' = ml /\ queue' = q2
      /\ onlist' = AddWorkList(o3, n2, ml, q2, {u})
      /\ alias' = [n \in Node |-> IF alias[n] = v THEN u ELSE alias[n]]
  BY DEF Combine
<1>2. v \in Node /\ Temp \cap Reg = {} /\ Temp \subseteq Node
  BY Kinds
<1>3. \A n \in Node : o1[n] = IF n = v THEN "coalesced" ELSE onlist[n]
  BY Kinds
<1>4. o1 \in Listing
  BY ExceptType DEF TypeOK, Listing, Lists
<1>5. T = Neighbours(v)
  BY <1>2, <1>3, Kinds DEF Neighbours, Gone
<1>6. S = Linked(u, v)
  BY <1>5 DEF Linked
<1>7. \A x \in X : x \in Temp /\ x # v /\ x # u /\ onlist[x] \in InGraph
  <2>1. X \subseteq T \cap Temp
    BY DEF Crossed
  <2>2. \A x \in T \cap Temp : x # v /\ x # u /\ onlist[x] \in InGraph
    BY <1>2, <1>5 DEF Neighbours
  <2>3. QED
    BY <2>1, <2>2
<1> HIDE DEF X, S, T, n1, n2
<1>8. ml[v] = moveList[v]
  BY <1>2, Kinds
<1>9. \A m \in Move : /\ LiveMove(q1, m) <=> LiveMove(q0, m)
                      /\ q1[m] = "active" => q0[m] = "active" /\ m \notin moveList[v]
  BY <1>2, <1>8 DEF EnableMoves, LiveMove
<1> HIDE DEF q1
<1>10. \A m \in Move : /\ LiveMove(q2, m) <=> LiveMove(q0, m)
                       /\ q2[m] = "active" => q1[m] = "active"
  BY <1>9 DEF EnableMoves, LiveMove
<1> HIDE DEF q2
<1>11. ml \in [Node -> SUBSET Move]
  BY <1>2, Kinds
<1>12. \A n \in Node : /\ MoveRelated(ml, q1, n) <=> MoveRelated(ml, q0, n)
                       /\ MoveRelated(ml, q2, n) <=> MoveRelated(ml, q0, n)
  BY <1>9, <1>10, <1>11 DEF MoveRelated
<1> HIDE DEF ml, o1
<1>13. \A n \in Node : /\ n \notin X => o2[n] = o1[n]
                       /\ n \in X => o2[n] \in {"freeze", "simplify"}
                       /\ n \in X /\ o2[n] = "simplify" => ~ MoveRelated(ml, q1, n)
  BY DEF Relisted
<1>14. o2[u] = onlist[u]
  BY <1>2, <1>3, <1>7, <1>13
<1>15. o2 \in [Node -> Lists]
  <2>1. o1 \in Listing
    BY <1>4
  <2>2. X \cap Reg = {}
    BY <1>2, <1>7
  <2>3. QED
    BY <2>1, <2>2, RelistedType DEF Listing
<1> HIDE DEF o2
<1>16. \A n \in Node : /\ n # u => o3[n] = o2[n]
                       /\ u \in Temp => o3[u] \in {"freeze", "spill"}
                       /\ u \in Reg => o3[u] = o2[u]
  BY <1>2, <1>14, <1>15
<1> HIDE DEF o3
<1>17. /\ \A n \in Node \ {u} : onlist'[n] = o3[n]
       /\ u \in Reg => onlist'[u] = o3[u]
       /\ u \in Temp => /\ onlist'[u] \in {o3[u], "simplify"}
                        /\ onlist'[u] = "simplify" /\ o3[u] # "simplify" => ~ MoveRelated(ml, q2, u)
  BY <1>1, <1>2 DEF AddWorkList
<1>18. onlist'[v] = "coalesced"
  BY <1>2, <1>3, <1>7, <1>13, <1>16, <1>17
<1>19. ASSUME NEW n \in Node \ {v}
       PROVE  /\ onlist'[n] = onlist[n] \/ (onlist[n] \in InGraph /\ onlist'[n] \in InGraph)
              /\ onlist'[n] = "simplify" =>
                   (onlist[n] = "simplify" /\ n # u) \/ ~ MoveRelated(moveList', q0, n)
  <2>1. CASE n = u /\ u \in Temp
    BY <1>1, <1>12, <1>16, <1>17, <2>1 DEF InGraph
  <2>2. CASE n = u /\ u \in Reg
    BY <1>14, <1>16, <1>17, <2>2, Kinds
  <2>3. CASE n # u /\ n \in X
    BY <1>1, <1>7, <1>12, <1>13, <1>16, <1>17, <2>3 DEF InGraph
  <2>4. CASE n # u /\ n \notin X
    BY <1>3, <1>13, <1>16, <1>17, <2>4
  <2>5. QED
    BY <2>1, <2>2, <2>3, <2>4, Kinds
<1>20. QED
  BY <1>1, <1>6, <1>9, <1>10, <1>18, <1>19 DEF ml

(* When u and v may be combined: both are in the graph and not linked.     *)
Combines(u, v, q0) ==
  /\ u \in Node /\ v \in Temp /\ u # v
  /\ alias[u] = u /\ alias[v] = v
  /\ onlist[v] \in InGraph
  /\ u \in Temp => onlist[u] \in {"freeze", "spill"}
  /\ ~ adjSet(u, v)
  /\ cls[u] = cls[v]
  /\ phase = "coalassign" => v \notin Long
  /\ q0 \in [Move -> Queues]
  /\ \A m \in Move : /\ LiveMove(q0, m) => LiveMove(queue, m)
                     /\ q0[m] = "active" => queue[m] = "active"

(* What the edges of v become.                                             *)
LEMMA AdjGrows ==
  ASSUME TypeOK, NEW u \in Node, NEW v \in Temp, adj' = AdjWith(u, Linked(u, v))
  PROVE  /\ \A t \in Temp : adj[t] \subseteq adj'[t]
         /\ u \in Temp => Linked(u, v) \subseteq adj'[u]
         /\ \A t \in Linked(u, v) \cap Temp : u \in adj'[t]
         /\ \A s, t \in Temp : t \in adj'[s] /\ t \notin adj[s] =>
              (s = u /\ t \in Linked(u, v)) \/ (t = u /\ s \in Linked(u, v))
<1>1. \A t \in Temp : adj'[t] = IF t = u THEN adj[t] \cup Linked(u, v)
                                ELSE IF t \in Linked(u, v) THEN adj[t] \cup {u} ELSE adj[t]
  BY DEF AdjWith
<1>2. u \notin Linked(u, v)
  BY Kinds DEF Linked
<1> HIDE DEF Linked
<1>3. QED
  BY <1>1, <1>2

LEMMA CombineMoves ==
  ASSUME TypeOK, Round, NEW u, NEW v, NEW q0, Combines(u, v, q0),
         moveList' = [moveList EXCEPT ![u] = @ \cup moveList[v]],
         alias' = [n \in Node |-> IF alias[n] = v THEN u ELSE alias[n]],
         \A m \in Move : LiveMove(queue', m) <=> LiveMove(q0, m),
         \A m \in Move : queue'[m] = "active" => q0[m] = "active" /\ m \notin moveList[v],
         onlist'[v] = "coalesced",
         \A n \in Node \ {v} :
           /\ onlist'[n] = onlist[n] \/ (onlist[n] \in InGraph /\ onlist'[n] \in InGraph)
           /\ onlist'[n] = "simplify" =>
                (onlist[n] = "simplify" /\ n # u) \/ ~ MoveRelated(moveList', q0, n)
  PROVE  MovesKnown' /\ Deferred' /\ Unmoved'
<1>1. \A m \in Move : LiveMove(queue', m) => LiveMove(queue, m)
  BY DEF Combines
<1>2. \A n \in Node : /\ moveList[n] \subseteq moveList'[n]
                      /\ n # u => moveList'[n] = moveList[n]
                      /\ moveList[v] \subseteq moveList'[u]
                      /\ moveList[n] \subseteq Move
  BY Kinds DEF Combines
<1>3. \A m \in Move : m[1] \in Node /\ m[2] \in Node
  BY DEF Move
<1>4. MovesKnown'
  <2> SUFFICES ASSUME NEW m \in Move, LiveMove(queue', m), NEW k \in {1, 2}
               PROVE  m \in moveList'[alias'[m[k]]]
    BY DEF MovesKnown
  <2>1. m[k] \in Node /\ m \in moveList[alias[m[k]]] /\ alias[m[k]] \in Node
    BY <1>1, <1>3, Kinds DEF Round, MovesKnown
  <2>2. QED
    BY <1>2, <2>1
<1>5. Deferred'
  <2> SUFFICES ASSUME NEW m \in Move, queue'[m] = "active"
               PROVE  alias'[m[1]] \in Temp \/ alias'[m[2]] \in Temp
    BY DEF Deferred
  <2>1. queue[m] = "active" /\ m \notin moveList[v]
    BY DEF Combines
  <2>2. alias[m[1]] # v /\ alias[m[2]] # v
    BY <2>1 DEF Round, MovesKnown, LiveMove
  <2>3. alias[m[1]] \in Temp \/ alias[m[2]] \in Temp
    BY <2>1 DEF Round, Deferred
  <2>4. QED
    BY <1>3, <2>2, <2>3
<1>6. Unmoved'
  <2> SUFFICES ASSUME NEW t \in Temp, onlist'[t] \in {"simplify", "select"}
               PROVE  ~ MoveRelated(moveList', queue', t)
    BY DEF Unmoved
  <2>1. t \in Node /\ t # v
    BY Kinds
  <2>2. (onlist[t] \in {"simplify", "select"} /\ t # u) \/ ~ MoveRelated(moveList', q0, t)
    <3>1. CASE onlist'[t] = "simplify"
      BY <2>1, <3>1
    <3>2. CASE onlist'[t] = "select"
      BY <2>1, <3>2 DEF InGraph, Combines
    <3>3. QED
      BY <3>1, <3>2
  <2>3. CASE ~ MoveRelated(moveList', q0, t)
    <3>1. moveList'[t] \subseteq Move
      BY <1>2, <2>1, Kinds DEF Combines
    <3>2. QED
      BY <2>3, <3>1 DEF MoveRelated
  <2>4. CASE onlist[t] \in {"simplify", "select"} /\ t # u
    <3>1. ~ MoveRelated(moveList, queue, t)
      BY <2>4 DEF Round, Unmoved
    <3>2. moveList'[t] = moveList[t] /\ moveList[t] \subseteq Move
      BY <1>2, <2>1, <2>4
    <3>3. QED
      BY <1>1, <3>1, <3>2 DEF MoveRelated
  <2>5. QED
    BY <2>2, <2>3, <2>4
<1>7. QED
  BY <1>4, <1>5, <1>6

(* v's edges are u's from now on.                                          *)
LEMMA TakesOver ==
  ASSUME TypeOK, Round, phase \in {"coalassign", "loop"},
         NEW u, NEW v, NEW q0, Combines(u, v, q0),
         adj' = AdjWith(u, Linked(u, v)), pos' = pos,
         alias' = [n \in Node |-> IF alias[n] = v THEN u ELSE alias[n]],
         NEW b \in Node, alias[b] = b, b # v, Apart(v, b), Apart(b, v)
  PROVE  Apart(u, b)' /\ Apart(b, u)'
<1> USE DEF Combines
<1>1. /\ \A t \in Temp : adj[t] \subseteq adj'[t]
      /\ u \in Temp => Linked(u, v) \subseteq adj'[u]
      /\ \A t \in Linked(u, v) \cap Temp : u \in adj'[t]
  BY AdjGrows
<1>2. pos[v] = 0 /\ (u \in Temp => pos[u] = 0)
  BY Kinds DEF Round, Stacked, Open, InGraph
<1>3. Temp \cap Reg = {} /\ (b \in Temp \/ b \in Reg) /\ (u \in Temp \/ u \in Reg)
  BY Kinds
<1>4. ASSUME b \in Temp, pos[b] = 0
      PROVE  b \in Neighbours(v)
  <2>1. b \in adj[v]
    BY <1>2, <1>4 DEF Apart, Meets
  <2>2. onlist[b] \notin Gone
    BY <1>4 DEF Round, Aliases, Stacked, Open, Gone
  <2>3. QED
    BY <2>1, <2>2 DEF Neighbours
<1>5. ASSUME b \in Reg, aliasmap(cls[v], b) # {}
      PROVE  b \in Neighbours(v)
  <2>1. b \in adj[v]
    BY <1>2, <1>5 DEF Apart, Meets
  <2>2. onlist[b] = "precolored"
    BY <1>5, Kinds
  <2>3. QED
    BY <2>1, <2>2 DEF Neighbours, Gone
<1>6. u # b
  <2>1. CASE u \in Temp
    BY <1>2, <1>4, <2>1, Kinds DEF Neighbours, adjSet
  <2>2. CASE u \in Reg
    <3>1. ASSUME b = u PROVE FALSE
      <4>1. u \in aliasmap(cls[v], u)
        BY <2>2 DEF aliasmap, classmask, interferes
      <4>2. u \in adj[v]
        BY <1>5, <2>2, <3>1, <4>1 DEF Neighbours
      <4>3. QED
        BY <2>2, <4>2 DEF adjSet, interferes
    <3>2. QED
      BY <3>1
  <2>3. QED
    BY <1>3, <2>1, <2>2
<1>7. CASE u \in Reg /\ b \in Reg
  <2>1. ~ interferes(u, b)
    <3>1. CASE aliasmap(cls[v], b) = {}
      BY <1>7, <3>1 DEF aliasmap, classmask
    <3>2. CASE b \in Neighbours(v)
      <4>1. ~ interferes(b, u)
        BY <1>7, <3>2 DEF Neighbours, adjSet
      <4>2. QED
        BY <1>7, <4>1, ConflictSymmetric
    <3>3. QED
      BY <1>5, <1>7, <3>1, <3>2
  <2>2. ~ interferes(b, u)
    BY <1>7, <2>1, ConflictSymmetric
  <2>3. QED
    BY <1>3, <1>6, <1>7, <2>1, <2>2 DEF Apart
<1>8. CASE u \in Temp /\ b \in Reg
  <2>1. ASSUME aliasmap(cls[u], b) # {}
        PROVE  b \in adj'[u]
    <3>1. b \in Neighbours(v)
      BY <1>5, <1>8, <2>1
    <3>2. b \in adj[u] \/ b \in Linked(u, v)
      BY <1>6, <1>8, <3>1 DEF Linked
    <3>3. QED
      BY <1>1, <1>8, <3>2
  <2>2. QED
    BY <1>2, <1>3, <1>6, <1>8, <2>1 DEF Apart, Meets
<1>9. ASSUME b \in Temp, pos[b] = 0
      PROVE  /\ u \in Temp => b \in adj'[u] /\ u \in adj'[b]
             /\ u \in Reg => aliasmap(cls[b], u) = {} \/ u \in adj'[b]
  <2>1. b \in Neighbours(v)
    BY <1>4, <1>9
  <2>2. ASSUME u \in Temp
        PROVE  b \in adj'[u] /\ u \in adj'[b]
    <3>1. CASE b \in Linked(u, v)
      BY <1>1, <1>9, <2>2, <3>1
    <3>2. CASE b \notin Linked(u, v)
      <4>1. b \in adj[u]
        BY <1>6, <2>1, <2>2, <3>2 DEF Linked
      <4>2. Within(u) /\ Within(b)
        BY <1>2, <1>9, <2>1, <2>2 DEF Within, Neighbours, Gone
      <4>3. u \in adj[b]
        BY <1>9, <2>2, <4>1, <4>2 DEF Round, Symmetric, Open
      <4>4. QED
        BY <1>1, <1>9, <2>2, <4>1, <4>3
    <3>3. QED
      BY <3>1, <3>2
  <2>3. ASSUME u \in Reg, aliasmap(cls[b], u) # {}
        PROVE  u \in adj'[b]
    <3>1. u \in adj[b] \/ b \in Linked(u, v)
      BY <1>3, <1>9, <2>1, <2>3 DEF Linked
    <3>2. QED
      BY <1>1, <1>9, <3>1
  <2>4. QED
    BY <2>2, <2>3
<1>10. ASSUME b \in Temp, pos[b] # 0, Meets(b, v)
       PROVE  Meets(b, u)'
  <2>1. PICK x \in adj[b] : alias[x] = v
    BY <1>10 DEF Meets
  <2>2. x \in Node /\ alias'[x] = u /\ x \in adj'[b]
    BY <1>1, <1>10, <2>1, Kinds
  <2>3. QED
    BY <1>10, <2>2 DEF Meets
<1>11. CASE b \in Temp /\ u \in Temp
  <2>1. Apart(u, b)'
    BY <1>2, <1>3, <1>6, <1>9, <1>11 DEF Apart, Meets
  <2>2. pos[b] # 0 => Meets(b, v)
    BY <1>2, <1>11 DEF Apart
  <2>3. Meets(b, u)'
    BY <1>9, <1>10, <1>11, <2>2 DEF Meets
  <2>4. QED
    BY <1>3, <1>6, <1>11, <2>1, <2>3 DEF Apart
<1>12. CASE b \in Temp /\ u \in Reg
  <2>1. pos[b] # 0 => Meets(b, v)
    BY <1>2, <1>12 DEF Apart
  <2>2. aliasmap(cls[b], u) = {} \/ Meets(b, u)'
    BY <1>9, <1>10, <1>12, <2>1 DEF Meets
  <2>3. QED
    BY <1>3, <1>6, <1>12, <2>2 DEF Apart
<1>13. QED
  BY <1>3, <1>7, <1>8, <1>11, <1>12

LEMMA CombineKeeps ==
  ASSUME TypeOK, Round, phase \in {"coalassign", "loop"}, phase' = phase,
         NEW u, NEW v, NEW q0, Combines(u, v, q0), Combine(u, v, q0)
  PROVE  Round'
<1>1. /\ u \in Node /\ v \in Temp /\ v \in Node /\ u # v /\ alias[u] = u /\ alias[v] = v
      /\ onlist[v] \in InGraph /\ (u \in Temp => onlist[u] \in {"freeze", "spill"})
  BY Kinds DEF Combines
<1>2. /\ adj' = AdjWith(u, Linked(u, v))
      /\ moveList' = [moveList EXCEPT ![u] = @ \cup moveList[v]]
      /\ alias' = [n \in Node |-> IF alias[n] = v THEN u ELSE alias[n]]
      /\ \A m \in Move : LiveMove(queue', m) <=> LiveMove(q0, m)
      /\ \A m \in Move : queue'[m] = "active" => q0[m] = "active" /\ m \notin moveList[v]
      /\ onlist'[v] = "coalesced"
      /\ \A n \in Node \ {v} :
           /\ onlist'[n] = onlist[n] \/ (onlist[n] \in InGraph /\ onlist'[n] \in InGraph)
           /\ onlist'[n] = "simplify" =>
                (onlist[n] = "simplify" /\ n # u) \/ ~ MoveRelated(moveList', q0, n)
  <2>1. \A t \in Temp : onlist[t] \in InGraph \cup Gone
    BY DEF Round, Listed, InGraph, Gone
  <2>2. u \in Temp => u \notin adj[v]
    BY Kinds DEF Combines, adjSet
  <2>3. q0 \in [Move -> Queues]
    BY DEF Combines
  <2>4. QED
    BY <1>1, <2>1, <2>2, <2>3, CombineDoes
<1>3. UNCHANGED <<graph, pos, top, color>>
  BY DEF Combine
<1>4. \A n \in Node : /\ n # v => (onlist'[n] = "coalesced" <=> onlist[n] = "coalesced")
                      /\ onlist'[n] = "select" <=> onlist[n] = "select"
                      /\ IsColored(n)' <=> IsColored(n)
                      /\ onlist'[n] = "colored" <=> onlist[n] = "colored"
  BY <1>1, <1>2 DEF InGraph, IsColored
<1>5. Aliases'
  <2>1. ASSUME NEW n \in Node
        PROVE  /\ alias'[alias'[n]] = alias'[n]
               /\ alias'[n] # n <=> onlist'[n] = "coalesced"
               /\ cls[alias'[n]] = cls[n]
    <3>1. /\ alias[n] \in Node /\ alias[alias[n]] = alias[n] /\ cls[alias[n]] = cls[n]
          /\ alias[n] # n <=> onlist[n] = "coalesced"
      BY Kinds DEF Round, Aliases
    <3>2. CASE alias[n] = v
      <4>1. alias'[n] = u /\ alias'[u] = u /\ cls[u] = cls[v] /\ n # u
        BY <1>1, <1>2, <3>2 DEF Combines
      <4>2. onlist'[n] = "coalesced"
        BY <1>2, <1>4, <3>1, <3>2
      <4>3. QED
        BY <3>1, <3>2, <4>1, <4>2
    <3>3. CASE alias[n] # v
      <4>1. alias'[n] = alias[n] /\ alias'[alias[n]] = alias[n] /\ n # v
        BY <1>1, <1>2, <3>1, <3>3
      <4>2. QED
        BY <1>4, <3>1, <4>1
    <3>4. QED
      BY <3>2, <3>3
  <2>2. QED
    BY <2>1 DEF Aliases
<1>6. Listed'
  <2>1. phase = "coalassign" => v \notin Long
    BY DEF Combines
  <2>2. \A t \in Temp : t \in Node
    BY Kinds
  <2>3. QED
    BY <1>2, <1>3, <1>4, <2>1, <2>2 DEF Round, Listed, InGraph
<1>7. Stacked'
  <2>1. \A t \in Temp : t \in Node
    BY Kinds
  <2>2. QED
    BY <1>3, <1>4, <2>1 DEF Round, Stacked, Open
<1>8. MovesKnown' /\ Deferred' /\ Unmoved'
  BY <1>2, CombineMoves
<1>9. /\ \A t \in Temp : adj[t] \subseteq adj'[t]
      /\ u \in Temp => Linked(u, v) \subseteq adj'[u]
      /\ \A t \in Linked(u, v) \cap Temp : u \in adj'[t]
      /\ \A s, t \in Temp : t \in adj'[s] /\ t \notin adj[s] =>
           (s = u /\ t \in Linked(u, v)) \/ (t = u /\ s \in Linked(u, v))
  BY <1>1, <1>2, AdjGrows
<1>10. Symmetric'
  <2> SUFFICES ASSUME NEW s \in Temp, NEW t \in Temp, Within(s)', Within(t)', t \in adj'[s]
               PROVE  s \in adj'[t]
    BY DEF Symmetric
  <2>1. Within(s) /\ Within(t)
    BY <1>1, <1>3, <1>4, Kinds DEF Within, InGraph
  <2>2. CASE t \in adj[s]
    BY <1>9, <2>1, <2>2 DEF Round, Symmetric, Open
  <2>3. CASE t \notin adj[s]
    BY <1>9, <2>3
  <2>4. QED
    BY <2>2, <2>3
<1>11. Edges'
  <2> SUFFICES ASSUME NEW a \in Node, NEW b \in Node, {a, b} \in graph,
                      NEW c, NEW d, c = alias'[a], d = alias'[b]
               PROVE  Apart(c, d)'
    BY <1>3 DEF Edges
  <2>1. /\ alias[a] \in Node /\ alias[alias[a]] = alias[a]
        /\ alias[b] \in Node /\ alias[alias[b]] = alias[b]
        /\ {b, a} = {a, b}
    BY Kinds DEF Round, Aliases
  <2>2. Apart(alias[a], alias[b]) /\ Apart(alias[b], alias[a])
    BY <2>1 DEF Round, Edges
  <2>3. alias[a] # alias[b]
    BY <2>2 DEF Apart
  <2>4. CASE alias[a] = v
    <3>1. c = u /\ d = alias[b]
      BY <1>2, <2>3, <2>4
    <3>2. QED
      BY <1>2, <1>3, <2>1, <2>2, <2>3, <2>4, <3>1, TakesOver
  <2>5. CASE alias[b] = v
    <3>1. d = u /\ c = alias[a]
      BY <1>2, <2>3, <2>5
    <3>2. QED
      BY <1>2, <1>3, <2>1, <2>2, <2>3, <2>5, <3>1, TakesOver
  <2>6. CASE alias[a] # v /\ alias[b] # v
    <3>1. c = alias[a] /\ d = alias[b] /\ c \in Node /\ d \in Node
      BY <1>2, <2>1, <2>6
    <3>2. \A x \in Node : alias[x] = d => alias'[x] = d
      BY <1>2, <2>6, <3>1
    <3>3. c \in Temp /\ Meets(c, d) => Meets(c, d)'
      BY <1>3, <1>9, <3>1, <3>2, Kinds DEF Meets
    <3>4. QED
      BY <1>3, <2>2, <3>1, <3>3 DEF Apart
  <2>7. QED
    BY <2>4, <2>5, <2>6
<1>12. Colours'
  <2>1. ASSUME NEW a \in Node, NEW b \in Node, {a, b} \in graph,
               NEW c, NEW d, c = alias'[a], d = alias'[b],
               IsColored(c)', IsColored(d)'
        PROVE  ~ interferes(color[c], color[d])
    <3>1. c \in Node /\ d \in Node
      BY <1>1, <1>2, <2>1, Kinds
    <3>2. \A n \in Node : IsColored(n) => n \in Reg /\ color[n] = n
      BY Kinds DEF Round, Listed, Colours, IsColored
    <3>3. c \in Reg /\ color[c] = c /\ d \in Reg /\ color[d] = d
      BY <1>4, <2>1, <3>1, <3>2
    <3>4. Apart(c, d)'
      BY <1>3, <1>11, <2>1 DEF Edges
    <3>5. QED
      BY <3>3, <3>4 DEF Apart
  <2>2. /\ \A r \in Reg : color[r] = r
        /\ \A t \in Temp : onlist'[t] = "colored" => color[t] \in Reg
    BY <1>4, Kinds DEF Round, Colours
  <2>3. QED
    BY <1>3, <2>1, <2>2 DEF Colours
<1>13. QED
  BY <1>5, <1>6, <1>7, <1>8, <1>10, <1>11, <1>12 DEF Round

LEMMA coalasgCombines ==
  ASSUME TypeOK, Round, NEW u \in Node, NEW v \in Temp, coalasg(u, v)
  PROVE  Combines(u, v, queue)
<1>1. /\ phase = "coalassign" /\ v \notin Long /\ u \in Long \cup Reg
      /\ onlist[v] # "coalesced" /\ ~ adjSet(u, v)
  BY DEF coalasg
<1>2. PICK m \in moveList[v] : queue[m] = "wlist" /\ {m[1], m[2]} = {u, v}
  BY DEF coalasg
<1>3. m \in Move /\ v \in Node /\ u # v /\ LiveMove(queue, m) /\ cls[u] = cls[v]
  <2>1. v \in Node /\ m \in Move
    BY <1>2, Kinds
  <2>2. m[1] # m[2] /\ cls[m[1]] = cls[m[2]]
    BY <2>1 DEF Move
  <2>3. QED
    BY <1>2, <2>1, <2>2 DEF LiveMove
<1>4. alias[u] = u /\ alias[v] = v
  <2>1. onlist[u] # "coalesced"
    BY <1>1, Kinds, KindsAssumption DEF Round, Listed
  <2>2. QED
    BY <1>1, <1>3, <2>1 DEF Round, Aliases
<1>5. \A n \in {u, v} : n \in Temp => onlist[n] \in {"freeze", "spill"}
  <2> SUFFICES ASSUME NEW n \in {u, v}, n \in Temp
               PROVE  onlist[n] \in {"freeze", "spill"}
    OBVIOUS
  <2>1. PICK k \in 1 .. 2 : m[k] = n
    BY <1>2
  <2>2. QED
    BY <1>1, <1>3, <1>4, <2>1, EndsWithin
<1>6. QED
  BY <1>1, <1>3, <1>4, <1>5, Kinds DEF Combines, InGraph

LEMMA coalasgKeeps ==
  ASSUME TypeOK, Round, NEW u \in Node, NEW v \in Temp, coalasg(u, v)
  PROVE  Round'
<1>1. phase = "coalassign" /\ phase' = phase /\ Combine(u, v, queue)
  BY DEF coalasg
<1>2. QED
  BY <1>1, coalasgCombines, CombineKeeps

LEMMA CoalesceCombines ==
  ASSUME TypeOK, Round, NEW m \in Move, CoalesceCombine(m)
  PROVE  Combines(EndU(m), EndV(m), [queue EXCEPT ![m] = "coal"])
<1> DEFINE u == EndU(m)
           v == EndV(m)
           q0 == [queue EXCEPT ![m] = "coal"]
<1>1. phase = "loop" /\ queue[m] = "wlist" /\ u # v /\ v \in Temp /\ ~ adjSet(u, v)
  BY DEF CoalesceCombine, MayCoalesce, Constrained
<1>2. LiveMove(queue, m)
  BY <1>1 DEF LiveMove
<1>3. \A n \in {u, v} : n \in Node /\ alias[n] = n /\ (n \in Temp => onlist[n] \in {"freeze", "spill"})
  BY <1>1, <1>2, EndsOfMove
<1>4. cls[u] = cls[v]
  BY <1>1, <1>2, EndsOfMove
<1>5. /\ q0 \in [Move -> Queues]
      /\ \A x \in Move : /\ LiveMove(q0, x) => LiveMove(queue, x)
                         /\ q0[x] = "active" => queue[x] = "active"
  BY Kinds DEF LiveMove, Queues
<1> HIDE DEF u, v, q0
<1>6. Combines(u, v, q0)
  BY <1>1, <1>3, <1>4, <1>5 DEF Combines, InGraph
<1>7. QED
  BY <1>6 DEF u, v, q0

LEMMA CoalesceCombineKeeps ==
  ASSUME TypeOK, Round, NEW m \in Move, CoalesceCombine(m)
  PROVE  Round'
<1>1. /\ phase = "loop" /\ phase' = phase
      /\ Combine(EndU(m), EndV(m), [queue EXCEPT ![m] = "coal"])
  BY DEF CoalesceCombine, MayCoalesce
<1>2. QED
  BY <1>1, CoalesceCombines, CombineKeeps

-----------------------------------------------------------------------------
(* Every step, and the theorems.                                           *)

LEMMA InitAInv == Init => AInv
<1>1. Init => ProperColoring /\ EveryMoveDecided
  BY DEF Init, ProperColoring, EveryMoveDecided
<1>2. QED
  BY <1>1, InitType, InitRound DEF AInv

LEMMA OnTheWay ==
  ASSUME TypeOK', Round', phase' \in {"build", "coalassign", "loop"}
  PROVE  AInv'
  BY DEF AInv, ProperColoring, EveryMoveDecided

LEMMA StutterKeeps ==
  ASSUME AInv, UNCHANGED vars, TypeOK'
  PROVE  AInv'
<1>1. ProperColoring' /\ EveryMoveDecided'
  BY DEF AInv, vars, ProperColoring, EveryMoveDecided, LiveMove
<1>2. CASE phase # "done"
  <2>1. Edges'
    BY <1>2, EdgesStay DEF AInv, Round, vars
  <2>2. MovesKnown' /\ Unmoved' /\ Deferred'
    BY <1>2 DEF AInv, Round, vars, MovesKnown, Unmoved, Deferred, LiveMove, MoveRelated
  <2>3. Aliases' /\ Listed' /\ Stacked'
    BY <1>2 DEF AInv, Round, vars, Aliases, Listed, Stacked, Open
  <2>4. Symmetric' /\ Colours'
    BY <1>2 DEF AInv, Round, vars, Symmetric, Within, Open, Colours, IsColored
  <2>5. QED
    BY <1>1, <2>1, <2>2, <2>3, <2>4 DEF AInv, Round
<1>3. CASE phase = "done"
  BY <1>1, <1>3 DEF AInv, vars
<1>4. QED
  BY <1>2, <1>3

LEMMA NextAInv ==
  ASSUME AInv, [Next]_vars
  PROVE  AInv'
<1>1. TypeOK /\ TypeOK'
  BY NextType DEF AInv
<1>2. phase # "done" => Round
  BY DEF AInv
<1>3. CASE Build
  <2>1. phase = "build" /\ phase' = phase
    BY <1>3 DEF Build, AddEdge, moveadd
  <2>2. Round'
    BY <1>1, <1>2, <1>3, <2>1, AddEdgeKeeps, moveaddKeeps DEF Build
  <2>3. QED
    BY <1>1, <2>1, <2>2, OnTheWay
<1>4. CASE MkWorklist
  BY <1>1, <1>2, <1>4, MkWorklistKeeps, OnTheWay DEF MkWorklist
<1>5. CASE \E u \in Node, v \in Temp : coalasg(u, v)
  <2>1. phase = "coalassign" /\ phase' = phase
    BY <1>5 DEF coalasg
  <2>2. QED
    BY <1>1, <1>2, <1>5, <2>1, coalasgKeeps, OnTheWay
<1>6. CASE StartLoop
  BY <1>1, <1>2, <1>6, StartLoopKeeps, OnTheWay DEF StartLoop
<1>7. ASSUME NEW t \in Temp, Simplify(t) \/ Freeze(t) \/ SelectSpill(t)
      PROVE  AInv'
  <2>1. phase = "loop" /\ phase' = phase
    BY <1>7 DEF Simplify, Freeze, SelectSpill, MaySpill, MayFreeze, MayCoalesce
  <2>2. QED
    BY <1>1, <1>2, <1>7, <2>1, SimplifyKeeps, FreezeKeeps, OnTheWay
<1>8. ASSUME NEW t \in Temp, AssignColor(t)
      PROVE  AInv'
  <2>1. phase = "color" /\ phase' = phase /\ queue' = queue
    BY <1>8 DEF AssignColor
  <2>2. Round'
    BY <1>1, <1>2, <1>8, <2>1, AssignColorKeeps
  <2>3. ProperColoring' /\ EveryMoveDecided'
    BY <2>1 DEF AInv, ProperColoring, EveryMoveDecided, LiveMove
  <2>4. QED
    BY <1>1, <2>2, <2>3 DEF AInv
<1>9. CASE Coalesce
  <2>1. PICK m \in Move : \/ CoalesceSame(m) \/ CoalesceConstrained(m)
                          \/ CoalesceCombine(m) \/ CoalesceDefer(m)
    BY <1>9 DEF Coalesce
  <2>2. phase = "loop" /\ phase' = phase
    BY <2>1 DEF CoalesceSame, CoalesceConstrained, CoalesceCombine, CoalesceDefer, MayCoalesce
  <2>3. Round'
    <3>1. CASE CoalesceSame(m)
      BY <1>1, <1>2, <2>2, <3>1, CoalesceSameKeeps, QuietKeeps
    <3>2. CASE CoalesceConstrained(m)
      BY <1>1, <1>2, <2>2, <3>2, CoalesceConstrainedKeeps, QuietKeeps
    <3>3. CASE CoalesceCombine(m)
      BY <1>1, <1>2, <2>2, <3>3, CoalesceCombineKeeps
    <3>4. CASE CoalesceDefer(m)
      BY <1>1, <1>2, <2>2, <3>4, CoalesceDeferKeeps
    <3>5. QED
      BY <2>1, <3>1, <3>2, <3>3, <3>4
  <2>4. QED
    BY <1>1, <2>2, <2>3, OnTheWay
<1>10. CASE EndLoop
  <2>1. phase = "loop" /\ phase' = "color"
    BY <1>10 DEF EndLoop, MaySpill, MayFreeze, MayCoalesce
  <2>2. Round' /\ EveryMoveDecided'
    BY <1>1, <1>2, <1>10, <2>1, EndLoopKeeps
  <2>3. QED
    BY <1>1, <2>1, <2>2 DEF AInv, ProperColoring
<1>11. CASE FinishColors
  <2>1. phase = "color" /\ phase' = "done" /\ queue' = queue
    BY <1>11 DEF FinishColors
  <2>2. ProperColoring'
    BY <1>1, <1>2, <1>11, <2>1, FinishColorsProper
  <2>3. EveryMoveDecided'
    BY <2>1 DEF AInv, EveryMoveDecided, LiveMove
  <2>4. QED
    BY <1>1, <2>1, <2>2, <2>3 DEF AInv
<1>12. CASE Finished \/ UNCHANGED vars
  BY <1>1, <1>12, StutterKeeps DEF Finished
<1>13. QED
  BY <1>3, <1>4, <1>5, <1>6, <1>7, <1>8, <1>9, <1>10, <1>11, <1>12 DEF Next

LEMMA Invariance == Spec => []AInv
  BY InitAInv, NextAInv, PTL DEF Spec

(* No step takes a node off the stack before its turn, or moves it there.  *)
LEMMA StackKept ==
  ASSUME AInv, AInv', [Next]_vars, NEW t \in Temp, onlist[t] = "select"
  PROVE  \/ onlist'[t] = "select" /\ pos'[t] = pos[t]
         \/ phase = "color" /\ \A x \in Temp : onlist[x] = "select" => pos[x] <= pos[t]
<1>1. CASE Open /\ Open'
  <2>1. pos[t] # 0
    BY <1>1 DEF AInv, Round, Stacked, Open
  <2>2. pos'[t] = pos[t]
    <3>1. ASSUME NEW w \in Temp, Simplify(w)
          PROVE  pos'[t] = pos[t]
      BY <3>1, Kinds DEF Simplify, AInv
    <3>2. CASE \A w \in Temp : ~ Simplify(w)
      <4>1. \A u, v, q0 : Combine(u, v, q0) => pos' = pos
        BY DEF Combine
      <4>2. Build \/ MkWorklist \/ StartLoop \/ EndLoop \/ FinishColors => pos' = pos
        BY DEF Build, AddEdge, moveadd, MkWorklist, StartLoop, EndLoop, FinishColors
      <4>3. \A w \in Temp : Freeze(w) \/ SelectSpill(w) \/ AssignColor(w) => pos' = pos
        BY DEF Freeze, SelectSpill, AssignColor
      <4>4. \A u \in Node, v \in Temp : coalasg(u, v) => pos' = pos
        BY <4>1 DEF coalasg
      <4>5. Coalesce => pos' = pos
        BY <4>1 DEF Coalesce, CoalesceSame, CoalesceConstrained, CoalesceCombine, CoalesceDefer
      <4>6. Finished \/ UNCHANGED vars => pos' = pos
        BY DEF Finished, vars
      <4>7. QED
        BY <3>2, <4>2, <4>3, <4>4, <4>5, <4>6 DEF Next
    <3>3. QED
      BY <3>1, <3>2
  <2>3. onlist'[t] = "select"
    BY <1>1, <2>1, <2>2 DEF AInv, Round, Stacked, Open
  <2>4. QED
    BY <2>2, <2>3
<1>2. CASE EndLoop \/ UNCHANGED vars \/ Finished
  BY <1>2 DEF EndLoop, vars, Finished
<1>3. ASSUME NEW w \in Temp, AssignColor(w)
      PROVE  \/ onlist'[t] = "select" /\ pos'[t] = pos[t]
             \/ phase = "color" /\ \A x \in Temp : onlist[x] = "select" => pos[x] <= pos[t]
  <2>1. CASE w = t
    BY <1>3, <2>1 DEF AssignColor, Popped
  <2>2. CASE w # t
    BY <1>3, <2>2, Kinds DEF AssignColor, AInv
  <2>3. QED
    BY <2>1, <2>2
<1>4. CASE FinishColors
  BY <1>4, Kinds DEF FinishColors, On, AInv
<1>5. \/ (Open /\ Open') \/ EndLoop \/ UNCHANGED vars \/ Finished \/ FinishColors
      \/ \E w \in Temp : AssignColor(w)
  BY DEF Next, Build, AddEdge, moveadd, MkWorklist, coalasg, StartLoop, Simplify,
     Freeze, SelectSpill, Coalesce, CoalesceSame, CoalesceConstrained, CoalesceCombine,
     CoalesceDefer, MaySpill, MayFreeze, MayCoalesce, Open
<1>6. QED
  BY <1>1, <1>2, <1>3, <1>4, <1>5

(* Whatever the target, the interference graph and the moves, and in       *)
(* whatever order nodes are simplified, coalesced, frozen and spilled: two *)
(* nodes that are live together and both get a register do not share       *)
(* storage.                                                                *)
THEOREM NeighboursApart == Spec => []ProperColoring
<1>1. AInv => ProperColoring
  BY DEF AInv
<1>2. QED
  BY <1>1, Invariance, PTL

(* No move is left on worklistMoves or activeMoves when the colours are    *)
(* assigned.                                                               *)
THEOREM MovesDecided == Spec => []EveryMoveDecided
<1>1. AInv => EveryMoveDecided
  BY DEF AInv
<1>2. QED
  BY <1>1, Invariance, PTL

(* A node that Simplify pushed is not touched until AssignColors pops it,  *)
(* and it pops the last one first.                                         *)
THEOREM LastPushedFirst == Spec => StackIsLIFO
<1>1. AInv /\ AInv' /\ [Next]_vars =>
        [\A t \in Temp : onlist[t] = "select" =>
           \/ onlist'[t] = "select" /\ pos'[t] = pos[t]
           \/ phase = "color" /\ \A x \in Temp : onlist[x] = "select" => pos[x] <= pos[t]]_vars
  BY StackKept
<1>2. QED
  BY <1>1, Invariance, PTL DEF Spec, StackIsLIFO

-----------------------------------------------------------------------------
(* The loop of ngenregs uses something up in every step.                   *)

(* Who is in the graph, when the steps only move nodes between worklists.  *)
LEMMA RelistsInPlay ==
  ASSUME TypeOK, Relists
  PROVE  InPlay' = InPlay
  BY Kinds DEF Relists, InPlay, InGraph, Gone

(* A step that only settles or defers one pending move.                    *)
LEMMA OneLessPending ==
  ASSUME TypeOK, NEW m \in Move, queue[m] = "wlist", NEW q, q # "wlist",
         queue' = [queue EXCEPT ![m] = q]
  PROVE  Shrinks(Pending, Pending')
  BY Kinds DEF Pending, Shrinks

LEMMA CoalesceAdvances ==
  ASSUME TypeOK, Round, NEW m \in Move,
         CoalesceSame(m) \/ CoalesceConstrained(m) \/ CoalesceDefer(m)
  PROVE  InPlay' = InPlay /\ Shrinks(Pending, Pending')
<1>1. CASE CoalesceSame(m)
  <2>1. queue[m] = "wlist" /\ queue' = [queue EXCEPT ![m] = "coal"]
    BY <1>1 DEF CoalesceSame
  <2>2. QED
    BY <1>1, <2>1, CoalesceSameKeeps, RelistsInPlay, OneLessPending
<1>2. CASE CoalesceConstrained(m)
  <2>1. queue[m] = "wlist" /\ queue' = [queue EXCEPT ![m] = "constr"]
    BY <1>2 DEF CoalesceConstrained
  <2>2. QED
    BY <1>2, <2>1, CoalesceConstrainedKeeps, RelistsInPlay, OneLessPending
<1>3. CASE CoalesceDefer(m)
  <2>1. /\ queue[m] = "wlist" /\ queue' = [queue EXCEPT ![m] = "active"]
        /\ onlist' = onlist
    BY <1>3 DEF CoalesceDefer
  <2>2. QED
    BY <2>1, OneLessPending DEF InPlay
<1>4. QED
  BY <1>1, <1>2, <1>3

(* Combine takes one node out of the graph and brings none back.           *)
LEMMA CombineAdvances ==
  ASSUME TypeOK, Round, NEW m \in Move, CoalesceCombine(m)
  PROVE  Shrinks(InPlay, InPlay')
<1> DEFINE u == EndU(m)
           v == EndV(m)
           q0 == [queue EXCEPT ![m] = "coal"]
<1>1. Combines(u, v, q0)
  BY CoalesceCombines
<1>2. phase = "loop" /\ Combine(u, v, q0)
  BY DEF CoalesceCombine, MayCoalesce
<1> HIDE DEF u, v, q0
<1>3. u \in Temp => u \notin adj[v]
  <2>1. u \in Temp => u \notin Reg
    BY Kinds
  <2>2. QED
    BY <1>1, <2>1 DEF Combines, adjSet
<1>4. \A t \in Temp : onlist[t] \in InGraph \cup Gone
  BY <1>2 DEF Round, Listed, InGraph, Gone
<1>5. /\ onlist'[v] = "coalesced"
      /\ \A n \in Node \ {v} :
           onlist'[n] = onlist[n] \/ (onlist[n] \in InGraph /\ onlist'[n] \in InGraph)
  BY <1>1, <1>2, <1>3, <1>4, CombineDoes DEF Combines
<1>6. v \in InPlay /\ v \notin InPlay'
  BY <1>1, <1>5 DEF Combines, InPlay, InGraph, Gone
<1>7. InPlay' \subseteq InPlay
  BY <1>5, <1>6, Kinds DEF InPlay, InGraph, Gone
<1>8. QED
  BY <1>6, <1>7 DEF Shrinks

(* Simplify pushes one and puts none back.                                 *)
LEMMA SimplifyAdvances ==
  ASSUME TypeOK, Round, NEW w \in Temp, Simplify(w)
  PROVE  Shrinks(InPlay, InPlay')
<1> DEFINE o1 == [onlist EXCEPT ![w] = "select"]
           T  == {t \in adj[w] \cap Temp : o1[t] \notin Gone}
           X  == Crossed(T, ncl, Decremented(ncl, T, cls[w]))
<1>1. /\ onlist[w] = "simplify"
      /\ onlist' = Relisted(o1, X, moveList, queue)
  BY DEF Simplify
<1>2. \A x \in X : onlist[x] \notin Gone /\ x # w
  <2>1. w \in Node /\ o1[w] = "select"
    BY Kinds
  <2>2. \A x \in T : x # w /\ onlist[x] \notin Gone
    BY <2>1, Kinds DEF Gone
  <2>3. QED
    BY <2>2 DEF Crossed
<1> HIDE DEF X, T
<1>3. \A n \in Node : o1[n] = IF n = w THEN "select" ELSE onlist[n]
  BY Kinds
<1> HIDE DEF o1
<1>4. onlist'[w] = "select"
  BY <1>1, <1>2, <1>3, Kinds DEF Relisted
<1>5. \A t \in Temp : t \notin X \cup {w} => onlist'[t] = onlist[t]
  BY <1>1, <1>3, Kinds DEF Relisted
<1>6. w \in InPlay /\ w \notin InPlay'
  BY <1>1, <1>4 DEF InPlay, Gone
<1>7. InPlay' \subseteq InPlay
  BY <1>2, <1>5, <1>6 DEF InPlay
<1>8. QED
  BY <1>6, <1>7 DEF Shrinks

(* Freeze and SelectSpill run when no move is pending, and make none so.   *)
LEMMA FreezeAdvances ==
  ASSUME TypeOK, Round, NEW u \in Temp, Freeze(u) \/ SelectSpill(u)
  PROVE  InPlay' = InPlay /\ Pending' = Pending /\ Shrinks(Waiting, Waiting')
<1> DEFINE F  == {m \in moveList[u] : LiveMove(queue, m)}
           q1 == [m \in Move |-> IF m \in F THEN "frozen" ELSE queue[m]]
           partner(m) == IF alias[m[2]] = alias[u] THEN alias[m[1]] ELSE alias[m[2]]
           Z  == {z \in {partner(m) : m \in F} :
                    z # u /\ onlist[z] = "freeze" /\ ~ MoveRelated(moveList, q1, z)}
<1>1. FreezeMoves(u) /\ Pending = {} /\ moveList' = moveList
  BY DEF Freeze, SelectSpill, MayFreeze, MaySpill
<1>2. onlist[u] \in {"freeze", "spill"}
  BY DEF Freeze, SelectSpill, EasyFreeze, SpillCandidates, On
<1>3. /\ queue' = q1
      /\ onlist' = [n \in Node |-> IF n \in Z \cup {u} THEN "simplify" ELSE onlist[n]]
  BY <1>1 DEF FreezeMoves
<1>4. Pending' = {}
  BY <1>1, <1>3 DEF Pending
<1> HIDE DEF F, q1, Z
<1>5. InPlay' = InPlay
  BY <1>1, <1>2, FreezeMovesKeeps, RelistsInPlay
<1>6. u \in Waiting /\ u \notin Waiting'
  BY <1>2, <1>3, Kinds DEF Waiting, On
<1>7. Waiting' \subseteq Waiting
  BY <1>3 DEF Waiting, On
<1>8. QED
  BY <1>1, <1>4, <1>5, <1>6, <1>7 DEF Shrinks

(* Whatever the target, the graph and the moves, every step of the loop    *)
(* takes a node out of the graph, or else a move off worklistMoves, or     *)
(* else a node off freezeWorklist or spillWorklist, and undoes nothing of  *)
(* higher rank: the loop has no way to go round in circles.                *)
THEOREM LoopNeverCircles == Spec => LoopAdvances
<1>1. ASSUME AInv, [Next]_vars, phase = "loop", phase' = "loop", ~ UNCHANGED vars
      PROVE  \/ Shrinks(InPlay, InPlay')
             \/ InPlay' = InPlay /\ Shrinks(Pending, Pending')
             \/ InPlay' = InPlay /\ Pending' = Pending /\ Shrinks(Waiting, Waiting')
  <2>1. TypeOK /\ Round
    BY <1>1 DEF AInv
  <2>2. \/ \E t \in Temp : Simplify(t) \/ Freeze(t) \/ SelectSpill(t)
        \/ Coalesce
    BY <1>1 DEF Next, Build, AddEdge, moveadd, MkWorklist, coalasg, StartLoop,
       AssignColor, EndLoop, FinishColors, Finished
  <2>3. QED
    BY <2>1, <2>2, SimplifyAdvances, FreezeAdvances, CoalesceAdvances, CombineAdvances
       DEF Coalesce
<1>2. QED
  BY <1>1, Invariance, PTL DEF Spec, LoopAdvances

-----------------------------------------------------------------------------
(* The counts of r_nclass.  They hold what is left of the neighbours by    *)
(* class, from Build on.                                                   *)

Left(a, o, t, c) == {n \in a[t] : o[n] \notin Gone /\ cls[n] = c}

Counts ==
  Open => \A t \in Temp, c \in Class :
            onlist[t] \notin Gone => ncl[t][c] = Cardinality(Left(adj, onlist, t, c))

LEMMA SomeNodes ==
  ASSUME NEW S \in SUBSET Node
  PROVE  IsFiniteSet(S) /\ Cardinality(S) \in Nat
<1>1. IsFiniteSet(Node)
  BY NodesAssumption, FS_Union DEF Node
<1>2. QED
  BY <1>1, FS_Subset, FS_CardinalityType

LEMMA LeftNodes ==
  ASSUME TypeOK, NEW t \in Temp, NEW c
  PROVE  /\ Left(adj, onlist, t, c) \in SUBSET Node
         /\ IsFiniteSet(Left(adj, onlist, t, c))
         /\ Cardinality(Left(adj, onlist, t, c)) \in Nat
<1>1. Left(adj, onlist, t, c) \in SUBSET Node
  BY Kinds DEF Left
<1>2. QED
  BY <1>1, SomeNodes

LEMMA InitCounts ==
  ASSUME Init
  PROVE  Counts
<1> SUFFICES ASSUME NEW t \in Temp, NEW c \in Class
             PROVE  ncl[t][c] = Cardinality(Left(adj, onlist, t, c))
  BY DEF Counts
<1>1. ncl[t][c] = 0 /\ Left(adj, onlist, t, c) = {}
  BY DEF Init, Left
<1>2. QED
  BY <1>1, FS_EmptySet

LEMMA AddEdgeCounts ==
  ASSUME TypeOK, TypeOK', Round, Counts, NEW u \in Temp, NEW v \in Temp \cup Touched,
         AddEdge(u, v)
  PROVE  Counts'
<1> SUFFICES ASSUME NEW t \in Temp, NEW c \in Class
             PROVE  ncl'[t][c] = Cardinality(Left(adj', onlist', t, c))
  BY DEF Counts
<1>1. /\ phase = "build" /\ u # v /\ u \in Node /\ v \in Node /\ v \notin adj[u]
      /\ adj' = AdjWith(u, {v}) /\ ncl' = NclWith(u, {v}) /\ onlist' = onlist
  BY KindsAssumption DEF AddEdge, Node
<1>2. \A n \in Node : onlist[n] \notin Gone
  BY <1>1, Kinds DEF Round, Listed, Gone
<1>3. ASSUME v \in Temp
      PROVE  u \notin adj[v]
  BY <1>1, <1>2, <1>3, Kinds DEF Round, Symmetric, Stacked, Listed, Within, Open, Gone
<1> DEFINE L == Left(adj, onlist, t, c)
<1>4. ncl[t][c] = Cardinality(L) /\ IsFiniteSet(L) /\ Cardinality(L) \in Nat
  BY <1>1, <1>2, Kinds, LeftNodes DEF Counts, Open
<1>5. adj'[t] = IF t = u THEN adj[t] \cup {v} ELSE IF t = v THEN adj[t] \cup {u} ELSE adj[t]
  BY <1>1 DEF AdjWith
<1>6. Cardinality({s \in {v} : cls[s] = c}) = IF cls[v] = c THEN 1 ELSE 0
  <2>1. {s \in {v} : cls[s] = c} = IF cls[v] = c THEN {v} ELSE {}
    OBVIOUS
  <2>2. QED
    BY <2>1, FS_Singleton, FS_EmptySet
<1>7. ncl'[t][c] = ncl[t][c] + (IF t = u THEN IF cls[v] = c THEN 1 ELSE 0
                                ELSE IF t = v /\ cls[u] = c THEN 1 ELSE 0)
  <2> DEFINE count(d) == Cardinality({s \in {v} : cls[s] = d})
  <2>1. ncl'[t][c] = ncl[t][c] + (IF t = u THEN count(c)
                                  ELSE IF t \in {v} /\ cls[u] = c THEN 1 ELSE 0)
    BY <1>1 DEF NclWith
  <2>2. QED
    BY <1>6, <2>1
<1>8. CASE t = u /\ cls[v] = c
  <2>1. Left(adj', onlist', t, c) = L \cup {v} /\ v \notin L
    BY <1>1, <1>2, <1>5, <1>8 DEF Left
  <2>2. Cardinality(L \cup {v}) = Cardinality(L) + 1
    BY <1>4, <2>1, FS_AddElement
  <2>3. ncl'[t][c] = ncl[t][c] + 1
    BY <1>7, <1>8
  <2>4. QED
    BY <1>4, <2>1, <2>2, <2>3
<1>9. CASE t = v /\ cls[u] = c
  <2>1. Left(adj', onlist', t, c) = L \cup {u} /\ u \notin L
    BY <1>1, <1>2, <1>3, <1>5, <1>9 DEF Left
  <2>2. Cardinality(L \cup {u}) = Cardinality(L) + 1
    BY <1>4, <2>1, FS_AddElement
  <2>3. ncl'[t][c] = ncl[t][c] + 1
    BY <1>1, <1>7, <1>9
  <2>4. QED
    BY <1>4, <2>1, <2>2, <2>3
<1>10. CASE ~ (t = u /\ cls[v] = c) /\ ~ (t = v /\ cls[u] = c)
  <2>1. Left(adj', onlist', t, c) = L
    BY <1>1, <1>5, <1>10 DEF Left
  <2>2. ncl'[t][c] = ncl[t][c]
    BY <1>4, <1>7, <1>10
  <2>3. QED
    BY <1>4, <2>1, <2>2
<1>11. QED
  BY <1>8, <1>9, <1>10

(* Steps that take no node out of the graph and leave its edges alone.     *)
LEMMA SameCounts ==
  ASSUME TypeOK, Counts, Open, adj' = adj, ncl' = ncl,
         \A n \in Node : onlist'[n] \in Gone <=> onlist[n] \in Gone
  PROVE  Counts'
<1>1. ASSUME NEW t \in Temp, NEW c \in Class
      PROVE  Left(adj', onlist', t, c) = Left(adj, onlist, t, c)
  BY Kinds DEF Left
<1>2. QED
  BY <1>1, Kinds DEF Counts

LEMMA SimplifyCounts ==
  ASSUME TypeOK, Round, Counts, NEW w \in Temp, Simplify(w)
  PROVE  Counts'
<1> DEFINE o1 == [onlist EXCEPT ![w] = "select"]
           T  == {t \in adj[w] \cap Temp : o1[t] \notin Gone}
           n2 == Decremented(ncl, T, cls[w])
           X  == Crossed(T, ncl, n2)
<1>1. /\ phase = "loop" /\ onlist[w] = "simplify" /\ ncl' = n2 /\ adj' = adj
      /\ onlist' = Relisted(o1, X, moveList, queue) /\ w \in Node /\ w \notin adj[w]
  BY Kinds DEF Simplify, TypeOK
<1>2. T = {t \in adj[w] \cap Temp : onlist[t] \notin Gone}
  BY <1>1, Kinds
<1>3. X \subseteq T
  BY DEF Crossed
<1> HIDE DEF T, X
<1>4. \A n \in Node : onlist'[n] \in Gone <=> onlist[n] \in Gone \/ n = w
  <2>1. \A n \in Node : o1[n] = IF n = w THEN "select" ELSE onlist[n]
    BY Kinds
  <2>2. \A n \in Node : n \in X => onlist'[n] \in {"freeze", "simplify"}
    BY <1>1 DEF Relisted
  <2>3. \A n \in Node : n \notin X => onlist'[n] = o1[n]
    BY <1>1 DEF Relisted
  <2>4. QED
    BY <1>1, <1>2, <1>3, <2>1, <2>2, <2>3 DEF Gone
<1> SUFFICES ASSUME NEW t \in Temp, NEW c \in Class, onlist'[t] \notin Gone
             PROVE  ncl'[t][c] = Cardinality(Left(adj', onlist', t, c))
  BY DEF Counts
<1> DEFINE L == Left(adj, onlist, t, c)
<1>5. t \in Node /\ t # w /\ onlist[t] \notin Gone /\ cls[w] \in Class
  BY <1>4, Kinds, NodesAssumption
<1>6. ncl[t][c] = Cardinality(L) /\ IsFiniteSet(L) /\ Cardinality(L) \in Nat
  BY <1>1, <1>5, LeftNodes DEF Counts, Open
<1>7. w \in adj[t] <=> t \in T
  <2>1. Within(t) /\ Within(w)
    BY <1>1, <1>5 DEF Round, Stacked, Open, Within, Gone
  <2>2. QED
    BY <1>1, <1>2, <1>5, <2>1 DEF Round, Symmetric, Open
<1>8. Left(adj', onlist', t, c) = L \ {w}
  BY <1>1, <1>4, Kinds DEF Left
<1>9. w \in L <=> t \in T /\ cls[w] = c
  BY <1>1, <1>7 DEF Left, Gone
<1>10. ncl[t] \in [Class -> Nat]
  BY DEF TypeOK
<1>11. ncl'[t][c] = IF t \in T /\ cls[w] = c /\ ncl[t][c] > 0 THEN ncl[t][c] - 1 ELSE ncl[t][c]
  BY <1>1, <1>5, <1>10 DEF Decremented
<1>12. w \in L => Cardinality(L) # 0
  BY <1>6, FS_EmptySet
<1>13. Cardinality(L \ {w}) = IF w \in L THEN Cardinality(L) - 1 ELSE Cardinality(L)
  BY <1>6, FS_RemoveElement
<1> HIDE DEF L
<1>14. QED
  BY <1>6, <1>8, <1>9, <1>11, <1>12, <1>13


LEMMA CombineCounts ==
  ASSUME TypeOK, TypeOK', Round, Counts, phase \in {"coalassign", "loop"}, phase' = phase,
         NEW u, NEW v, NEW q0, Combines(u, v, q0), Combine(u, v, q0)
  PROVE  Counts'
<1> DEFINE T == Neighbours(v) \cap Temp
           S == Linked(u, v)
<1>1. /\ u \in Node /\ v \in Temp /\ v \in Node /\ u # v /\ onlist[v] \in InGraph
      /\ onlist[u] \notin Gone /\ cls[u] = cls[v] /\ cls[v] \in Class
      /\ u \notin adj[v]
  BY Kinds, NodesAssumption DEF Combines, adjSet, interferes, InGraph, Gone
<1>2. /\ adj' = AdjWith(u, S)
      /\ onlist'[v] = "coalesced"
      /\ \A n \in Node \ {v} :
           onlist'[n] = onlist[n] \/ (onlist[n] \in InGraph /\ onlist'[n] \in InGraph)
  <2>1. \A t \in Temp : onlist[t] \in InGraph \cup Gone
    BY DEF Round, Listed, InGraph, Gone
  <2>2. q0 \in [Move -> Queues] /\ (u \in Temp => onlist[u] \in {"freeze", "spill"})
    BY DEF Combines
  <2>3. QED
    BY <1>1, <2>1, <2>2, CombineDoes
<1>3. ncl' = Decremented(NclWith(u, S), T, cls[v])
  <2> DEFINE o1 == [onlist EXCEPT ![v] = "coalesced"]
             T1 == {t \in adj[v] : o1[t] \notin Gone}
             S1 == IF u \in Temp
                   THEN T1 \ (adj[u] \cup {u})
                   ELSE {t \in T1 \cap Temp : u \notin adj[t] /\ aliasmap(cls[t], u) # {}}
  <2>1. ncl' = Decremented(NclWith(u, S1), T1 \cap Temp, cls[v])
    BY DEF Combine
  <2>2. T1 = Neighbours(v)
    BY <1>1, Kinds DEF Neighbours, Gone
  <2>3. S1 = S
    BY <2>2 DEF Linked
  <2>4. QED
    BY <2>1, <2>2, <2>3
<1>4. \A n \in Node : onlist'[n] \in Gone <=> onlist[n] \in Gone \/ n = v
  BY <1>1, <1>2 DEF InGraph, Gone
<1>5. S \subseteq Neighbours(v) /\ S \subseteq Node /\ v \notin S /\ u \notin S
  BY <1>1, Kinds DEF Linked, Neighbours
<1>6. \A s \in S : onlist[s] \notin Gone
  BY <1>5 DEF Neighbours
<1> SUFFICES ASSUME NEW t \in Temp, NEW c \in Class, onlist'[t] \notin Gone
             PROVE  ncl'[t][c] = Cardinality(Left(adj', onlist', t, c))
  BY DEF Counts
<1> DEFINE L == Left(adj, onlist, t, c)
<1>7. t \in Node /\ t # v /\ onlist[t] \notin Gone
  BY <1>1, <1>4, Kinds
<1>8. ncl[t][c] = Cardinality(L) /\ IsFiniteSet(L) /\ Cardinality(L) \in Nat
  BY <1>7, LeftNodes DEF Counts, Open
<1>9. Within(v) /\ Within(t) /\ (u \in Temp => Within(u))
  BY <1>1, <1>7 DEF Round, Stacked, Open, Within, Gone, InGraph
<1>10. v \in adj[t] <=> t \in T
  BY <1>1, <1>7, <1>9 DEF Round, Symmetric, Open, Neighbours
<1>11. t \in S => u \notin adj[t]
  BY <1>9, Kinds DEF Round, Symmetric, Open, Linked
<1>12. adj'[t] = IF t = u THEN adj[t] \cup S ELSE IF t \in S THEN adj[t] \cup {u} ELSE adj[t]
  BY <1>2 DEF AdjWith
<1> DEFINE New == {s \in S : cls[s] = c}
           more == Cardinality(New)
           n1 == ncl[t][c] + (IF t = u THEN more ELSE IF t \in S /\ cls[u] = c THEN 1 ELSE 0)
<1>13. more \in Nat /\ IsFiniteSet(New)
  BY <1>5, SomeNodes
<1>14. ncl'[t][c] = IF t \in T /\ c = cls[v] /\ n1 > 0 THEN n1 - 1 ELSE n1
  <2> DEFINE N == NclWith(u, S)
  <2>1. N[t] \in [Class -> Nat]
    <3>1. ncl \in NclType /\ S \in SUBSET Node /\ u \in Node
      BY <1>1, <1>5 DEF TypeOK, NclType
    <3>2. N \in NclType
      BY <3>1, NclWithType
    <3>3. QED
      BY <3>2 DEF NclType
  <2>2. N[t][c] = n1
    BY DEF NclWith
  <2> HIDE DEF N, n1
  <2>3. ncl'[t] = IF t \in T /\ N[t][cls[v]] > 0 THEN [N[t] EXCEPT ![cls[v]] = @ - 1] ELSE N[t]
    BY <1>3 DEF Decremented, N
  <2>4. QED
    BY <1>1, <2>1, <2>2, <2>3
<1> HIDE DEF L, T, S, more
<1>15. CASE t = u
  <2>1. t \notin T
    BY <1>1, <1>15 DEF T, Neighbours
  <2>2. Left(adj', onlist', t, c) = L \cup New
    BY <1>4, <1>5, <1>6, <1>10, <1>12, <1>15, <2>1, Kinds DEF Left, L
  <2>3. L \cap New = {}
    BY <1>1, <1>15 DEF L, Left, S, Linked
  <2> HIDE DEF New
  <2>4. Cardinality(L \cup New) = Cardinality(L) + more
    <3>1. Cardinality(L \cup New) = Cardinality(L) + Cardinality(New) - Cardinality(L \cap New)
      BY <1>8, <1>13, FS_Union
    <3>2. QED
      BY <1>8, <1>13, <2>3, <3>1, FS_EmptySet DEF more
  <2>5. ncl'[t][c] = ncl[t][c] + more
    BY <1>14, <1>15, <2>1
  <2>6. QED
    BY <1>8, <2>2, <2>4, <2>5
<1>16. CASE t # u
  <2> DEFINE L1 == IF t \in S /\ cls[u] = c THEN L \cup {u} ELSE L
  <2>1. /\ IsFiniteSet(L1) /\ Cardinality(L1) \in Nat
        /\ Cardinality(L1) = n1
    <3>1. t \in S => u \notin L
      BY <1>11 DEF L, Left
    <3>2. CASE t \in S /\ cls[u] = c
      <4>1. IsFiniteSet(L \cup {u}) /\ Cardinality(L \cup {u}) = Cardinality(L) + 1
        BY <1>8, <3>1, <3>2, FS_AddElement
      <4>2. QED
        BY <1>8, <1>16, <3>2, <4>1
    <3>3. CASE ~ (t \in S /\ cls[u] = c)
      BY <1>8, <1>16, <3>3
    <3>4. QED
      BY <3>2, <3>3
  <2>2. Left(adj', onlist', t, c) = L1 \ {v}
    BY <1>1, <1>4, <1>12, <1>16, Kinds DEF Left, L
  <2>3. v \in L1 <=> t \in T /\ cls[v] = c
    BY <1>1, <1>10 DEF L, Left, InGraph, Gone
  <2> HIDE DEF L1, n1
  <2>4. Cardinality(L1 \ {v}) = IF v \in L1 THEN Cardinality(L1) - 1 ELSE Cardinality(L1)
    BY <2>1, FS_RemoveElement
  <2>5. v \in L1 => Cardinality(L1) # 0
    BY <2>1, FS_EmptySet
  <2>6. QED
    BY <1>14, <2>1, <2>2, <2>3, <2>4, <2>5
<1>17. QED
  BY <1>15, <1>16

LEMMA NextCounts ==
  ASSUME AInv, AInv', Counts, [Next]_vars
  PROVE  Counts'
<1>1. TypeOK /\ TypeOK' /\ (phase # "done" => Round)
  BY DEF AInv
<1>2. CASE Build
  <2>1. ASSUME NEW d \in Temp \cup Touched, NEW s \in Temp \cup Touched, moveadd(d, s)
        PROVE  Counts'
    BY <1>1, <2>1, SameCounts DEF moveadd, Open
  <2>2. ASSUME NEW u \in Temp, NEW v \in Temp \cup Touched, AddEdge(u, v)
        PROVE  Counts'
    <3>1. phase # "done"
      BY <2>2 DEF AddEdge
    <3>2. QED
      BY <1>1, <2>2, <3>1, AddEdgeCounts
  <2>3. QED
    BY <1>2, <2>1, <2>2 DEF Build
<1>3. CASE MkWorklist
  <2>1. phase = "build" /\ adj' = adj /\ ncl' = ncl
    BY <1>3 DEF MkWorklist
  <2>2. \A t \in Temp : onlist[t] = "initial"
    BY <1>1, <2>1 DEF Round, Listed
  <2>3. \A n \in Node : onlist'[n] \in Gone <=> onlist[n] \in Gone
    BY <1>1, <1>3, <2>2, Kinds DEF MkWorklist, Gone
  <2>4. QED
    BY <1>1, <2>1, <2>3, SameCounts DEF Open
<1>4. CASE StartLoop
  BY <1>1, <1>4, SameCounts DEF StartLoop, Open
<1>5. ASSUME NEW u \in Node, NEW v \in Temp, coalasg(u, v)
      PROVE  Counts'
  <2>1. phase = "coalassign" /\ phase' = phase /\ Combine(u, v, queue)
    BY <1>5 DEF coalasg
  <2>2. Combines(u, v, queue)
    BY <1>1, <1>5, <2>1, coalasgCombines
  <2>3. QED
    BY <1>1, <2>1, <2>2, CombineCounts
<1>6. ASSUME NEW t \in Temp, Simplify(t)
      PROVE  Counts'
  BY <1>1, <1>6, SimplifyCounts DEF Simplify
<1>7. ASSUME NEW t \in Temp, Freeze(t) \/ SelectSpill(t)
      PROVE  Counts'
  <2>1. /\ phase = "loop" /\ adj' = adj /\ ncl' = ncl /\ moveList' = moveList
        /\ FreezeMoves(t) /\ onlist[t] \in {"freeze", "spill"}
    BY <1>7 DEF Freeze, SelectSpill, MayFreeze, MaySpill, MayCoalesce, EasyFreeze,
       SpillCandidates, On
  <2>2. Relists
    BY <1>1, <2>1, FreezeMovesKeeps
  <2>3. \A n \in Node : onlist'[n] \in Gone <=> onlist[n] \in Gone
    BY <1>1, <2>2, Kinds DEF Relists, InGraph, Gone
  <2>4. QED
    BY <1>1, <2>1, <2>3, SameCounts DEF Open
<1>8. ASSUME NEW m \in Move, CoalesceSame(m) \/ CoalesceConstrained(m) \/ CoalesceDefer(m)
      PROVE  Counts'
  <2>1. phase = "loop" /\ adj' = adj /\ ncl' = ncl
    BY <1>8 DEF CoalesceSame, CoalesceConstrained, CoalesceDefer, MayCoalesce
  <2>2. Relists \/ onlist' = onlist
    BY <1>1, <1>8, <2>1, CoalesceSameKeeps, CoalesceConstrainedKeeps DEF CoalesceDefer
  <2>3. \A n \in Node : onlist'[n] \in Gone <=> onlist[n] \in Gone
    BY <1>1, <2>2, Kinds DEF Relists, InGraph, Gone
  <2>4. QED
    BY <1>1, <2>1, <2>3, SameCounts DEF Open
<1>9. ASSUME NEW m \in Move, CoalesceCombine(m)
      PROVE  Counts'
  <2>1. /\ phase = "loop" /\ phase' = phase
        /\ Combine(EndU(m), EndV(m), [queue EXCEPT ![m] = "coal"])
    BY <1>9 DEF CoalesceCombine, MayCoalesce
  <2>2. Combines(EndU(m), EndV(m), [queue EXCEPT ![m] = "coal"])
    BY <1>1, <1>9, <2>1, CoalesceCombines
  <2>3. QED
    BY <1>1, <2>1, <2>2, CombineCounts
<1>10. CASE EndLoop \/ FinishColors \/ \E t \in Temp : AssignColor(t)
  BY <1>10 DEF EndLoop, FinishColors, AssignColor, Counts, Open
<1>11. CASE Finished \/ UNCHANGED vars
  <2>1. UNCHANGED vars
    BY <1>11 DEF Finished
  <2>2. QED
    BY <2>1 DEF vars, Counts, Open
<1>12. QED
  BY <1>2, <1>3, <1>4, <1>5, <1>6, <1>7, <1>8, <1>9, <1>10, <1>11 DEF Next, Coalesce

(* Through simplification and coalescing r_nclass holds the numbers of     *)
(* neighbours that are left in the graph.                                  *)
THEOREM CountsExact == Spec => []DegreeInvariant
<1>1. Counts => DegreeInvariant
  BY DEF Counts, DegreeInvariant, Open, Left
<1>2. Init => Counts
  BY InitCounts
<1>3. QED
  BY <1>1, <1>2, NextCounts, Invariance, PTL DEF Spec

-----------------------------------------------------------------------------
(* The worklists, for a COLORMAP that is Monotone.                         *)

(* A move is only in the lists of its ends and of nodes coalesced.         *)
MovesOwned ==
  \A n \in Node : \A m \in moveList[n] :
    onlist[n] # "coalesced" => n \in {alias[m[1]], alias[m[2]]}

Sorted ==
  phase \in {"coalassign", "loop"} =>
    \A t \in Temp :
      /\ onlist[t] = "freeze" => /\ trivially_colorable(t, ncl)
                                 /\ MoveRelated(moveList, queue, t)
      /\ onlist[t] = "spill" => ~ trivially_colorable(t, ncl)

Worklists ==
  /\ phase # "done" => MovesOwned
  /\ Sorted

LEMMA Capped ==
  ASSUME NEW n \in NclType, NEW t \in Temp
  PROVE  [c \in Class |-> IF n[t][c] < regK(c) THEN n[t][c] ELSE regK(c)] \in Degrees
<1>1. ASSUME NEW c \in Class
      PROVE  regK(c) \in Nat /\ regK(c) <= Cardinality(Reg) /\ Cardinality(Reg) \in Nat
  BY NodesAssumption, FS_Subset, FS_CardinalityType DEF regK, classmask
<1>2. \A c \in Class : n[t][c] \in Nat
  BY DEF NclType
<1>3. QED
  BY <1>1, <1>2 DEF Degrees

LEMMA Eases ==
  ASSUME Monotone, NEW n1 \in NclType, NEW n2 \in NclType, NEW t \in Temp,
         \A c \in Class : n2[t][c] <= n1[t][c], trivially_colorable(t, n1)
  PROVE  trivially_colorable(t, n2)
<1> DEFINE cap(n) == [c \in Class |-> IF n[t][c] < regK(c) THEN n[t][c] ELSE regK(c)]
<1>1. cap(n1) \in Degrees /\ cap(n2) \in Degrees /\ cls[t] \in Class
  BY Capped, NodesAssumption DEF Node
<1>2. ASSUME NEW c \in Class
      PROVE  cap(n2)[c] <= cap(n1)[c]
  <2>1. regK(c) \in Nat
    BY NodesAssumption, FS_Subset, FS_CardinalityType DEF regK, classmask
  <2>2. n1[t][c] \in Nat /\ n2[t][c] \in Nat
    BY DEF NclType
  <2>3. QED
    BY <2>1, <2>2
<1>3. Colormap(cls[t], cap(n1))
  BY DEF trivially_colorable
<1> HIDE DEF cap
<1>4. Colormap(cls[t], cap(n2))
  BY <1>1, <1>2, <1>3 DEF Monotone
<1>5. QED
  BY <1>4 DEF trivially_colorable, cap

LEMMA SameDegrees ==
  ASSUME NEW n1, NEW n2, NEW t, n1[t] = n2[t]
  PROVE  trivially_colorable(t, n1) <=> trivially_colorable(t, n2)
  BY DEF trivially_colorable

(* DecrementDegree: the nodes that cross do it from spill to the others.   *)
LEMMA CrossedEases ==
  ASSUME Monotone, NEW n \in NclType, NEW T \in SUBSET Temp, NEW k \in Class
  PROVE  LET n2 == Decremented(n, T, k)
         IN  \A t \in Temp : IF t \in Crossed(T, n, n2)
                             THEN t \in T /\ trivially_colorable(t, n2)
                             ELSE trivially_colorable(t, n2) <=> trivially_colorable(t, n)
<1> DEFINE n2 == Decremented(n, T, k)
<1>1. n2 \in NclType
  BY DecrementedType
<1> SUFFICES ASSUME NEW t \in Temp
             PROVE  IF t \in Crossed(T, n, n2)
                    THEN t \in T /\ trivially_colorable(t, n2)
                    ELSE trivially_colorable(t, n2) <=> trivially_colorable(t, n)
  OBVIOUS
<1>2. trivially_colorable(t, n) \in BOOLEAN /\ trivially_colorable(t, n2) \in BOOLEAN
  BY <1>1, Capped, ColormapAssumption, NodesAssumption DEF trivially_colorable, Degrees, Node
<1>3. \A c \in Class : n2[t][c] <= n[t][c]
  BY DEF Decremented, NclType
<1>4. t \notin T => n2[t] = n[t]
  BY DEF Decremented, NclType
<1> HIDE DEF n2
<1>5. trivially_colorable(t, n) => trivially_colorable(t, n2)
  BY <1>1, <1>3, Eases
<1>6. t \notin T => (trivially_colorable(t, n2) <=> trivially_colorable(t, n))
  BY <1>4, SameDegrees
<1>7. t \in Crossed(T, n, n2) <=> t \in T /\ trivially_colorable(t, n) # trivially_colorable(t, n2)
  BY DEF Crossed
<1>8. QED
  BY <1>2, <1>5, <1>6, <1>7

LEMMA SimplifySorts ==
  ASSUME TypeOK, Round, Monotone, Worklists, NEW w \in Temp, Simplify(w)
  PROVE  Worklists'
<1> DEFINE o1 == [onlist EXCEPT ![w] = "select"]
           T  == {t \in adj[w] \cap Temp : o1[t] \notin Gone}
           n2 == Decremented(ncl, T, cls[w])
           X  == Crossed(T, ncl, n2)
<1>1. /\ phase = "loop" /\ onlist[w] = "simplify" /\ ncl' = n2
      /\ queue' = EnableMoves(queue, moveList, AdjOrSelf(adj, o1, X))
      /\ onlist' = Relisted(o1, X, moveList, queue)
      /\ UNCHANGED <<phase, moveList, alias>>
  BY DEF Simplify
<1>2. /\ T \in SUBSET Temp /\ w \notin T /\ cls[w] \in Class /\ ncl \in NclType
      /\ \A t \in T : onlist[t] \notin Gone
  BY Kinds, NodesAssumption DEF TypeOK, NclType, Node
<1> HIDE DEF T
<1>3. \A t \in Temp : IF t \in X THEN t \in T /\ trivially_colorable(t, n2)
                      ELSE trivially_colorable(t, n2) <=> trivially_colorable(t, ncl)
  BY <1>2, CrossedEases
<1> HIDE DEF X, n2
<1>4. \A n \in Node : o1[n] = IF n = w THEN "select" ELSE onlist[n]
  BY Kinds
<1>5. \A t \in Temp : /\ t \in X /\ t # w => \/ onlist'[t] = "freeze" /\ MoveRelated(moveList, queue, t)
                                             \/ onlist'[t] = "simplify"
                      /\ t \notin X /\ t # w => onlist'[t] = onlist[t]
  BY <1>1, <1>4, Kinds DEF Relisted
<1>6. w \notin X /\ onlist'[w] = "select"
  BY <1>1, <1>2, <1>3, <1>4, Kinds DEF Relisted
<1>7. \A n \in Node : onlist[n] = "coalesced" => onlist'[n] = "coalesced"
  BY <1>1, <1>2, <1>3, <1>5, <1>6, <1>4, Kinds DEF Relisted, Gone
<1>8. \A t \in Temp : MoveRelated(moveList, queue', t) <=> MoveRelated(moveList, queue, t)
  <2>1. \A m \in Move : LiveMove(queue', m) <=> LiveMove(queue, m)
    BY <1>1 DEF EnableMoves, LiveMove
  <2>2. \A t \in Temp : moveList[t] \subseteq Move
    BY Kinds
  <2>3. QED
    BY <2>1, <2>2 DEF MoveRelated
<1>9. MovesOwned'
  BY <1>1, <1>7 DEF Worklists, MovesOwned
<1>10. ASSUME NEW t \in Temp
       PROVE  /\ onlist'[t] = "freeze" => /\ trivially_colorable(t, n2)
                                          /\ MoveRelated(moveList, queue', t)
              /\ onlist'[t] = "spill" => ~ trivially_colorable(t, n2)
  <2>1. CASE t = w
    BY <1>6, <2>1
  <2>2. CASE t # w /\ t \in X
    BY <1>3, <1>5, <1>8, <2>2
  <2>3. CASE t # w /\ t \notin X
    <3>1. /\ onlist[t] = "freeze" => /\ trivially_colorable(t, ncl)
                                     /\ MoveRelated(moveList, queue, t)
          /\ onlist[t] = "spill" => ~ trivially_colorable(t, ncl)
      BY <1>1 DEF Worklists, Sorted
    <3>2. QED
      BY <1>3, <1>5, <1>8, <2>3, <3>1
  <2>4. QED
    BY <2>1, <2>2, <2>3
<1>11. QED
  BY <1>1, <1>9, <1>10 DEF Worklists, Sorted

(* What Combine does to the counts and where it puts the nodes.            *)
LEMMA CombineLists ==
  ASSUME TypeOK, NEW u \in Node, NEW v \in Temp, NEW q0 \in [Move -> Queues],
         u # v, u \in Temp => u \notin adj[v] /\ onlist[u] \in {"freeze", "spill"},
         Combine(u, v, q0)
  PROVE  LET T  == Neighbours(v) \cap Temp
             n1 == NclWith(u, Linked(u, v))
             X  == Crossed(T, n1, ncl')
         IN  /\ ncl' = Decremented(n1, T, cls[v])
             /\ \A t \in Temp \ {u, v} :
                  IF t \in X
                  THEN \/ onlist'[t] = "freeze" /\ MoveRelated(moveList', q0, t)
                       \/ onlist'[t] = "simplify"
                  ELSE onlist'[t] = onlist[t]
             /\ u \in Temp =>
                  /\ onlist'[u] = "freeze" => /\ trivially_colorable(u, ncl')
                                              /\ MoveRelated(moveList', q0, u)
                  /\ onlist'[u] = "spill" => onlist[u] = "spill" \/ ~ trivially_colorable(u, ncl')
                  /\ onlist'[u] = "simplify" => trivially_colorable(u, ncl')
<1> DEFINE o1 == [onlist EXCEPT ![v] = "coalesced"]
           ml == [moveList EXCEPT ![u] = @ \cup moveList[v]]
           q1 == EnableMoves(q0, ml, {v})
           T  == {t \in adj[v] : o1[t] \notin Gone}
           S  == IF u \in Temp
                 THEN T \ (adj[u] \cup {u})
                 ELSE {t \in T \cap Temp : u \notin adj[t] /\ aliasmap(cls[t], u) # {}}
           a1 == AdjWith(u, S)
           n1 == NclWith(u, S)
           n2 == Decremented(n1, T \cap Temp, cls[v])
           X  == Crossed(T \cap Temp, n1, n2)
           q2 == EnableMoves(q1, ml, AdjOrSelf(a1, o1, X))
           o2 == Relisted(o1, X, ml, q1)
           o3 == IF u \in Temp /\ o2[u] = "freeze" /\ ~ trivially_colorable(u, n2)
                 THEN [o2 EXCEPT ![u] = "spill"] ELSE o2
<1>1. /\ ncl' = n2 /\ moveList' = ml
      /\ onlist' = AddWorkList(o3, n2, ml, q2, {u})
  BY DEF Combine
<1>2. v \in Node /\ Temp \cap Reg = {} /\ Temp \subseteq Node
  BY Kinds
<1>3. \A n \in Node : o1[n] = IF n = v THEN "coalesced" ELSE onlist[n]
  BY Kinds
<1>4. T = Neighbours(v)
  BY <1>2, <1>3, Kinds DEF Neighbours, Gone
<1>5. S = Linked(u, v)
  BY <1>4 DEF Linked
<1>6. u \notin X
  BY <1>4, <1>2 DEF Crossed, Neighbours
<1>7. o1 \in Listing /\ X \cap Reg = {}
  BY <1>2, ExceptType DEF TypeOK, Listing, Lists, Crossed
<1>8. o2 \in [Node -> Lists]
  BY <1>7, RelistedType DEF Listing
<1> HIDE DEF X, S, T, n1, n2
<1>9. ml \in [Node -> SUBSET Move]
  BY <1>2, Kinds
<1>10. \A n \in Node : /\ MoveRelated(ml, q1, n) <=> MoveRelated(ml, q0, n)
                       /\ MoveRelated(ml, q2, n) <=> MoveRelated(ml, q0, n)
  <2>1. \A m \in Move : LiveMove(q1, m) <=> LiveMove(q0, m)
    BY DEF EnableMoves, LiveMove
  <2> HIDE DEF q1
  <2>2. \A m \in Move : LiveMove(q2, m) <=> LiveMove(q0, m)
    BY <2>1 DEF EnableMoves, LiveMove
  <2> HIDE DEF q2, ml
  <2>3. QED
    BY <2>1, <2>2, <1>9 DEF MoveRelated
<1> HIDE DEF ml, o1, q1, q2
<1>11. \A n \in Node : /\ n \notin X => o2[n] = o1[n]
                       /\ n \in X => \/ o2[n] = "freeze" /\ MoveRelated(ml, q1, n)
                                     \/ o2[n] = "simplify"
  BY DEF Relisted
<1> HIDE DEF o2
<1>12. /\ \A n \in Node \ {u} : o3[n] = o2[n]
       /\ u \in Temp => \/ o3[u] = o2[u] /\ (o2[u] = "freeze" => trivially_colorable(u, n2))
                        \/ o3[u] = "spill" /\ ~ trivially_colorable(u, n2)
  BY <1>2, <1>8
<1> HIDE DEF o3
<1>13. /\ \A n \in Node \ {u} : onlist'[n] = o3[n]
       /\ u \in Temp => \/ onlist'[u] = "simplify" /\ trivially_colorable(u, n2)
                        \/ /\ onlist'[u] = o3[u]
                           /\ trivially_colorable(u, n2) => MoveRelated(ml, q2, u)
  BY <1>1, <1>2 DEF AddWorkList
<1>14. ASSUME NEW t \in Temp \ {u, v}
       PROVE  IF t \in X
              THEN \/ onlist'[t] = "freeze" /\ MoveRelated(ml, q0, t)
                   \/ onlist'[t] = "simplify"
              ELSE onlist'[t] = onlist[t]
  BY <1>2, <1>3, <1>10, <1>11, <1>12, <1>13
<1>15. ASSUME u \in Temp
       PROVE  /\ onlist'[u] = "freeze" => trivially_colorable(u, n2) /\ MoveRelated(ml, q0, u)
              /\ onlist'[u] = "spill" => onlist[u] = "spill" \/ ~ trivially_colorable(u, n2)
              /\ onlist'[u] = "simplify" => trivially_colorable(u, n2)
  <2>1. o2[u] = onlist[u]
    BY <1>3, <1>6, <1>11
  <2>2. QED
    BY <1>10, <1>12, <1>13, <1>15, <2>1
<1>16. n1 = NclWith(u, Linked(u, v)) /\ n2 = Decremented(n1, T \cap Temp, cls[v])
       /\ X = Crossed(T \cap Temp, n1, n2)
  BY <1>5 DEF n1, n2, X
<1>17. QED
  BY <1>1, <1>4, <1>14, <1>15, <1>16

(* Combine changes how colourable a node other than u is by crossing only. *)
LEMMA CombineEases ==
  ASSUME TypeOK, Monotone, NEW u, NEW v, NEW q0, Combines(u, v, q0),
         ncl' = Decremented(NclWith(u, Linked(u, v)), Neighbours(v) \cap Temp, cls[v])
  PROVE  LET X == Crossed(Neighbours(v) \cap Temp, NclWith(u, Linked(u, v)), ncl')
         IN  \A t \in Temp : t # u =>
               IF t \in X
               THEN t \in Neighbours(v) /\ trivially_colorable(t, ncl')
               ELSE trivially_colorable(t, ncl') <=> trivially_colorable(t, ncl)
<1> DEFINE T  == Neighbours(v) \cap Temp
           S  == Linked(u, v)
           n1 == NclWith(u, S)
           X  == Crossed(T, n1, ncl')
<1>1. u \in Node /\ v \in Temp /\ cls[u] = cls[v] /\ cls[v] \in Class
  BY NodesAssumption DEF Combines, Node
<1>2. ncl' = Decremented(n1, T, cls[v])
  OBVIOUS
<1>3. /\ S \in SUBSET Node /\ S \subseteq Neighbours(v) /\ T \in SUBSET Temp
  BY <1>1, Kinds DEF Linked, Neighbours
<1>4. n1 \in NclType /\ ncl \in NclType
  <2>1. ncl \in NclType /\ S \in SUBSET Node /\ u \in Node
    BY <1>1, <1>3 DEF TypeOK, NclType
  <2>2. QED
    BY <2>1, NclWithType
<1>5. \A t \in Temp : t \in S => t \in T
  BY <1>3
<1>6. T \subseteq Neighbours(v)
  OBVIOUS
<1> HIDE DEF T, S
<1>7. \A t \in Temp : t # u => n1[t] = IF t \in S THEN [c \in Class |-> ncl[t][c] + (IF cls[u] = c THEN 1 ELSE 0)]
                                       ELSE ncl[t]
  <2>1. \A t \in Temp : n1[t] = [c \in Class |-> ncl[t][c] +
                (IF t = u THEN Cardinality({s \in S : cls[s] = c})
                 ELSE IF t \in S /\ cls[u] = c THEN 1 ELSE 0)]
    BY DEF NclWith
  <2>2. ASSUME NEW t \in Temp, t # u, t \notin S
        PROVE  n1[t] = ncl[t]
    <3>1. n1[t] = [c \in Class |-> ncl[t][c] + 0]
      BY <2>1, <2>2
    <3>2. ncl[t] \in [Class -> Nat]
      BY <1>4 DEF NclType
    <3>3. QED
      BY <3>1, <3>2
  <2>3. QED
    BY <2>1, <2>2
<1>8. \A t \in Temp : t # u /\ t \in S => ncl'[t] = ncl[t]
  <2> SUFFICES ASSUME NEW t \in Temp, t # u, t \in S
               PROVE  ncl'[t] = ncl[t]
    OBVIOUS
  <2>1. t \in T
    BY <1>5
  <2>2. ncl[t] \in [Class -> Nat]
    BY <1>4 DEF NclType
  <2>3. n1[t] = [c \in Class |-> ncl[t][c] + (IF cls[u] = c THEN 1 ELSE 0)]
    BY <1>7
  <2>4. n1[t][cls[v]] = ncl[t][cls[v]] + 1
    BY <1>1, <2>3
  <2> HIDE DEF n1
  <2>5. ncl'[t] = [n1[t] EXCEPT ![cls[v]] = @ - 1]
    BY <1>1, <1>2, <2>1, <2>2, <2>4 DEF Decremented
  <2>6. QED
    BY <1>1, <2>2, <2>3, <2>5
<1> HIDE DEF n1
<1>9. \A t \in Temp : IF t \in X THEN t \in T /\ trivially_colorable(t, ncl')
                      ELSE trivially_colorable(t, ncl') <=> trivially_colorable(t, n1)
  BY <1>1, <1>2, <1>3, <1>4, CrossedEases
<1> HIDE DEF X
<1>10. \A t \in Temp : t # u /\ t \notin X =>
        (trivially_colorable(t, ncl') <=> trivially_colorable(t, ncl))
  <2> SUFFICES ASSUME NEW t \in Temp, t # u, t \notin X
               PROVE  trivially_colorable(t, ncl') <=> trivially_colorable(t, ncl)
    OBVIOUS
  <2>1. CASE t \in S
    BY <1>8, <2>1, SameDegrees
  <2>2. CASE t \notin S
    <3>1. n1[t] = ncl[t]
      BY <1>7, <2>2
    <3>2. QED
      BY <1>9, <3>1, SameDegrees
  <2>3. QED
    BY <2>1, <2>2
<1>11. QED
  BY <1>6, <1>9, <1>10 DEF X, n1, T, S

LEMMA CombineSorts ==
  ASSUME TypeOK, TypeOK', Round, Monotone, Worklists, phase \in {"coalassign", "loop"},
         phase' = phase, NEW u, NEW v, NEW q0, Combines(u, v, q0), Combine(u, v, q0),
         \A m \in Move : LiveMove(queue, m) /\ ~ LiveMove(q0, m) =>
                           alias[m[1]] \in {u, v} /\ alias[m[2]] \in {u, v}
  PROVE  Worklists'
<1> DEFINE T  == Neighbours(v) \cap Temp
           S  == Linked(u, v)
           n1 == NclWith(u, S)
           X  == Crossed(T, n1, ncl')
<1>1. /\ u \in Node /\ v \in Temp /\ v \in Node /\ u # v /\ alias[u] = u /\ alias[v] = v
      /\ onlist[v] \in InGraph /\ (u \in Temp => u \notin adj[v] /\ onlist[u] \in {"freeze", "spill"})
      /\ cls[u] = cls[v] /\ cls[v] \in Class /\ q0 \in [Move -> Queues]
  BY Kinds, NodesAssumption DEF Combines, adjSet
<1>2. /\ moveList' = [moveList EXCEPT ![u] = @ \cup moveList[v]]
      /\ alias' = [n \in Node |-> IF alias[n] = v THEN u ELSE alias[n]]
      /\ \A m \in Move : LiveMove(queue', m) <=> LiveMove(q0, m)
      /\ onlist'[v] = "coalesced"
      /\ \A n \in Node \ {v} :
           onlist'[n] = onlist[n] \/ (onlist[n] \in InGraph /\ onlist'[n] \in InGraph)
  <2>1. \A t \in Temp : onlist[t] \in InGraph \cup Gone
    BY DEF Round, Listed, InGraph, Gone
  <2>2. QED
    BY <1>1, <2>1, CombineDoes
<1>3. /\ ncl' = Decremented(n1, T, cls[v])
      /\ \A t \in Temp \ {u, v} :
           IF t \in X
           THEN \/ onlist'[t] = "freeze" /\ MoveRelated(moveList', q0, t)
                \/ onlist'[t] = "simplify"
           ELSE onlist'[t] = onlist[t]
      /\ u \in Temp =>
           /\ onlist'[u] = "freeze" => /\ trivially_colorable(u, ncl')
                                       /\ MoveRelated(moveList', q0, u)
           /\ onlist'[u] = "spill" => onlist[u] = "spill" \/ ~ trivially_colorable(u, ncl')
           /\ onlist'[u] = "simplify" => trivially_colorable(u, ncl')
  BY <1>1, CombineLists
<1>4. /\ S \in SUBSET Node /\ S \subseteq Neighbours(v) /\ u \notin S /\ v \notin S
      /\ T \in SUBSET Temp /\ (u \in Temp => u \notin T)
  BY <1>1, Kinds DEF Linked, Neighbours
<1>5. n1 \in NclType /\ ncl \in NclType
  <2>1. ncl \in NclType /\ S \in SUBSET Node /\ u \in Node
    BY <1>1, <1>4 DEF TypeOK, NclType
  <2>2. QED
    BY <2>1, NclWithType
<1> HIDE DEF T, S, n1, X
<1>9. \A t \in Temp : t # u =>
        IF t \in X THEN trivially_colorable(t, ncl')
        ELSE trivially_colorable(t, ncl') <=> trivially_colorable(t, ncl)
  BY <1>3, CombineEases DEF X, n1, T, S
<1>10. ASSUME u \in Temp, trivially_colorable(u, ncl')
       PROVE  trivially_colorable(u, ncl)
  <2>1. ncl'[u] = n1[u]
    BY <1>3, <1>4, <1>5, <1>10 DEF Decremented, NclType
  <2>2. ASSUME NEW c \in Class
        PROVE  ncl[u][c] <= n1[u][c]
    <3> DEFINE new == Cardinality({s \in S : cls[s] = c})
    <3>1. new \in Nat
      BY <1>4, ClassNeighbours
    <3>2. n1[u][c] = ncl[u][c] + new
      BY <1>10 DEF n1, NclWith
    <3>3. ncl[u][c] \in Nat
      BY <1>5, <1>10 DEF NclType
    <3> HIDE DEF new
    <3>4. ncl[u][c] <= ncl[u][c] + new
      BY <3>1, <3>3
    <3>5. QED
      BY <3>2, <3>4
  <2>3. trivially_colorable(u, n1)
    BY <1>10, <2>1, SameDegrees
  <2>4. QED
    BY <1>5, <1>10, <2>2, <2>3, Eases
<1>11. \A n \in Node : moveList[n] \subseteq Move /\ moveList'[n] \subseteq Move
  BY Kinds DEF TypeOK
<1>12. \A t \in Node : MoveRelated(moveList', queue', t) <=> MoveRelated(moveList', q0, t)
  BY <1>2, <1>11 DEF MoveRelated
<1>13. ASSUME NEW t \in Temp \ {u, v}, MoveRelated(moveList, queue, t), onlist[t] # "coalesced"
       PROVE  MoveRelated(moveList', q0, t)
  <2>1. PICK m \in moveList[t] : LiveMove(queue, m)
    BY <1>13 DEF MoveRelated
  <2>2. t \in Node /\ m \in Move
    BY <1>11, Kinds
  <2>3. t \in {alias[m[1]], alias[m[2]]}
    BY <1>13, <2>2, Kinds DEF Worklists, MovesOwned
  <2>4. LiveMove(q0, m)
    BY <2>1, <2>2, <2>3
  <2>5. moveList'[t] = moveList[t]
    BY <1>2, <2>2, Kinds
  <2>6. QED
    BY <2>4, <2>5 DEF MoveRelated
<1>14. MovesOwned'
  <2> SUFFICES ASSUME NEW n \in Node, NEW m \in moveList'[n], onlist'[n] # "coalesced"
               PROVE  n \in {alias'[m[1]], alias'[m[2]]}
    BY DEF MovesOwned
  <2>1. n # v /\ onlist[n] # "coalesced" /\ onlist[u] # "coalesced" /\ onlist[v] # "coalesced"
    BY <1>1, <1>2, Kinds DEF InGraph, Round, Aliases
  <2>2. m[1] \in Node /\ m[2] \in Node
    BY <1>11 DEF Move
  <2>3. CASE m \in moveList[n]
    BY <1>2, <2>1, <2>2, <2>3 DEF Worklists, MovesOwned, Round
  <2>4. CASE m \notin moveList[n]
    <3>1. n = u /\ m \in moveList[v]
      BY <1>1, <1>2, <2>4, Kinds
    <3>2. v \in {alias[m[1]], alias[m[2]]}
      BY <1>1, <2>1, <3>1 DEF Worklists, MovesOwned
    <3>3. QED
      BY <1>2, <2>2, <3>1, <3>2
  <2>5. QED
    BY <2>3, <2>4
<1>15. ASSUME NEW t \in Temp
       PROVE  /\ onlist'[t] = "freeze" => /\ trivially_colorable(t, ncl')
                                          /\ MoveRelated(moveList', queue', t)
              /\ onlist'[t] = "spill" => ~ trivially_colorable(t, ncl')
  <2>1. t \in Node
    BY Kinds
  <2>2. /\ onlist[t] = "freeze" => /\ trivially_colorable(t, ncl)
                                   /\ MoveRelated(moveList, queue, t)
        /\ onlist[t] = "spill" => ~ trivially_colorable(t, ncl)
    BY DEF Worklists, Sorted
  <2>3. CASE t = v
    BY <1>2, <2>3
  <2>4. CASE t = u
    BY <1>3, <1>10, <1>12, <2>1, <2>2, <2>4
  <2>5. CASE t \notin {u, v} /\ t \in X
    <3>1. \/ onlist'[t] = "freeze" /\ MoveRelated(moveList', q0, t)
          \/ onlist'[t] = "simplify"
      BY <1>3, <2>5
    <3>2. trivially_colorable(t, ncl')
      BY <1>9, <2>5
    <3>3. QED
      BY <1>12, <2>1, <3>1, <3>2
  <2>6. CASE t \notin {u, v} /\ t \notin X
    <3>1. onlist'[t] = onlist[t]
      BY <1>3, <2>6
    <3>2. trivially_colorable(t, ncl') <=> trivially_colorable(t, ncl)
      BY <1>9, <2>6
    <3>3. QED
      BY <1>12, <1>13, <2>1, <2>2, <2>6, <3>1, <3>2
  <2>7. QED
    BY <2>3, <2>4, <2>5, <2>6
<1>16. QED
  BY <1>14, <1>15 DEF Worklists, Sorted


(* The steps that only settle moves and relist their ends.                 *)
LEMMA QuietSorts ==
  ASSUME TypeOK, Round, Worklists, phase = "loop", Relists,
         UNCHANGED <<phase, ncl, alias, moveList>>,
         \A t \in Temp : /\ onlist'[t] = "freeze" => /\ onlist[t] = "freeze"
                                                     /\ MoveRelated(moveList, queue', t)
                         /\ onlist'[t] = "spill" => onlist[t] = "spill"
  PROVE  Worklists'
<1>1. \A n \in Node : onlist[n] = "coalesced" => onlist'[n] = "coalesced"
  BY Kinds DEF Relists, InGraph
<1>2. MovesOwned'
  BY <1>1 DEF Worklists, MovesOwned
<1>3. \A t \in Temp : /\ onlist[t] = "freeze" => trivially_colorable(t, ncl)
                      /\ onlist[t] = "spill" => ~ trivially_colorable(t, ncl)
  BY DEF Worklists, Sorted
<1>4. QED
  BY <1>2, <1>3 DEF Worklists, Sorted

(* A move that Coalesce settles was the last one of its ends only.         *)
LEMMA SettleSorts ==
  ASSUME TypeOK, Round, Worklists, phase = "loop", NEW m \in Move, NEW s \in {"coal", "constr"},
         queue' = [queue EXCEPT ![m] = s],
         onlist' = AddWorkList(onlist, ncl, moveList, queue', {EndU(m), EndV(m)}),
         Relists, UNCHANGED <<phase, ncl, alias, moveList>>
  PROVE  Worklists'
<1>1. ASSUME NEW t \in Temp
      PROVE  /\ onlist'[t] = "freeze" => onlist[t] = "freeze" /\ MoveRelated(moveList, queue', t)
             /\ onlist'[t] = "spill" => onlist[t] = "spill"
  <2>1. /\ onlist'[t] = IF /\ t \in {EndU(m), EndV(m)}
                           /\ ~ MoveRelated(moveList, queue', t)
                           /\ trivially_colorable(t, ncl)
                        THEN "simplify" ELSE onlist[t]
    BY Kinds DEF AddWorkList
  <2>2. ASSUME onlist'[t] = "freeze"
        PROVE  onlist[t] = "freeze" /\ MoveRelated(moveList, queue', t)
    <3>1. onlist[t] = "freeze"
      BY <2>1, <2>2
    <3>2. trivially_colorable(t, ncl) /\ MoveRelated(moveList, queue, t)
      BY <3>1 DEF Worklists, Sorted
    <3>3. PICK x \in moveList[t] : LiveMove(queue, x)
      BY <3>2 DEF MoveRelated
    <3>4. CASE x = m
      <4>1. t \in {alias[m[1]], alias[m[2]]}
        BY <3>1, <3>3, <3>4, Kinds DEF Worklists, MovesOwned
      <4>2. t \in {EndU(m), EndV(m)}
        BY <4>1 DEF EndU, EndV
      <4>3. QED
        BY <2>1, <2>2, <3>1, <3>2, <4>2
    <3>5. CASE x # m
      <4>1. x \in Move
        BY <3>3, Kinds
      <4>2. LiveMove(queue', x)
        BY <3>3, <3>5, <4>1, Kinds DEF LiveMove
      <4>3. QED
        BY <3>1, <3>3, <4>2 DEF MoveRelated
    <3>6. QED
      BY <3>4, <3>5
  <2>3. QED
    BY <2>1, <2>2
<1>2. QED
  BY <1>1, QuietSorts

LEMMA CoalesceSorts ==
  ASSUME TypeOK, Round, Worklists, NEW m \in Move,
         CoalesceSame(m) \/ CoalesceConstrained(m) \/ CoalesceDefer(m)
  PROVE  Worklists'
<1>1. CASE CoalesceSame(m)
  <2>1. /\ queue' = [queue EXCEPT ![m] = "coal"]
        /\ onlist' = AddWorkList(onlist, ncl, moveList, queue', {EndU(m), EndV(m)})
        /\ UNCHANGED <<phase, ncl, alias, moveList>>
    BY <1>1 DEF CoalesceSame
  <2>2. phase = "loop" /\ Relists
    BY <1>1, CoalesceSameKeeps
  <2>3. QED
    BY <2>1, <2>2, SettleSorts
<1>2. CASE CoalesceConstrained(m)
  <2>1. /\ queue' = [queue EXCEPT ![m] = "constr"]
        /\ onlist' = AddWorkList(onlist, ncl, moveList, queue', {EndU(m), EndV(m)})
        /\ UNCHANGED <<phase, ncl, alias, moveList>>
    BY <1>2 DEF CoalesceConstrained
  <2>2. phase = "loop" /\ Relists
    BY <1>2, CoalesceConstrainedKeeps
  <2>3. QED
    BY <2>1, <2>2, SettleSorts
<1>3. CASE CoalesceDefer(m)
  <2>1. /\ phase = "loop" /\ queue[m] = "wlist"
        /\ queue' = [queue EXCEPT ![m] = "active"]
        /\ UNCHANGED <<phase, onlist, ncl, alias, moveList>>
    BY <1>3 DEF CoalesceDefer, MayCoalesce
  <2>2. \A x \in Move : LiveMove(queue, x) => LiveMove(queue', x)
    BY <2>1, Kinds DEF LiveMove
  <2>3. \A t \in Temp : moveList[t] \subseteq Move
    BY Kinds
  <2>4. \A t \in Temp : MoveRelated(moveList, queue, t) => MoveRelated(moveList, queue', t)
    BY <2>2, <2>3 DEF MoveRelated
  <2>5. \A t \in Temp : onlist[t] = "freeze" => MoveRelated(moveList, queue, t)
    BY <2>1 DEF Worklists, Sorted
  <2>6. Relists
    BY <2>1 DEF Relists
  <2>7. QED
    BY <2>1, <2>4, <2>5, <2>6, QuietSorts
<1>4. QED
  BY <1>1, <1>2, <1>3

(* FreezeMoves looks at every node that may have lost its last move.       *)
LEMMA FreezeSorts ==
  ASSUME TypeOK, Round, Worklists, NEW u \in Temp, Freeze(u) \/ SelectSpill(u)
  PROVE  Worklists'
<1> DEFINE F  == {m \in moveList[u] : LiveMove(queue, m)}
           q1 == [m \in Move |-> IF m \in F THEN "frozen" ELSE queue[m]]
           partner(m) == IF alias[m[2]] = alias[u] THEN alias[m[1]] ELSE alias[m[2]]
           Z  == {z \in {partner(m) : m \in F} :
                    z # u /\ onlist[z] = "freeze" /\ ~ MoveRelated(moveList, q1, z)}
<1>1. /\ phase = "loop" /\ FreezeMoves(u)
      /\ UNCHANGED <<phase, ncl, alias, moveList>>
  BY DEF Freeze, SelectSpill, MayFreeze, MaySpill, MayCoalesce
<1>2. onlist[u] \in {"freeze", "spill"}
  BY DEF Freeze, SelectSpill, EasyFreeze, SpillCandidates, On
<1>3. Relists
  BY <1>1, <1>2, FreezeMovesKeeps
<1>4. /\ queue' = q1
      /\ onlist' = [n \in Node |-> IF n \in Z \cup {u} THEN "simplify" ELSE onlist[n]]
  BY <1>1 DEF FreezeMoves
<1>5. alias[u] = u
  BY <1>2, Kinds DEF Round, Aliases
<1>6. ASSUME NEW t \in Temp, onlist'[t] = "freeze"
      PROVE  onlist[t] = "freeze" /\ MoveRelated(moveList, q1, t)
  <2>1. onlist[t] = "freeze" /\ t # u /\ t \notin Z
    BY <1>4, <1>6, Kinds
  <2>2. MoveRelated(moveList, queue, t)
    BY <1>1, <2>1 DEF Worklists, Sorted
  <2>3. PICK x \in moveList[t] : LiveMove(queue, x)
    BY <2>2 DEF MoveRelated
  <2>4. x \in Move /\ t \in {alias[x[1]], alias[x[2]]}
    BY <1>1, <2>1, <2>3, Kinds DEF Worklists, MovesOwned
  <2>5. CASE x \in F
    <3>1. u \in {alias[x[1]], alias[x[2]]}
      BY <1>1, <1>2, <2>5, Kinds DEF Worklists, MovesOwned
    <3>2. partner(x) = t
      BY <1>5, <2>1, <2>4, <3>1
    <3>3. t \in {partner(m) : m \in F}
      BY <2>5, <3>2
    <3>4. QED
      BY <2>1, <3>3
  <2>6. CASE x \notin F
    <3>1. LiveMove(q1, x)
      BY <2>3, <2>4, <2>6 DEF LiveMove
    <3>2. QED
      BY <2>1, <2>3, <3>1 DEF MoveRelated
  <2>7. QED
    BY <2>5, <2>6
<1>7. \A t \in Temp : onlist'[t] = "spill" => onlist[t] = "spill"
  BY <1>4, Kinds
<1> HIDE DEF q1, Z
<1>8. QED
  BY <1>1, <1>3, <1>4, <1>6, <1>7, QuietSorts


LEMMA coalasgSorts ==
  ASSUME TypeOK, TypeOK', Round, Monotone, Worklists, NEW u \in Node, NEW v \in Temp,
         coalasg(u, v)
  PROVE  Worklists'
<1>1. phase = "coalassign" /\ phase' = phase /\ Combine(u, v, queue)
  BY DEF coalasg
<1>2. Combines(u, v, queue)
  BY coalasgCombines
<1>3. QED
  BY <1>1, <1>2, CombineSorts

LEMMA CoalesceCombineSorts ==
  ASSUME TypeOK, TypeOK', Round, Monotone, Worklists, NEW m \in Move, CoalesceCombine(m)
  PROVE  Worklists'
<1> DEFINE u == EndU(m)
           v == EndV(m)
           q0 == [queue EXCEPT ![m] = "coal"]
<1>1. phase = "loop" /\ phase' = phase /\ Combine(u, v, q0)
  BY DEF CoalesceCombine, MayCoalesce
<1>2. Combines(u, v, q0)
  BY CoalesceCombines
<1>3. ASSUME NEW x \in Move, LiveMove(queue, x) /\ ~ LiveMove(q0, x)
      PROVE  alias[x[1]] \in {u, v} /\ alias[x[2]] \in {u, v}
  <2>1. x = m
    BY <1>3, Kinds DEF LiveMove
  <2>2. QED
    BY <2>1 DEF EndU, EndV
<1> HIDE DEF u, v, q0
<1>4. QED
  BY <1>1, <1>2, <1>3, CombineSorts

(* The steps of Build, that lists nothing, and MkWorklist, that lists all. *)
LEMMA BuildSorts ==
  ASSUME TypeOK, Round, Worklists, Build
  PROVE  Worklists'
<1>1. phase = "build" /\ phase' = phase /\ alias' = alias /\ onlist' = onlist
  BY DEF Build, AddEdge, moveadd
<1>2. \A n \in Node : alias[n] = n
  BY <1>1, Kinds DEF Round, Aliases, Listed
<1>3. ASSUME NEW d \in Temp \cup Touched, NEW s \in Temp \cup Touched, moveadd(d, s)
      PROVE  MovesOwned'
  <2>1. /\ s \in Node /\ d \in Node
        /\ moveList' = [moveList EXCEPT ![d] = @ \cup {<<s, d>>}, ![s] = @ \cup {<<s, d>>}]
    BY <1>3, KindsAssumption DEF moveadd, Node
  <2> SUFFICES ASSUME NEW n \in Node, NEW m \in moveList'[n], onlist'[n] # "coalesced"
               PROVE  n \in {alias'[m[1]], alias'[m[2]]}
    BY DEF MovesOwned
  <2>2. CASE m \in moveList[n]
    BY <1>1, <2>2 DEF Worklists, MovesOwned
  <2>3. CASE m \notin moveList[n]
    <3>1. m = <<s, d>> /\ n \in {s, d}
      BY <2>1, <2>3, Kinds
    <3>2. alias[s] = s /\ alias[d] = d
      BY <1>2, <2>1
    <3>3. QED
      BY <1>1, <3>1, <3>2
  <2>4. QED
    BY <2>2, <2>3
<1>4. ASSUME NEW a \in Temp, NEW b \in Temp \cup Touched, AddEdge(a, b)
      PROVE  MovesOwned'
  BY <1>1, <1>4 DEF AddEdge, Worklists, MovesOwned
<1>5. QED
  BY <1>1, <1>3, <1>4 DEF Build, Worklists, Sorted

LEMMA MkWorklistSorts ==
  ASSUME TypeOK, Round, Worklists, MkWorklist
  PROVE  Worklists'
<1>1. /\ phase = "build"
      /\ onlist' = [n \in Node |->
                     IF n \in Reg THEN onlist[n]
                     ELSE IF ~ trivially_colorable(n, ncl) THEN "spill"
                     ELSE IF MoveRelated(moveList, queue, n) THEN "freeze"
                     ELSE "simplify"]
      /\ UNCHANGED <<ncl, moveList, queue, alias>>
  BY DEF MkWorklist
<1>2. \A n \in Node : onlist[n] # "coalesced"
  BY <1>1, Kinds DEF Round, Listed
<1>3. MovesOwned'
  BY <1>1, <1>2 DEF Worklists, MovesOwned
<1>4. ASSUME NEW t \in Temp
      PROVE  /\ onlist'[t] = "freeze" => /\ trivially_colorable(t, ncl)
                                         /\ MoveRelated(moveList, queue, t)
             /\ onlist'[t] = "spill" => ~ trivially_colorable(t, ncl)
  <2>1. t \in Node /\ t \notin Reg
    BY Kinds
  <2>2. QED
    BY <1>1, <2>1
<1>5. QED
  BY <1>1, <1>3, <1>4 DEF Worklists, Sorted

LEMMA NextWorklists ==
  ASSUME Monotone, AInv, AInv', Worklists, [Next]_vars
  PROVE  Worklists'
<1>1. TypeOK /\ TypeOK' /\ (phase # "done" => Round)
  BY DEF AInv
<1>2. CASE Build
  BY <1>1, <1>2, BuildSorts DEF Build, AddEdge, moveadd
<1>3. CASE MkWorklist
  BY <1>1, <1>3, MkWorklistSorts DEF MkWorklist
<1>4. CASE StartLoop
  BY <1>4 DEF StartLoop, Worklists, MovesOwned, Sorted
<1>5. ASSUME NEW u \in Node, NEW v \in Temp, coalasg(u, v)
      PROVE  Worklists'
  BY <1>1, <1>5, coalasgSorts DEF coalasg
<1>6. ASSUME NEW t \in Temp, Simplify(t) \/ Freeze(t) \/ SelectSpill(t)
      PROVE  Worklists'
  <2>1. phase = "loop"
    BY <1>6 DEF Simplify, Freeze, SelectSpill, MaySpill, MayFreeze, MayCoalesce
  <2>2. QED
    BY <1>1, <1>6, <2>1, SimplifySorts, FreezeSorts
<1>7. ASSUME NEW m \in Move,
             CoalesceSame(m) \/ CoalesceConstrained(m) \/ CoalesceDefer(m) \/ CoalesceCombine(m)
      PROVE  Worklists'
  <2>1. phase = "loop"
    BY <1>7 DEF CoalesceSame, CoalesceConstrained, CoalesceDefer, CoalesceCombine, MayCoalesce
  <2>2. QED
    BY <1>1, <1>7, <2>1, CoalesceSorts, CoalesceCombineSorts
<1>8. CASE EndLoop
  BY <1>8 DEF EndLoop, MaySpill, MayFreeze, MayCoalesce, Worklists, MovesOwned, Sorted
<1>9. ASSUME NEW t \in Temp, AssignColor(t)
      PROVE  Worklists'
  <2>1. /\ phase = "color" /\ onlist[t] = "select"
        /\ UNCHANGED <<phase, moveList, alias>>
    BY <1>9 DEF AssignColor, Popped
  <2>2. \A n \in Node : onlist[n] = "coalesced" => onlist'[n] = "coalesced"
    BY <1>1, <1>9, <2>1, Kinds DEF AssignColor
  <2>3. QED
    BY <2>1, <2>2 DEF Worklists, MovesOwned, Sorted
<1>10. CASE FinishColors
  BY <1>10 DEF FinishColors, Worklists, Sorted
<1>11. CASE Finished \/ UNCHANGED vars
  <2>1. UNCHANGED vars
    BY <1>11 DEF Finished
  <2>2. QED
    BY <2>1 DEF vars, Worklists, MovesOwned, Sorted
<1>12. QED
  BY <1>2, <1>3, <1>4, <1>5, <1>6, <1>7, <1>8, <1>9, <1>10, <1>11 DEF Next, Coalesce

(* The worklists hold what their names promise whenever ngenregs chooses   *)
(* its next step, through simplification, coalescing and freezing, for     *)
(* every COLORMAP that fewer neighbours never make refuse.                 *)
THEOREM WorklistsRight ==
  ASSUME Monotone
  PROVE  Spec => []WorklistInvariant
<1>1. Init => Worklists
  BY DEF Init, Worklists, MovesOwned, Sorted
<1>2. AInv /\ AInv' /\ Worklists /\ [Next]_vars => Worklists'
  BY NextWorklists
<1>3. AInv /\ Worklists => WorklistInvariant
  BY DEF AInv, Round, Unmoved, Worklists, Sorted, WorklistInvariant
<1>4. QED
  BY <1>1, <1>2, <1>3, Invariance, PTL DEF Spec

-----------------------------------------------------------------------------
(* No register is wasted, for a COLORMAP that is Monotone and Honest.      *)

(* A node in the graph has for a neighbour the node its coalesced          *)
(* neighbours stand for, unless that has been pushed or cannot disturb it. *)
Seen ==
  Open =>
    \A t \in Temp : Within(t) =>
      \A x \in adj[t] :
        \/ alias[x] \in adj[t]
        \/ alias[x] \in Temp /\ pos[alias[x]] # 0
        \/ alias[x] \in Reg /\ aliasmap(cls[t], alias[x]) = {}

(* The nodes AssignColors looks at for t that have or get a colour first.  *)
Later(t) ==
  {y \in {alias[x] : x \in adj[t]} :
    IF y \in Reg THEN aliasmap(cls[t], y) # {} ELSE pos[y] = 0 \/ pos[y] > pos[t]}

LaterIn(t, c) == {y \in Later(t) : cls[y] = c}

Ready ==
  phase \in {"coalassign", "loop"} =>
    \A t \in Temp : onlist[t] = "simplify" /\ t \notin chosen => trivially_colorable(t, ncl)

(* A node on the stack was pushed with counts that bound those nodes.      *)
Space ==
  phase # "done" =>
    \A t \in Temp : onlist[t] = "select" /\ t \notin chosen =>
      /\ trivially_colorable(t, ncl)
      /\ \A c \in Class : Cardinality(LaterIn(t, c)) <= ncl[t][c]

Fits ==
  phase = "color" =>
    \A t \in Temp : /\ onlist[t] = "spilled" => t \in chosen
                    /\ onlist[t] = "colored" => color[t] \in classmask(cls[t])

Roomy == Seen /\ Ready /\ Space /\ Fits

LEMMA LaterNodes ==
  ASSUME TypeOK, NEW t \in Temp, NEW c
  PROVE  /\ LaterIn(t, c) \in SUBSET Node
         /\ IsFiniteSet(LaterIn(t, c))
         /\ Cardinality(LaterIn(t, c)) \in Nat
<1>1. LaterIn(t, c) \in SUBSET Node
  BY Kinds DEF LaterIn, Later
<1>2. QED
  BY <1>1, SomeNodes

(* What does not touch the graph, nor push, nor spoil a promise.           *)
LEMMA QuietRoomy ==
  ASSUME TypeOK, Round, Roomy, phase = "loop", Relists, chosen \subseteq chosen',
         UNCHANGED <<phase, adj, ncl, alias, pos>>,
         \A t \in Temp : onlist'[t] = "simplify" /\ onlist[t] # "simplify" /\ t \notin chosen' =>
                           trivially_colorable(t, ncl)
  PROVE  Roomy'
<1>1. \A t \in Temp : /\ onlist'[t] = "select" <=> onlist[t] = "select"
                      /\ onlist'[t] = "coalesced" <=> onlist[t] = "coalesced"
  BY DEF Relists, InGraph
<1>2. Seen'
  BY <1>1 DEF Roomy, Seen, Open, Within
<1>3. Ready'
  BY DEF Roomy, Ready
<1>4. \A t \in Temp, c \in Class : LaterIn(t, c)' = LaterIn(t, c)
  BY DEF LaterIn, Later
<1>5. Space'
  BY <1>1, <1>4 DEF Roomy, Space, trivially_colorable
<1>6. QED
  BY <1>2, <1>3, <1>5 DEF Roomy, Fits

LEMMA CoalesceRoomy ==
  ASSUME TypeOK, Round, Roomy, NEW m \in Move,
         CoalesceSame(m) \/ CoalesceConstrained(m) \/ CoalesceDefer(m)
  PROVE  Roomy'
<1>1. /\ phase = "loop" /\ UNCHANGED <<phase, adj, ncl, alias, pos, chosen>>
  BY DEF CoalesceSame, CoalesceConstrained, CoalesceDefer, MayCoalesce
<1>2. Relists
  BY <1>1, CoalesceSameKeeps, CoalesceConstrainedKeeps DEF CoalesceDefer, Relists
<1>3. \A t \in Temp : onlist'[t] = "simplify" /\ onlist[t] # "simplify" =>
                        trivially_colorable(t, ncl)
  BY Kinds DEF CoalesceSame, CoalesceConstrained, CoalesceDefer, AddWorkList
<1>4. QED
  BY <1>1, <1>2, <1>3, QuietRoomy

LEMMA FreezeRoomy ==
  ASSUME TypeOK, Round, Worklists, Roomy, NEW u \in Temp, Freeze(u) \/ SelectSpill(u)
  PROVE  Roomy'
<1>1. /\ phase = "loop" /\ FreezeMoves(u) /\ moveList' = moveList
      /\ UNCHANGED <<phase, adj, ncl, alias, pos>>
      /\ chosen \subseteq chosen' /\ (onlist[u] = "freeze" \/ u \in chosen')
      /\ onlist[u] \in {"freeze", "spill"}
  BY DEF Freeze, SelectSpill, MayFreeze, MaySpill, MayCoalesce, EasyFreeze,
     SpillCandidates, On
<1>2. Relists
  BY <1>1, FreezeMovesKeeps
<1>3. \A t \in Temp : onlist'[t] = "simplify" =>
                        onlist[t] \in {"simplify", "freeze"} \/ t = u
  BY <1>1, Kinds DEF FreezeMoves
<1>4. \A t \in Temp : onlist[t] = "freeze" => trivially_colorable(t, ncl)
  BY <1>1 DEF Worklists, Sorted
<1>5. QED
  BY <1>1, <1>2, <1>3, <1>4, QuietRoomy


LEMMA SimplifyRoomy ==
  ASSUME TypeOK, Round, Counts, Monotone, Roomy, NEW w \in Temp, Simplify(w)
  PROVE  Roomy'
<1> DEFINE o1 == [onlist EXCEPT ![w] = "select"]
           T  == {t \in adj[w] \cap Temp : o1[t] \notin Gone}
           n2 == Decremented(ncl, T, cls[w])
           X  == Crossed(T, ncl, n2)
<1>1. /\ phase = "loop" /\ onlist[w] = "simplify" /\ ncl' = n2 /\ w \in Node
      /\ onlist' = Relisted(o1, X, moveList, queue)
      /\ pos' = [pos EXCEPT ![w] = top]
      /\ UNCHANGED <<phase, adj, alias, chosen>>
  BY Kinds DEF Simplify
<1>2. /\ T \in SUBSET Temp /\ w \notin T /\ cls[w] \in Class /\ ncl \in NclType
      /\ \A t \in T : onlist[t] \notin Gone
  BY Kinds, NodesAssumption DEF TypeOK, NclType, Node
<1> HIDE DEF T
<1>3. \A t \in Temp : IF t \in X THEN t \in T /\ trivially_colorable(t, n2)
                      ELSE trivially_colorable(t, n2) <=> trivially_colorable(t, ncl)
  BY <1>2, CrossedEases
<1>4. \A t \in Temp : t \notin T => n2[t] = ncl[t]
  BY <1>2 DEF Decremented, NclType
<1> HIDE DEF X, n2
<1>5. \A n \in Node : o1[n] = IF n = w THEN "select" ELSE onlist[n]
  BY Kinds
<1>6. \A t \in Temp : /\ t \in X => onlist'[t] \in {"freeze", "simplify"}
                      /\ t \notin X /\ t # w => onlist'[t] = onlist[t]
                      /\ t = w => onlist'[t] = "select"
  BY <1>1, <1>2, <1>3, <1>5, Kinds DEF Relisted
<1>7. /\ pos[w] = 0 /\ top > 0 /\ top \in Nat
      /\ \A t \in Temp : /\ pos[t] < top /\ pos[t] \in Nat
                         /\ pos'[t] = IF t = w THEN top ELSE pos[t]
                         /\ pos[t] # 0 <=> onlist[t] = "select"
  BY <1>1, Kinds DEF Round, Stacked, Open
<1>8. Seen'
  <2> SUFFICES ASSUME NEW t \in Temp, Within(t)', NEW x \in adj[t]
               PROVE  \/ alias[x] \in adj[t]
                      \/ alias[x] \in Temp /\ pos'[alias[x]] # 0
                      \/ alias[x] \in Reg /\ aliasmap(cls[t], alias[x]) = {}
    BY <1>1 DEF Seen
  <2>1. Within(t)
    BY <1>2, <1>3, <1>6, <1>7 DEF Within, Gone
  <2>2. \A s \in Temp : pos[s] # 0 => pos'[s] # 0
    BY <1>7
  <2>3. QED
    BY <1>1, <2>1, <2>2 DEF Roomy, Seen, Open
<1>9. Ready'
  BY <1>1, <1>3, <1>6 DEF Roomy, Ready
<1>10. ASSUME NEW t \in Temp, onlist'[t] = "select", t \notin chosen
       PROVE  /\ trivially_colorable(t, n2)
              /\ \A c \in Class : Cardinality(LaterIn(t, c)') <= n2[t][c]
  <2>1. CASE t # w
    <3>1. onlist[t] = "select" /\ t \notin T
      BY <1>2, <1>3, <1>6, <1>10, <2>1 DEF Gone
    <3>2. /\ trivially_colorable(t, ncl)
          /\ \A c \in Class : Cardinality(LaterIn(t, c)) <= ncl[t][c]
      BY <1>1, <1>10, <3>1 DEF Roomy, Space
    <3>3. \A y \in Temp : (pos'[y] = 0 \/ pos'[y] > pos'[t]) <=> (pos[y] = 0 \/ pos[y] > pos[t])
      BY <1>7, <2>1
    <3>4. \A x \in adj[t] : alias[x] \in Reg \/ alias[x] \in Temp
      BY Kinds
    <3>5. ASSUME NEW c \in Class
          PROVE  LaterIn(t, c)' = LaterIn(t, c)
      <4>1. Later(t)' = Later(t)
        BY <1>1, <3>3, <3>4 DEF Later
      <4>2. QED
        BY <4>1 DEF LaterIn
    <3>6. QED
      BY <1>4, <3>1, <3>2, <3>5, SameDegrees
  <2>2. CASE t = w
    <3>1. n2[w] = ncl[w]
      BY <1>2, <1>4
    <3>2. trivially_colorable(w, ncl)
      BY <1>1, <1>10, <2>2 DEF Roomy, Ready
    <3>3. Within(w) /\ onlist[w] \notin Gone
      BY <1>1, <1>7 DEF Within, Gone
    <3>4. ASSUME NEW y \in Later(w)'
          PROVE  y \in adj[w] /\ onlist[y] \notin Gone
      <4>1. PICK x \in adj[w] : alias[x] = y
        BY <1>1 DEF Later
      <4>2. x \in Node /\ y \in Node /\ alias[y] = y
        BY <4>1, Kinds DEF Round, Aliases
      <4>3. IF y \in Reg THEN aliasmap(cls[w], y) # {} ELSE pos[y] = 0
        <5>1. CASE y \in Reg
          BY <5>1 DEF Later
        <5>2. CASE y \notin Reg
          <6>1. y \in Temp /\ (pos'[y] = 0 \/ pos'[y] > top)
            BY <1>7, <4>2, <5>2, Kinds DEF Later
          <6>2. QED
            BY <1>7, <5>2, <6>1
        <5>3. QED
          BY <5>1, <5>2
      <4>4. y \in adj[w]
        BY <1>1, <3>3, <4>1, <4>3, Kinds DEF Roomy, Seen, Open
      <4>5. onlist[y] \notin Gone
        BY <1>7, <4>2, <4>3, Kinds DEF Round, Aliases, Gone
      <4>6. QED
        BY <4>4, <4>5
    <3>5. ASSUME NEW c \in Class
          PROVE  Cardinality(LaterIn(w, c)') <= ncl[w][c]
      <4>1. LaterIn(w, c)' \subseteq Left(adj, onlist, w, c)
        BY <3>4 DEF LaterIn, Left
      <4>2. ncl[w][c] = Cardinality(Left(adj, onlist, w, c))
        BY <1>1, <3>3 DEF Counts, Open
      <4>3. QED
        BY <4>1, <4>2, LeftNodes, FS_Subset
    <3>6. QED
      BY <2>2, <3>1, <3>2, <3>5, SameDegrees
  <2>3. QED
    BY <2>1, <2>2
<1>11. Space'
  BY <1>1, <1>10 DEF Space
<1>12. Fits'
  BY <1>1 DEF Fits
<1>13. QED
  BY <1>8, <1>9, <1>11, <1>12 DEF Roomy


(* Combine leaves u for every neighbour to see where v was.                *)
LEMMA CombineSeen ==
  ASSUME TypeOK, Round, Roomy, phase \in {"coalassign", "loop"}, phase' = phase,
         NEW u, NEW v, NEW q0, Combines(u, v, q0),
         adj' = AdjWith(u, Linked(u, v)), pos' = pos,
         alias' = [n \in Node |-> IF alias[n] = v THEN u ELSE alias[n]],
         onlist'[v] = "coalesced",
         \A n \in Node \ {v} :
           onlist'[n] = onlist[n] \/ (onlist[n] \in InGraph /\ onlist'[n] \in InGraph)
  PROVE  Seen'
<1>1. /\ u \in Node /\ v \in Temp /\ v \in Node /\ u # v /\ alias[u] = u /\ alias[v] = v
      /\ onlist[v] \in InGraph /\ (u \in Temp => onlist[u] \in {"freeze", "spill"})
      /\ (u \in Temp => u \notin adj[v])
  BY Kinds DEF Combines, adjSet
<1>2. /\ \A t \in Temp : adj[t] \subseteq adj'[t]
      /\ u \in Temp => Linked(u, v) \subseteq adj'[u]
      /\ \A t \in Linked(u, v) \cap Temp : u \in adj'[t]
  BY <1>1, AdjGrows
<1>3. \A t \in Temp : adj'[t] = IF t = u THEN adj[t] \cup Linked(u, v)
                                ELSE IF t \in Linked(u, v) THEN adj[t] \cup {u} ELSE adj[t]
  BY DEF AdjWith
<1>4. \A s \in Linked(u, v) : s \in Neighbours(v) /\ s \in Node
  BY <1>1, Kinds DEF Linked, Neighbours
<1> SUFFICES ASSUME NEW t \in Temp, Within(t)', NEW x \in adj'[t], NEW y, y = alias'[x]
             PROVE  \/ y \in adj'[t]
                    \/ y \in Temp /\ pos[y] # 0
                    \/ y \in Reg /\ aliasmap(cls[t], y) = {}
  BY DEF Seen
<1>5. t # v /\ Within(t) /\ t \in Node /\ onlist[t] \notin Gone
  <2>1. t # v /\ t \in Node /\ onlist[t] # "coalesced" /\ pos[t] = 0
    BY <1>1, Kinds DEF Within, InGraph
  <2>2. onlist[t] # "select"
    BY <2>1 DEF Round, Stacked, Open
  <2>3. QED
    BY <2>1, <2>2 DEF Within, Gone
<1>6. Within(v) /\ (u \in Temp => Within(u))
  BY <1>1 DEF Round, Stacked, Open, Within, InGraph
<1>7. CASE x \notin adj[t]
  <2>1. (t = u /\ x \in Linked(u, v)) \/ x = u
    BY <1>3, <1>7
  <2>2. x # v /\ onlist[x] \notin Gone /\ x \in Node
    BY <1>1, <1>4, <2>1, Kinds DEF Neighbours, Gone
  <2>3. alias[x] = x
    BY <2>2 DEF Round, Aliases, Gone
  <2>4. y = x
    BY <2>2, <2>3
  <2>5. QED
    BY <2>4
<1>8. CASE x \in adj[t]
  <2>1. x \in Node /\ alias[x] \in Node
    BY <1>8, Kinds
  <2>2. \/ alias[x] \in adj[t]
        \/ alias[x] \in Temp /\ pos[alias[x]] # 0
        \/ alias[x] \in Reg /\ aliasmap(cls[t], alias[x]) = {}
    BY <1>5, <1>8 DEF Roomy, Seen, Open
  <2>3. CASE alias[x] # v
    <3>1. y = alias[x]
      BY <2>1, <2>3
    <3>2. QED
      BY <1>2, <2>2, <3>1
  <2>4. CASE alias[x] = v
    <3>1. y = u /\ v \in adj[t]
      BY <1>1, <1>6, <2>1, <2>2, <2>4, Kinds DEF Within
    <3>2. t \in adj[v]
      BY <1>1, <1>5, <1>6, <3>1 DEF Round, Symmetric, Open
    <3>3. t \in Neighbours(v) /\ t # u
      BY <1>1, <1>5, <3>2 DEF Neighbours
    <3>4. CASE u \in Temp
      <4>1. t \in adj[u] => u \in adj[t]
        BY <1>5, <1>6, <3>4 DEF Round, Symmetric, Open
      <4>2. t \in Linked(u, v) \/ t \in adj[u]
        BY <3>3, <3>4 DEF Linked
      <4>3. QED
        BY <1>2, <3>1, <4>1, <4>2
    <3>5. CASE u \in Reg
      <4>1. u \notin Temp
        BY <3>5, Kinds
      <4>2. t \in Linked(u, v) \/ u \in adj[t] \/ aliasmap(cls[t], u) = {}
        BY <3>3, <4>1 DEF Linked
      <4>3. QED
        BY <1>2, <3>1, <3>5, <4>2
    <3>6. QED
      BY <1>1, <3>4, <3>5, Kinds
  <2>5. QED
    BY <2>3, <2>4
<1>9. QED
  BY <1>7, <1>8

(* A pushed node gets no more of them: v's place is taken by u.            *)
LEMMA CombineLater ==
  ASSUME TypeOK, Round, phase \in {"coalassign", "loop"},
         NEW u, NEW v, NEW q0, Combines(u, v, q0), pos' = pos,
         alias' = [n \in Node |-> IF alias[n] = v THEN u ELSE alias[n]],
         NEW t \in Temp, adj'[t] = adj[t], NEW c \in Class
  PROVE  Cardinality(LaterIn(t, c)') <= Cardinality(LaterIn(t, c))
<1>1. /\ u \in Node /\ v \in Temp /\ v \notin Reg /\ u # v /\ cls[u] = cls[v] /\ pos[v] = 0
  BY Kinds DEF Combines, Round, Stacked, Open, InGraph
<1> DEFINE L == LaterIn(t, c)
           M == LaterIn(t, c)'
<1>2. ASSUME NEW y \in M
      PROVE  y \in L \/ (y = u /\ v \in L)
  <2>1. y \in Later(t)' /\ cls[y] = c
    BY DEF LaterIn
  <2>2. PICK x \in adj[t] : alias'[x] = y
    BY <2>1 DEF Later
  <2>3. x \in Node /\ alias[x] \in {alias[z] : z \in adj[t]}
    BY <2>2, Kinds
  <2>4. CASE alias[x] = v
    <3>1. y = u
      BY <2>2, <2>3, <2>4
    <3>2. v \in Later(t)
      BY <1>1, <2>3, <2>4 DEF Later
    <3>3. QED
      BY <1>1, <2>1, <3>1, <3>2 DEF LaterIn
  <2>5. CASE alias[x] # v
    <3>1. y = alias[x]
      BY <2>2, <2>3, <2>5
    <3>2. IF y \in Reg THEN aliasmap(cls[t], y) # {} ELSE pos[y] = 0 \/ pos[y] > pos[t]
      BY <2>1 DEF Later
    <3>3. QED
      BY <2>1, <2>3, <3>1, <3>2 DEF Later, LaterIn
  <2>6. QED
    BY <2>4, <2>5
<1>3. v \notin M
  <2>1. \A x \in adj[t] : alias'[x] # v
    BY <1>1, Kinds
  <2>2. QED
    BY <2>1 DEF LaterIn, Later
<1>4. IsFiniteSet(L) /\ Cardinality(L) \in Nat
  BY LaterNodes
<1> SUFFICES Cardinality(M) <= Cardinality(L)
  OBVIOUS
<1> HIDE DEF L, M
<1>5. CASE v \notin L
  BY <1>2, <1>4, <1>5, FS_Subset
<1>6. CASE v \in L
  <2>1. M \subseteq (L \ {v}) \cup {u}
    BY <1>2, <1>3
  <2>2. IsFiniteSet(L \ {v}) /\ Cardinality(L \ {v}) = Cardinality(L) - 1
    BY <1>4, <1>6, FS_RemoveElement
  <2>3. /\ IsFiniteSet((L \ {v}) \cup {u})
        /\ Cardinality((L \ {v}) \cup {u}) = IF u \in L \ {v} THEN Cardinality(L \ {v})
                                             ELSE Cardinality(L \ {v}) + 1
    BY <2>2, FS_AddElement
  <2>4. Cardinality(M) <= Cardinality((L \ {v}) \cup {u})
    BY <2>1, <2>3, FS_Subset
  <2>5. Cardinality(M) \in Nat
    BY <2>1, <2>3, FS_Subset, FS_CardinalityType
  <2>6. Cardinality((L \ {v}) \cup {u}) <= Cardinality(L)
    BY <1>4, <2>2, <2>3
  <2>7. Cardinality((L \ {v}) \cup {u}) \in Nat
    BY <2>3, FS_CardinalityType
  <2>8. QED
    BY <1>4, <2>4, <2>5, <2>6, <2>7
<1>7. QED
  BY <1>5, <1>6


LEMMA CombineRoomy ==
  ASSUME TypeOK, Round, Monotone, Roomy, phase \in {"coalassign", "loop"}, phase' = phase,
         NEW u, NEW v, NEW q0, Combines(u, v, q0), Combine(u, v, q0)
  PROVE  Roomy'
<1> DEFINE T  == Neighbours(v) \cap Temp
           S  == Linked(u, v)
           n1 == NclWith(u, S)
           X  == Crossed(T, n1, ncl')
<1>1. /\ u \in Node /\ v \in Temp /\ v \in Node /\ u # v
      /\ onlist[v] \in InGraph /\ (u \in Temp => u \notin adj[v] /\ onlist[u] \in {"freeze", "spill"})
      /\ q0 \in [Move -> Queues]
  BY Kinds DEF Combines, adjSet
<1>2. /\ adj' = AdjWith(u, Linked(u, v))
      /\ alias' = [n \in Node |-> IF alias[n] = v THEN u ELSE alias[n]]
      /\ onlist'[v] = "coalesced"
      /\ \A n \in Node \ {v} :
           onlist'[n] = onlist[n] \/ (onlist[n] \in InGraph /\ onlist'[n] \in InGraph)
  <2>1. \A t \in Temp : onlist[t] \in InGraph \cup Gone
    BY DEF Round, Listed, InGraph, Gone
  <2>2. QED
    BY <1>1, <2>1, CombineDoes
<1>3. pos' = pos /\ chosen' = chosen
  BY DEF Combine
<1>4. /\ ncl' = Decremented(n1, T, cls[v])
      /\ \A t \in Temp \ {u, v} :
           IF t \in X
           THEN \/ onlist'[t] = "freeze" /\ MoveRelated(moveList', q0, t)
                \/ onlist'[t] = "simplify"
           ELSE onlist'[t] = onlist[t]
      /\ u \in Temp =>
           /\ onlist'[u] = "freeze" => /\ trivially_colorable(u, ncl')
                                       /\ MoveRelated(moveList', q0, u)
           /\ onlist'[u] = "spill" => onlist[u] = "spill" \/ ~ trivially_colorable(u, ncl')
           /\ onlist'[u] = "simplify" => trivially_colorable(u, ncl')
  BY <1>1, CombineLists
<1>5. \A t \in Temp : t # u =>
        IF t \in X THEN t \in Neighbours(v) /\ trivially_colorable(t, ncl')
        ELSE trivially_colorable(t, ncl') <=> trivially_colorable(t, ncl)
  BY <1>4, CombineEases
<1> HIDE DEF X
<1>6. Ready'
  <2> SUFFICES ASSUME NEW t \in Temp, onlist'[t] = "simplify", t \notin chosen
               PROVE  trivially_colorable(t, ncl')
    BY <1>3 DEF Ready
  <2>1. t # v /\ (t # u /\ t \notin X => onlist[t] = "simplify")
    BY <1>2, <1>4
  <2>2. onlist[t] = "simplify" => trivially_colorable(t, ncl)
    BY <1>3 DEF Roomy, Ready
  <2>3. QED
    BY <1>4, <1>5, <2>1, <2>2
<1>7. ASSUME NEW t \in Temp, onlist'[t] = "select", t \notin chosen
      PROVE  /\ trivially_colorable(t, ncl')
             /\ \A c \in Class : Cardinality(LaterIn(t, c)') <= ncl'[t][c]
  <2>1. onlist[t] = "select" /\ t \notin {u, v} /\ t \in Node
    BY <1>1, <1>2, <1>7, Kinds DEF InGraph
  <2>2. /\ trivially_colorable(t, ncl)
        /\ \A c \in Class : Cardinality(LaterIn(t, c)) <= ncl[t][c]
    BY <1>7, <2>1 DEF Roomy, Space
  <2>3. t \notin Neighbours(v) /\ t \notin S
    <3>1. t \notin Neighbours(v)
      BY <2>1 DEF Neighbours, Gone
    <3>2. QED
      BY <3>1 DEF Linked
  <2>4. adj'[t] = adj[t]
    BY <1>2, <2>1, <2>3 DEF AdjWith
  <2>5. ncl[t] \in [Class -> Nat]
    BY DEF TypeOK
  <2>6. n1[t] = ncl[t]
    <3> HIDE DEF S
    <3>1. n1[t] = [c \in Class |-> ncl[t][c] + 0]
      BY <2>1, <2>3 DEF NclWith
    <3>2. QED
      BY <2>5, <3>1
  <2>7. ncl'[t] = ncl[t]
    <3>1. t \notin T
      BY <2>3
    <3> HIDE DEF T, n1
    <3>2. QED
      BY <1>4, <2>6, <3>1 DEF Decremented
  <2>8. ASSUME NEW c \in Class
        PROVE  Cardinality(LaterIn(t, c)') <= ncl[t][c]
    <3>1. Cardinality(LaterIn(t, c)') <= Cardinality(LaterIn(t, c))
      BY <1>2, <1>3, <2>4, CombineLater
    <3>2. Cardinality(LaterIn(t, c)) \in Nat /\ ncl[t][c] \in Nat
      BY <2>5, LaterNodes
    <3>3. Cardinality(LaterIn(t, c)') \in Nat
      <4>1. adj'[t] \subseteq Node /\ \A x \in Node : alias'[x] \in Node
        BY <1>1, <1>2, <2>4, Kinds
      <4>2. LaterIn(t, c)' \subseteq Node
        BY <4>1 DEF LaterIn, Later
      <4>3. QED
        BY <4>2, SomeNodes
    <3>4. Cardinality(LaterIn(t, c)) <= ncl[t][c]
      BY <2>2
    <3>5. QED
      BY <3>1, <3>2, <3>3, <3>4
  <2>9. QED
    BY <2>2, <2>7, <2>8, SameDegrees
<1>8. Seen'
  BY <1>2, <1>3, CombineSeen
<1>9. Space' /\ Fits'
  BY <1>3, <1>7 DEF Space, Fits
<1>10. QED
  BY <1>6, <1>8, <1>9 DEF Roomy


(* The colours of the nodes of a class that have one are no more than the  *)
(* nodes.                                                                  *)
LEMMA ColoursOfNodes ==
  ASSUME NEW K, IsFiniteSet(K), NEW C, \A x \in C : \E y \in K : color[y] = x,
         \A y \in K : color[y] \in C
  PROVE  Cardinality(C) <= Cardinality(K)
<1> DEFINE f == [y \in K |-> color[y]]
<1>1. f \in [K -> C]
  OBVIOUS
<1>2. \A x \in C : \E y \in K : f[y] = x
  OBVIOUS
<1>3. f \in Surjection(K, C)
  BY <1>1, <1>2 DEF Surjection
<1>4. QED
  BY <1>3, FS_Surjection

(* A node that was pushed with room for it has a colour left.              *)
LEMMA ColourLeft ==
  ASSUME TypeOK, Round, Honest, Roomy, phase = "color", NEW w \in Temp,
         onlist[w] = "select", w \notin chosen
  PROVE  okColors(w) # {}
<1> DEFINE K == {y \in Later(w) : IsColored(y)}
           R == {color[y] : y \in K}
           cap == [c \in Class |-> IF ncl[w][c] < regK(c) THEN ncl[w][c] ELSE regK(c)]
<1>1. /\ Colormap(cls[w], cap)
      /\ \A c \in Class : Cardinality(LaterIn(w, c)) <= ncl[w][c]
  BY DEF Roomy, Space, trivially_colorable
<1>2. cap \in Degrees /\ cls[w] \in Class
  <2>1. ncl \in NclType
    BY DEF TypeOK, NclType
  <2>2. cls[w] \in Class
    BY NodesAssumption DEF Node
  <2>3. QED
    BY <2>1, <2>2, Capped
<1>3. \A y \in K : y \in Node /\ color[y] \in classmask(cls[y])
  <2> SUFFICES ASSUME NEW y \in K
               PROVE  y \in Node /\ color[y] \in classmask(cls[y])
    OBVIOUS
  <2>1. y \in Node /\ IsColored(y)
    BY Kinds DEF Later
  <2>2. CASE y \in Reg
    BY <2>1, <2>2 DEF Round, Colours, classmask
  <2>3. CASE y \in Temp
    <3>1. onlist[y] = "colored"
      BY <2>1, <2>3, Kinds DEF IsColored
    <3>2. QED
      BY <2>1, <2>3, <3>1 DEF Roomy, Fits
  <2>4. QED
    BY <2>1, <2>2, <2>3, Kinds
<1>4. R \in SUBSET Reg
  BY <1>3 DEF classmask
<1>5. ASSUME NEW c \in Class
      PROVE  Cardinality(R \cap classmask(c)) <= cap[c]
  <2> DEFINE C == R \cap classmask(c)
             Kc == {y \in K : cls[y] = c}
  <2>1. \A x \in C : \E y \in Kc : color[y] = x
    BY <1>3 DEF classmask
  <2>2. \A y \in Kc : color[y] \in C
    BY <1>3
  <2>3. Kc \subseteq LaterIn(w, c)
    BY DEF LaterIn
  <2>4. C \subseteq classmask(c) /\ C \subseteq Reg
    BY <1>4
  <2> HIDE DEF Kc, C, cap
  <2>5. IsFiniteSet(Kc) /\ Cardinality(Kc) <= Cardinality(LaterIn(w, c))
    BY <2>3, LaterNodes, FS_Subset
  <2>6. Cardinality(C) <= Cardinality(Kc)
    BY <2>1, <2>2, <2>5, ColoursOfNodes
  <2>7. IsFiniteSet(classmask(c)) /\ IsFiniteSet(C)
    BY <2>4, NodesAssumption, FS_Subset DEF classmask
  <2>8. Cardinality(C) <= regK(c)
    BY <2>4, <2>7, FS_Subset DEF regK
  <2>9. /\ Cardinality(C) \in Nat /\ Cardinality(Kc) \in Nat
        /\ Cardinality(LaterIn(w, c)) \in Nat /\ ncl[w][c] \in Nat /\ regK(c) \in Nat
    BY <2>5, <2>7, LaterNodes, FS_CardinalityType DEF regK, TypeOK
  <2>10. Cardinality(LaterIn(w, c)) <= ncl[w][c]
    BY <1>1
  <2>11. Cardinality(C) <= ncl[w][c]
    BY <2>5, <2>6, <2>9, <2>10
  <2>12. cap[c] = IF ncl[w][c] < regK(c) THEN ncl[w][c] ELSE regK(c)
    BY DEF cap
  <2>13. Cardinality(C) <= cap[c]
    BY <2>8, <2>11, <2>12
  <2>14. QED
    BY <2>13 DEF C
<1> HIDE DEF cap, R
<1>6. PICK s \in classmask(cls[w]) : \A r \in R : s \notin aliasmap(cls[w], r)
  BY <1>1, <1>2, <1>4, <1>5 DEF Honest
<1>7. ASSUME NEW x \in adj[w], IsColored(alias[x])
      PROVE  s \notin aliasmap(cls[w], color[alias[x]])
  <2>1. x \in Node /\ alias[x] \in Node
    BY Kinds
  <2>2. CASE alias[x] \in Later(w)
    BY <1>6, <1>7, <2>2 DEF R
  <2>3. CASE alias[x] \notin Later(w)
    <3>1. CASE alias[x] \in Reg
      <4>1. color[alias[x]] = alias[x]
        BY <3>1 DEF Round, Colours
      <4>2. QED
        BY <2>3, <3>1, <4>1 DEF Later
    <3>2. CASE alias[x] \in Temp
      <4>1. onlist[alias[x]] = "colored"
        BY <1>7, <2>1, <3>2, Kinds DEF IsColored
      <4>2. pos[w] < pos[alias[x]]
        BY <3>2, <4>1 DEF Round, Stacked
      <4>3. pos[w] \in Nat /\ pos[alias[x]] \in Nat /\ alias[x] \notin Reg
        BY <3>2, Kinds
      <4>4. QED
        BY <2>3, <4>2, <4>3 DEF Later
    <3>3. QED
      BY <2>1, <3>1, <3>2, Kinds
  <2>4. QED
    BY <2>2, <2>3
<1>8. s \in okColors(w)
  BY <1>6, <1>7 DEF okColors
<1>9. QED
  BY <1>8

LEMMA AssignColorRoomy ==
  ASSUME TypeOK, Round, Honest, Roomy, NEW w \in Temp, AssignColor(w)
  PROVE  Roomy'
<1>1. /\ phase = "color" /\ onlist[w] = "select"
      /\ UNCHANGED <<phase, adj, ncl, alias, pos, chosen>>
  BY DEF AssignColor, Popped
<1>2. \/ okColors(w) = {} /\ onlist' = [onlist EXCEPT ![w] = "spilled"] /\ color' = color
      \/ /\ onlist' = [onlist EXCEPT ![w] = "colored"]
         /\ \E c \in okColors(w) : color' = [color EXCEPT ![w] = c]
  <2>1. \A c \in colfind(okColors(w), w) : c \in okColors(w)
    BY DEF colfind, Recommended
  <2>2. QED
    BY <2>1 DEF AssignColor
<1>3. okColors(w) = {} => w \in chosen
  BY <1>1, ColourLeft
<1>4. Fits'
  <2> SUFFICES ASSUME NEW t \in Temp
               PROVE  /\ onlist'[t] = "spilled" => t \in chosen
                      /\ onlist'[t] = "colored" => color'[t] \in classmask(cls[t])
    BY <1>1 DEF Fits
  <2>1. \A c \in okColors(w) : c \in classmask(cls[w])
    BY DEF okColors
  <2>2. CASE t = w
    BY <1>2, <1>3, <2>1, <2>2, Kinds
  <2>3. CASE t # w
    BY <1>1, <1>2, <2>3, Kinds DEF Roomy, Fits
  <2>4. QED
    BY <2>2, <2>3
<1>5. Space'
  <2>1. \A t \in Temp : onlist'[t] = "select" => onlist[t] = "select"
    BY <1>2, Kinds
  <2>2. \A t \in Temp, c \in Class : LaterIn(t, c)' = LaterIn(t, c)
    BY <1>1 DEF LaterIn, Later
  <2>3. QED
    BY <1>1, <2>1, <2>2 DEF Roomy, Space, trivially_colorable
<1>6. QED
  BY <1>1, <1>4, <1>5 DEF Roomy, Seen, Ready, Open


LEMMA BuildRoomy ==
  ASSUME TypeOK, TypeOK', Round', Roomy, Build \/ MkWorklist
  PROVE  Roomy'
<1>1. phase = "build" /\ phase' \in {"build", "coalassign"} /\ alias' = alias
  BY DEF Build, AddEdge, moveadd, MkWorklist
<1>2. \A t \in Temp : onlist'[t] # "select"
  BY <1>1 DEF Round, Listed
<1>3. \A n \in Node : alias'[n] = n
  <2>1. Build => onlist' = onlist
    BY DEF Build, AddEdge, moveadd
  <2>2. \A n \in Node : onlist'[n] # "coalesced"
    <3>1. CASE Build
      <4>1. phase' = "build"
        BY <3>1 DEF Build, AddEdge, moveadd
      <4>2. \A t \in Temp : onlist'[t] = "initial"
        BY <4>1 DEF Round, Listed
      <4>3. \A r \in Reg : onlist'[r] = "precolored"
        BY DEF TypeOK, Node
      <4>4. QED
        BY <4>2, <4>3 DEF Node
    <3>2. CASE MkWorklist
      BY <3>2, Kinds DEF MkWorklist
    <3>3. QED
      BY <3>1, <3>2
  <2>3. QED
    BY <2>2 DEF Round, Aliases
<1>4. \A t \in Temp : adj'[t] \subseteq Node
  BY DEF TypeOK
<1>5. Seen'
  BY <1>3, <1>4 DEF Seen
<1>6. Ready'
  <2>1. Build => phase' = "build"
    BY DEF Build, AddEdge, moveadd
  <2>2. MkWorklist => \A t \in Temp : onlist'[t] = "simplify" => trivially_colorable(t, ncl')
    BY Kinds DEF MkWorklist
  <2>3. QED
    BY <2>1, <2>2 DEF Ready
<1>7. QED
  BY <1>1, <1>2, <1>5, <1>6 DEF Roomy, Space, Fits

LEMMA FinishColorsSpills ==
  ASSUME TypeOK, Round, Roomy, FinishColors
  PROVE  NoSpuriousSpill'
<1>1. /\ phase = "color" /\ alias' = alias /\ chosen' = chosen
      /\ onlist' = [n \in Node |->
             IF onlist[n] = "coalesced" /\ onlist[alias[n]] = "spilled"
             THEN "spilled" ELSE onlist[n]]
  BY DEF FinishColors
<1>2. \A t \in Temp : onlist[t] = "spilled" => t \in chosen
  BY <1>1 DEF Roomy, Fits
<1>3. ASSUME NEW t \in Temp, onlist'[t] = "spilled"
      PROVE  alias[t] \in chosen
  <2>1. t \in Node /\ alias[t] \in Node
    BY Kinds
  <2>2. CASE onlist[t] = "spilled"
    <3>1. alias[t] = t
      BY <2>1, <2>2 DEF Round, Aliases
    <3>2. QED
      BY <1>2, <2>2, <3>1
  <2>3. CASE onlist[alias[t]] = "spilled"
    BY <1>2, <2>1, <2>3, Kinds
  <2>4. QED
    BY <1>1, <1>3, <2>1, <2>2, <2>3
<1>4. QED
  BY <1>1, <1>3 DEF NoSpuriousSpill

Earned == NoSpuriousSpill /\ (phase # "done" => Roomy)

LEMMA NextEarned ==
  ASSUME Monotone, Honest, AInv, AInv', Counts, Worklists, Earned, [Next]_vars
  PROVE  Earned'
<1>1. TypeOK /\ TypeOK' /\ (phase # "done" => Round) /\ (phase' # "done" => Round')
      /\ (phase # "done" => Roomy)
  BY DEF AInv, Earned
<1>2. Roomy' /\ phase' # "done" => Earned'
  BY DEF Earned, NoSpuriousSpill
<1>3. CASE Build \/ MkWorklist
  <2>1. phase = "build" /\ phase' # "done"
    BY <1>3 DEF Build, AddEdge, moveadd, MkWorklist
  <2>2. QED
    BY <1>1, <1>2, <1>3, <2>1, BuildRoomy
<1>4. CASE StartLoop
  <2>1. /\ phase = "coalassign" /\ phase' = "loop"
        /\ UNCHANGED <<adj, ncl, onlist, alias, pos, color, chosen>>
    BY <1>4 DEF StartLoop
  <2>2. Seen' /\ Ready' /\ Fits'
    BY <1>1, <2>1 DEF Roomy, Seen, Ready, Fits, Open, Within, trivially_colorable
  <2>3. Space'
    BY <1>1, <2>1 DEF Roomy, Space, LaterIn, Later, trivially_colorable
  <2>4. QED
    BY <1>2, <2>1, <2>2, <2>3 DEF Roomy
<1>5. ASSUME NEW u \in Node, NEW v \in Temp, coalasg(u, v)
      PROVE  Earned'
  <2>1. phase = "coalassign" /\ phase' = phase /\ Combine(u, v, queue)
    BY <1>5 DEF coalasg
  <2>2. Combines(u, v, queue)
    BY <1>1, <1>5, <2>1, coalasgCombines
  <2>3. QED
    BY <1>1, <1>2, <2>1, <2>2, CombineRoomy
<1>6. ASSUME NEW t \in Temp, Simplify(t) \/ Freeze(t) \/ SelectSpill(t)
      PROVE  Earned'
  <2>1. phase = "loop" /\ phase' = phase
    BY <1>6 DEF Simplify, Freeze, SelectSpill, MaySpill, MayFreeze, MayCoalesce
  <2>2. QED
    BY <1>1, <1>2, <1>6, <2>1, SimplifyRoomy, FreezeRoomy
<1>7. ASSUME NEW m \in Move, CoalesceSame(m) \/ CoalesceConstrained(m) \/ CoalesceDefer(m)
      PROVE  Earned'
  <2>1. phase = "loop" /\ phase' = phase
    BY <1>7 DEF CoalesceSame, CoalesceConstrained, CoalesceDefer, MayCoalesce
  <2>2. QED
    BY <1>1, <1>2, <1>7, <2>1, CoalesceRoomy
<1>8. ASSUME NEW m \in Move, CoalesceCombine(m)
      PROVE  Earned'
  <2>1. /\ phase = "loop" /\ phase' = phase
        /\ Combine(EndU(m), EndV(m), [queue EXCEPT ![m] = "coal"])
    BY <1>8 DEF CoalesceCombine, MayCoalesce
  <2>2. Combines(EndU(m), EndV(m), [queue EXCEPT ![m] = "coal"])
    BY <1>1, <1>8, <2>1, CoalesceCombines
  <2>3. QED
    BY <1>1, <1>2, <2>1, <2>2, CombineRoomy
<1>9. CASE EndLoop
  <2>1. /\ phase = "loop" /\ phase' = "color"
        /\ UNCHANGED <<adj, ncl, onlist, alias, pos, color, chosen>>
    BY <1>9 DEF EndLoop, MaySpill, MayFreeze, MayCoalesce
  <2>2. Seen' /\ Ready'
    BY <2>1 DEF Seen, Ready, Open
  <2>3. Fits'
    BY <1>1, <2>1 DEF Fits, Round, Listed
  <2>4. Space'
    BY <1>1, <2>1 DEF Roomy, Space, LaterIn, Later, trivially_colorable
  <2>5. QED
    BY <1>2, <2>1, <2>2, <2>3, <2>4 DEF Roomy
<1>10. ASSUME NEW t \in Temp, AssignColor(t)
       PROVE  Earned'
  <2>1. phase = "color" /\ phase' = phase
    BY <1>10 DEF AssignColor
  <2>2. QED
    BY <1>1, <1>2, <1>10, <2>1, AssignColorRoomy
<1>11. CASE FinishColors
  <2>1. phase = "color" /\ phase' = "done"
    BY <1>11 DEF FinishColors
  <2>2. QED
    BY <1>1, <1>11, <2>1, FinishColorsSpills DEF Earned
<1>12. CASE Finished \/ UNCHANGED vars
  <2>1. UNCHANGED <<phase, adj, ncl, onlist, alias, pos, color, chosen>>
    BY <1>12 DEF Finished, vars
  <2>2. NoSpuriousSpill'
    BY <2>1 DEF Earned, NoSpuriousSpill
  <2>3. phase # "done" => Seen' /\ Ready' /\ Fits'
    BY <1>1, <2>1 DEF Roomy, Seen, Ready, Fits, Open, Within, trivially_colorable
  <2>4. phase # "done" => Space'
    BY <1>1, <2>1 DEF Roomy, Space, LaterIn, Later, trivially_colorable
  <2>5. QED
    BY <2>1, <2>2, <2>3, <2>4 DEF Earned, Roomy
<1>13. QED
  BY <1>3, <1>4, <1>5, <1>6, <1>7, <1>8, <1>9, <1>10, <1>11, <1>12 DEF Next, Coalesce

(* Whatever is simplified, coalesced or frozen on the way, a node goes to  *)
(* memory only if SelectSpill has picked it, or the node it was coalesced  *)
(* into: for every COLORMAP that keeps its word and never refuses a node   *)
(* for having fewer neighbours.                                            *)
THEOREM SpillsAreChosen ==
  ASSUME Monotone, Honest
  PROVE  Spec => []NoSpuriousSpill
<1>1. Init => Counts /\ Worklists /\ Earned
  <2>1. Init => Earned
    <3> SUFFICES ASSUME Init
                 PROVE  Earned
      OBVIOUS
    <3>1. Seen
      BY DEF Init, Seen
    <3>2. Ready /\ Space /\ Fits /\ NoSpuriousSpill
      BY NodesAssumption DEF Init, Ready, Space, Fits, NoSpuriousSpill, Node
    <3>3. QED
      BY <3>1, <3>2 DEF Earned, Roomy
  <2>2. Init => Worklists
    BY DEF Init, Worklists, MovesOwned, Sorted
  <2>3. QED
    BY <2>1, <2>2, InitCounts
<1>2. AInv /\ AInv' /\ Counts /\ [Next]_vars => Counts'
  BY NextCounts
<1>3. AInv /\ AInv' /\ Worklists /\ [Next]_vars => Worklists'
  BY NextWorklists
<1>4. AInv /\ AInv' /\ Counts /\ Worklists /\ Earned /\ [Next]_vars => Earned'
  BY NextEarned
<1>5. Earned => NoSpuriousSpill
  BY DEF Earned
<1>6. QED
  BY <1>1, <1>2, <1>3, <1>4, <1>5, Invariance, PTL DEF Spec

=============================================================================
