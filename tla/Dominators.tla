----------------------------- MODULE Dominators -----------------------------
(***************************************************************************)
(* The flow graph of a function, its dominators and their frontiers, as    *)
(* cfg_build, dominators and computeDF of pcc/mip/optim2.c find them.      *)
(*                                                                         *)
(* Block 1 is the prologue with the moves of the arguments, the last one   *)
(* the return label with the epilogue.  Blocks are known by their number   *)
(* in the list p2e->bblocks; semi, ancestor, idom and samedom hold numbers *)
(* in depth-first order as in the code, 0 being none.                      *)
(***************************************************************************)
EXTENDS Integers, FiniteSets, SequencesExt

CONSTANTS
  NBlocks,    \* basic blocks
  BranchOn,   \* may a conditional branch go to the block behind it?
  MaxTaken    \* bound on the number of times &&label stands in the function

Block == 1 .. NBlocks
Order == 0 .. NBlocks

ASSUME DominatorsAssumption ==
  /\ NBlocks \in Nat /\ NBlocks > 1
  /\ BranchOn \in BOOLEAN
  /\ MaxTaken \in Nat

VARIABLES
  jump,                \* how each block ends: <<kind, target>>
  ip_labels,           \* the blocks whose labels && is used on, once per use
  dfnum, dfparent,     \* set by cfg_dfs, 0 for unreachable blocks
  arr,                 \* bbinfo.arr: the reachable blocks in depth-first order
  semi, ancestor, idom, samedom, bucket,
  dfchildren,          \* the dominator tree
  df,                  \* the dominance frontier
  h,                   \* dominators' loop variable
  pc

domvars == <<jump, ip_labels, dfnum, dfparent, arr, semi, ancestor, idom, samedom, bucket,
             dfchildren, df, h>>

-----------------------------------------------------------------------------
(* The graph.  A branch has its target as first child; a goto to something *)
(* other than a constant may go to every label that && is used on.         *)
kind(b) == jump[b][1]

child(b) ==
  IF b = NBlocks THEN <<>>
  ELSE CASE kind(b) = "goto" -> <<jump[b][2]>>
         [] kind(b) = "computed" -> ip_labels
         [] kind(b) = "cbranch" -> <<jump[b][2], b + 1>>
         [] kind(b) = "fall" -> <<b + 1>>

(* The blocks a block is a child of, twice if it is so twice. *)
parents(b) ==
  LET times(c) == Cardinality({k \in DOMAIN child(c) : child(c)[k] = b})
  IN FlattenSeq([c \in Block |-> [k \in 1 .. times(c) |-> c]])

Edge(a, b) == \E k \in DOMAIN child(a) : child(a)[k] = b

Labelled(b) ==
  \/ b = NBlocks
  \/ b \in ToSet(ip_labels)
  \/ \E c \in Block : kind(c) \in {"goto", "cbranch"} /\ jump[c][2] = b

Jump == {<<"fall", 0>>, <<"computed", 0>>}
        \cup ({"goto", "cbranch"} \X (2 .. NBlocks))

(* The return label is the compiler's own.                                 *)
Taken == UNION {[1 .. n -> 2 .. NBlocks - 1] : n \in 0 .. MaxTaken}

(* A block ends where a jump or a label makes it end; deljumps has removed *)
(* the jumps to the next statement.  && is tried only where there is a     *)
(* goto that uses it.                                                      *)
Graph ==
  /\ jump[1] = <<"fall", 0>> /\ jump[NBlocks] = <<"fall", 0>>
  /\ \A b \in 2 .. NBlocks - 1 :
       /\ kind(b) = "fall" => Labelled(b + 1)
       /\ jump[b] # <<"goto", b + 1>>
       /\ jump[b] = <<"cbranch", b + 1>> => BranchOn
  /\ ip_labels # <<>> => \E b \in Block : kind(b) = "computed"

-----------------------------------------------------------------------------
(* cfg_dfs from the first block.  The recursion is a stack of the calls    *)
(* still to be made, as pairs of a block and the number of its parent;     *)
(* Rounds is more than can ever be made.                                   *)
Calls(b, n) == [k \in DOMAIN child(b) |-> <<child(b)[k], n>>]

Rounds == (Len(ip_labels) + 2) * NBlocks

dfs ==
  LET f[k \in 0 .. Rounds] ==
        IF k = 0
        THEN [parent |-> [b \in Block |-> 0], arr |-> <<>>, calls |-> <<<<1, 0>>>>]
        ELSE LET s == f[k - 1]
                 b == s.calls[1][1]
                 n == Len(s.arr) + 1
             IN IF s.calls = <<>> THEN s
                ELSE IF b \in ToSet(s.arr) THEN [s EXCEPT !.calls = Tail(@)]
                ELSE [parent |-> [s.parent EXCEPT ![b] = s.calls[1][2]],
                      arr |-> Append(s.arr, b),
                      calls |-> Calls(b, n) \o Tail(s.calls)]
  IN f[Rounds]

Size == Len(arr)

cfg_dfs ==
  /\ pc = "dfs"
  /\ \E d \in {dfs} :
       /\ dfparent' = d.parent
       /\ arr' = d.arr
       /\ dfnum' = [b \in Block |-> IF b \in ToSet(d.arr)
                                  THEN CHOOSE n \in DOMAIN d.arr : d.arr[n] = b ELSE 0]
       /\ h' = Len(d.arr)
  /\ pc' = "semi"
  /\ UNCHANGED <<jump, ip_labels, semi, ancestor, idom, samedom, bucket, dfchildren, df>>

-----------------------------------------------------------------------------
(* dominators: blocks in reverse order; the semi-dominator of each, and    *)
(* what follows for the blocks whose semi-dominator is its parent.         *)
ancestorwithlowestsemi(b, sm, anc) ==
  LET f[k \in Order] ==      \* <<u, v>> after k rounds
        IF k = 0 THEN <<b, b>>
        ELSE LET g == f[k - 1]
                 v == g[2]
             IN IF anc[v] = 0 THEN g
                ELSE <<IF sm[v] < sm[g[1]] THEN v ELSE g[1], arr[anc[v]]>>
  IN f[NBlocks][1]

Least(S) == CHOOSE n \in S : \A m \in S : n <= m

(* The number of b's semi-dominator. *)
SemiOf(b) ==
  Least({dfparent[b]} \cup
        {IF dfnum[c] <= dfnum[b] THEN dfnum[c]
         ELSE semi[ancestorwithlowestsemi(c, semi, ancestor)] :
           c \in {x \in ToSet(parents(b)) : dfnum[x] # 0}})

Semi ==
  /\ pc = "semi" /\ h > 1
  /\ \E b \in {arr[h]}, p \in {dfparent[arr[h]]}, s \in {SemiOf(arr[h])} :
       /\ semi' = [semi EXCEPT ![b] = s]
       /\ ancestor' = [ancestor EXCEPT ![b] = p]
       /\ \E in \in {bucket[arr[p]] \cup IF arr[s] = arr[p] THEN {h} ELSE {}} :
          \E low \in {[n \in in |-> ancestorwithlowestsemi(arr[n], semi', ancestor')]} :
          \E own \in {{n \in in : semi'[low[n]] = semi'[arr[n]]}} :
            /\ idom' = [v \in Block |-> IF dfnum[v] \in own THEN p ELSE idom[v]]
            /\ samedom' = [v \in Block |-> IF dfnum[v] \in in \ own
                                           THEN dfnum[low[dfnum[v]]] ELSE samedom[v]]
       /\ bucket' = [[bucket EXCEPT ![arr[s]] = @ \cup {h}] EXCEPT ![arr[p]] = {}]
  /\ h' = h - 1
  /\ UNCHANGED <<jump, ip_labels, dfnum, dfparent, arr, dfchildren, df, pc>>

(* Variant: the deferred blocks are forgotten. *)
SameDomNotDone ==
  /\ pc = "semi" /\ h <= 1
  /\ dfchildren' = [b \in Block |->
       {n \in DOMAIN arr : dfnum[b] # 0 /\ idom[arr[n]] = dfnum[b] /\ arr[n] # b}]
  /\ pc' = "df"
  /\ UNCHANGED <<jump, ip_labels, dfnum, dfparent, arr, semi, ancestor, idom, samedom, bucket, df, h>>

(* The second loop, in depth-first order, and the dominator tree. *)
SameDom ==
  LET f[n \in Order] ==    \* the idoms when the blocks up to number n are done
        IF n = 0 THEN idom
        ELSE LET g == f[n - 1]
             IN IF n \in 2 .. Size /\ samedom[arr[n]] # 0
                THEN [g EXCEPT ![arr[n]] = g[arr[samedom[arr[n]]]]]
                ELSE g
  IN /\ pc = "semi" /\ h <= 1
     /\ idom' = f[NBlocks]
     /\ dfchildren' = [b \in Block |->
          {n \in DOMAIN arr : dfnum[b] # 0 /\ idom'[arr[n]] = dfnum[b] /\ arr[n] # b}]
     /\ pc' = "df"
     /\ UNCHANGED <<jump, ip_labels, dfnum, dfparent, arr, semi, ancestor, samedom, bucket, df, h>>

-----------------------------------------------------------------------------
(* computeDF: a block's own children it does not dominate immediately, and *)
(* what its children in the tree hand up.  Children have higher numbers.   *)
Own(b) == {dfnum[c] : c \in {x \in ToSet(child(b)) : idom[x] # dfnum[b]}}
(* Variant: a loop head is not in its own frontier. *)
PassedUp(b, i) == idom[arr[i]] # dfnum[b] /\ arr[i] # b

Passed(b, i) == arr[i] = b \/ idom[arr[i]] # dfnum[b]

computeDF ==
  LET f[k \in Order] ==   \* the frontiers of the blocks numbered above Size - k
        IF k = 0 THEN df
        ELSE IF k > Size THEN f[k - 1]
        ELSE LET g == f[k - 1]
                 b == arr[Size + 1 - k]
                 up == UNION {g[arr[n]] : n \in dfchildren[b]}
             IN [g EXCEPT ![b] = Own(b) \cup {i \in up : Passed(b, i)}]
  IN /\ pc = "df"
     /\ df' = f[NBlocks]
     /\ pc' = "phi"
     /\ UNCHANGED <<jump, ip_labels, dfnum, dfparent, arr, semi, ancestor, idom, samedom, bucket,
                    dfchildren, h>>

-----------------------------------------------------------------------------
DomInit ==
  /\ jump \in [Block -> Jump]
  /\ ip_labels \in Taken
  /\ Graph
  /\ dfnum = [b \in Block |-> 0]
  /\ dfparent = dfnum
  /\ arr = <<>>
  /\ semi = dfnum
  /\ ancestor = dfnum
  /\ idom = dfnum
  /\ samedom = dfnum
  /\ bucket = [b \in Block |-> {}]
  /\ dfchildren = bucket
  /\ df = bucket
  /\ h = 0
  /\ pc = "dfs"

DomNext == cfg_dfs \/ Semi \/ SameDom \/ computeDF

-----------------------------------------------------------------------------
(* Dominance by its definition: a dominates b if there is no way from the  *)
(* first block to b around a.                                              *)
Around(a) ==   \* the blocks that can be reached without a
  LET f[k \in Order] ==
        IF k = 0 THEN {1} \ {a}
        ELSE LET g == f[k - 1]
             IN g \cup {b \in Block \ {a} : \E c \in g : Edge(c, b)}
  IN f[NBlocks]

Reachable == Around(0)

Dom ==   \* the pairs <<a, b>> such that a dominates b
  LET r == Reachable
  IN UNION {{<<a, b>> : b \in r \ Around(a)} : a \in r}

(* The dominator tree is right: what dominators works out by buckets and   *)
(* semi-dominators, deferring what it cannot decide yet to a second pass,  *)
(* is for every reachable block the nearest block that all ways to it      *)
(* lead through.                                                           *)
IdomRight ==
  pc = "df" =>
    LET strict == {ab \in Dom : ab[1] # ab[2]}
    IN \A b \in Reachable \ {1} :
         /\ idom[b] # 0
         /\ <<arr[idom[b]], b>> \in strict
         /\ \A a \in Block : <<a, b>> \in strict => <<a, arr[idom[b]]>> \in Dom

(* The dominance frontier computeDF gathers from the tree is the set of    *)
(* blocks where a block's dominance ends: it dominates a parent, but not   *)
(* strictly the block itself; this is where phi functions are placed.      *)
FrontierRight ==
  pc = "phi" =>
    LET dom == Dom
    IN \A a \in Reachable :
         {arr[i] : i \in df[a]} =
           {b \in Block : /\ a = b \/ <<a, b>> \notin dom
                          /\ \E c \in Block : Edge(c, b) /\ <<a, c>> \in dom}

=============================================================================
