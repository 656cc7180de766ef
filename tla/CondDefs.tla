------------------------------ MODULE CondDefs ------------------------------
(***************************************************************************)
(* Conditional groups of a C source text: the stack of open #if groups,    *)
(* innermost last.  A group records whether its current branch is          *)
(* processed (on), whether no later branch may be (taken), and how many    *)
(* #else it has had (els).                                                 *)
(***************************************************************************)
EXTENDS Integers, Sequences

CONSTANTS
  MaxInclevel,  \* MAX_INCLEVEL, less one when the main file is not standard input
  WellFormed,   \* TRUE: no #elif or #else follows the #else of its group
  MaxDepth      \* bound: conditionals open at a time

ASSUME CondAssumption ==
  /\ MaxInclevel \in Nat
  /\ WellFormed \in BOOLEAN
  /\ MaxDepth \in Nat

Group == [on : BOOLEAN, taken : BOOLEAN, els : Nat]

(* Text is processed iff every group it is nested in is. *)
AllOn(g) == \A i \in 1 .. Len(g) : g[i].on

Inner(g) == g[Len(g)]

Outer(g) == SubSeq(g, 1, Len(g) - 1)

(* #if, #ifdef, #ifndef whose condition is c; skipped text opens a group   *)
(* none of whose branches is ever processed.                               *)
Opened(g, c) ==
  Append(g, [on |-> AllOn(g) /\ c, taken |-> ~ AllOn(g) \/ c, els |-> 0])

(* #elif (e = 0) or #else (e = 1, c = TRUE) of the innermost group. *)
Switched(g, c, e) ==
  Append(Outer(g), [on    |-> ~ Inner(g).taken /\ c,
                    taken |-> Inner(g).taken \/ c,
                    els   |-> Inner(g).els + e])

(* Another branch is legal where the input is restricted to legal groups. *)
MayContinue(g) == WellFormed /\ g # <<>> => Inner(g).els = 0

Front(s) == SubSeq(s, 1, Len(s) - 1)

=============================================================================
