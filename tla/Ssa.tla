-------------------------------- MODULE Ssa --------------------------------
(***************************************************************************)
(* The way of one variable through static single assignment form: phi      *)
(* functions are placed, the variable is renamed, and removephi turns each *)
(* phi function into copies on the ways into its block; optimize and the   *)
(* functions it calls in pcc/mip/optim2.c.  Then the resulting program is  *)
(* run.                                                                    *)
(*                                                                         *)
(* One variable is enough: phi functions, stacks and copies of a variable  *)
(* only ever name versions of that variable.  A version is its number,     *)
(* counted from 1; 0 stands for the old name.                              *)
(***************************************************************************)
EXTENDS Dominators

CONSTANTS
  Inner,      \* what a block between the first and the last may do
  InnerTaken  \* and what it may do where computed gotos have labels to go to

(* What a block does with the variable: nothing, a read, an assignment, or *)
(* a read and then an assignment.                                          *)
Body == {"none", "read", "write", "update"}

ASSUME SsaAssumption == Inner \subseteq Body /\ InnerTaken \subseteq Body

VARIABLES
  body,
  in,          \* the blocks the variable is live into
  phi,         \* the blocks with a phi function for it
  newtmpregno, \* the version a block's phi function makes
  intmpregno,  \* and its arguments, one for each entry of parents, 0 if unset
  used, made,  \* the version a block reads, and the one it assigns
  stack,       \* defsites.stack, the top first
  calls,       \* renamevar's calls and returns still to come
  ip_tmpnum,   \* the next version
  onjump, onfall,  \* the copies put on the two ways out of a block
  bb, holds    \* the running program: its block, the versions with the current value

ssavars == <<body, in, phi, newtmpregno, intmpregno, used, made, stack, calls,
             ip_tmpnum, onjump, onfall, bb, holds>>
vars == <<domvars, ssavars, pc>>

reads(b) == body[b] \in {"read", "update"}
writes(b) == body[b] \in {"write", "update"}

-----------------------------------------------------------------------------
(* liveanal: here the program is chosen, which the graph did not depend on *)
LiveIn(f) ==
  LET gen == {b \in Block : f[b] \in {"read", "update"}}
      g[k \in Order] ==
        IF k = 0 THEN gen
        ELSE LET s == g[k - 1]
             IN gen \cup {b \in Block : f[b] = "none" /\ \E c \in s : Edge(b, c)}
  IN g[NBlocks]

liveanal ==
  /\ pc = "phi"
  /\ \E first \in {"none", "write"}, last \in {"none", "read"},
        f \in [2 .. NBlocks - 1 -> IF ip_labels = <<>> THEN Inner ELSE InnerTaken] :
       body' = [b \in Block |-> IF b = 1 THEN first
                                ELSE IF b = NBlocks THEN last ELSE f[b]]
  /\ in' = LiveIn(body')
  /\ pc' = "place"
  /\ UNCHANGED <<domvars, phi, newtmpregno, intmpregno, used, made, stack, calls,
                 ip_tmpnum, onjump, onfall, bb, holds>>

(* placePhiFunctions: W starts with the blocks that assign; a block that   *)
(* gets a phi function joins it.                                           *)
Aorig == {b \in Block : writes(b)}

placed ==
  LET f[k \in 0 .. 2 * NBlocks] ==
        IF k = 0 THEN [W |-> Aorig, Aphi |-> {}, phi |-> {}]
        ELSE LET s == f[k - 1]
                 n == CHOOSE b \in s.W : TRUE
                 y == {arr[i] : i \in df[n]} \ s.Aphi
             IN IF s.W = {} THEN s
                ELSE [W |-> (s.W \ {n}) \cup ((y \cap in) \ Aorig),
                      Aphi |-> s.Aphi \cup y,
                      phi |-> s.phi \cup (y \cap in)]
  IN f[2 * NBlocks].phi

placePhiFunctions ==
  /\ pc = "place"
  /\ phi' = placed
  /\ intmpregno' = [b \in Block |-> [i \in DOMAIN parents(b) |-> 0]]
  /\ stack' = IF Aorig = {} THEN <<>> ELSE <<0>>
  /\ calls' = <<<<"enter", 1>>>>
  /\ pc' = "rename"
  /\ UNCHANGED <<domvars, body, in, newtmpregno, used, made, ip_tmpnum, onjump,
                 onfall, bb, holds>>

-----------------------------------------------------------------------------
(* renamevar, and renamevarhelper for what the block does.  A stack that   *)
(* nothing was ever pushed on leaves the old name.                         *)
Top(s) == IF s = <<>> THEN 0 ELSE s[1]

(* The first entry of the parents of c that is b. *)
EntryOf(b, c) ==
  CHOOSE j \in DOMAIN parents(c) :
    parents(c)[j] = b /\ \A i \in 1 .. j - 1 : parents(c)[i] # b

Ascending(S) ==
  LET f[n \in Order] ==
        IF n = 0 THEN <<>> ELSE IF n \in S THEN Append(f[n - 1], n) ELSE f[n - 1]
  IN f[NBlocks]

Enter(b) ==
  LET p == IF b \in phi THEN 1 ELSE 0
      w == IF writes(b) THEN 1 ELSE 0
      afterphi == IF p = 1 THEN <<ip_tmpnum>> \o stack ELSE stack
      after == IF w = 1 THEN <<ip_tmpnum + p>> \o afterphi ELSE afterphi
      inner == Ascending(dfchildren[b])
  IN /\ newtmpregno' = [newtmpregno EXCEPT ![b] = p * ip_tmpnum]
     /\ used' = [used EXCEPT ![b] = IF reads(b) THEN Top(afterphi) ELSE 0]
     /\ made' = [made EXCEPT ![b] = w * (ip_tmpnum + p)]
     /\ ip_tmpnum' = ip_tmpnum + p + w
     /\ stack' = after
     /\ intmpregno' = [c \in Block |-> [i \in DOMAIN intmpregno[c] |->
          IF c \in ToSet(child(b)) \cap phi /\ i = EntryOf(b, c) THEN Top(after)
          ELSE intmpregno[c][i]]]
     /\ calls' = [k \in DOMAIN inner |-> <<"enter", arr[inner[k]]>>]
                   \o <<<<"leave", b>>>> \o Tail(calls)

(* Variant: the versions of phi functions are not popped. *)
poplistNoPhi(b) == IF writes(b) THEN 1 ELSE 0

(* The poplist has an entry for each version the block has pushed. *)
poplist(b) == (IF b \in phi THEN 1 ELSE 0) + (IF writes(b) THEN 1 ELSE 0)

Leave(b) ==
  /\ stack' = SubSeq(stack, 1 + poplist(b), Len(stack))
  /\ calls' = Tail(calls)
  /\ UNCHANGED <<newtmpregno, used, made, ip_tmpnum, intmpregno>>

renamevar ==
  /\ pc = "rename" /\ calls # <<>>
  /\ \/ calls[1][1] = "enter" /\ Enter(calls[1][2])
     \/ calls[1][1] = "leave" /\ Leave(calls[1][2])
  /\ UNCHANGED <<domvars, body, in, phi, onjump, onfall, bb, holds, pc>>

-----------------------------------------------------------------------------
(* removephi.  From a goto the copies go before it, from a computed one    *)
(* those for every block it may go to; from a branch that comes here they  *)
(* go to a jump pad in front of the block, to which the branch is sent;    *)
(* else behind the last statement of the parent.  A branch to the block    *)
(* behind it is two entries of its parents: once sent to the pad, it is    *)
(* taken for one that falls through.                                       *)
Copy(c, i) == IF intmpregno[c][i] > 0 THEN <<newtmpregno[c], intmpregno[c][i]>> ELSE <<>>
Twice(b, c) == child(b) = <<c, c>>

targets(b) ==
  CASE kind(b) = "fall" -> {}
    [] kind(b) = "computed" -> ToSet(ip_labels)
    [] kind(b) \in {"goto", "cbranch"} -> {jump[b][2]}

(* Variant: a goto can only go to one place. *)
JumpCopiesOne(b) ==
  [c \in Block |-> IF c \in targets(b) \cap phi /\ c = child(b)[1]
                  THEN Copy(c, EntryOf(b, c)) ELSE <<>>]

JumpCopies(b) ==
  [c \in Block |-> IF c \in targets(b) \cap phi THEN Copy(c, EntryOf(b, c)) ELSE <<>>]

Through(b) == kind(b) \in {"fall", "cbranch"}

removephi ==
  /\ pc = "rename" /\ calls = <<>>
  /\ onjump' = [b \in Block |-> JumpCopies(b)]
  /\ onfall' = [b \in Block |->
       IF b # NBlocks /\ Through(b) /\ b + 1 \in phi
       THEN Copy(b + 1, EntryOf(b, b + 1) + IF Twice(b, b + 1) THEN 1 ELSE 0)
       ELSE <<>>]
  /\ bb' = 1
  /\ holds' = 0 .. ip_tmpnum - 1
  /\ pc' = "run"
  /\ UNCHANGED <<domvars, body, in, phi, newtmpregno, intmpregno, used, made, stack,
                 calls, ip_tmpnum>>

-----------------------------------------------------------------------------
(* The program runs.  holds is the set of versions that have the value the *)
(* variable would have; before any assignment all of them do.              *)
Done(S, copy) ==
  IF copy = <<>> THEN S
  ELSE IF copy[2] \in S THEN S \cup {copy[1]} ELSE S \ {copy[1]}

Value == IF writes(bb) THEN {made[bb]} ELSE holds

(* The copies of a jump, in the order of the blocks they are for.          *)
AfterJump(b) ==
  LET f[c \in Order] == IF c = 0 THEN Value ELSE Done(f[c - 1], onjump[b][c])
  IN f[NBlocks]

Goes(to, have) == bb' = to /\ holds' = have

Run ==
  /\ pc = "run" /\ bb # NBlocks
  /\ \/ \E c \in targets(bb) : Goes(c, AfterJump(bb))
     \/ Through(bb) /\ Goes(bb + 1, Done(Value, onfall[bb]))
  /\ UNCHANGED <<domvars, body, in, phi, newtmpregno, intmpregno, used, made, stack,
                 calls, ip_tmpnum, onjump, onfall, pc>>

(* A computed goto in a function without && has nowhere to go.             *)
Returned == pc = "run" /\ child(bb) = <<>> /\ UNCHANGED vars

-----------------------------------------------------------------------------
Zero == [b \in Block |-> 0]

Init ==
  /\ DomInit
  /\ body = [b \in Block |-> "none"]
  /\ in = {} /\ phi = {}
  /\ newtmpregno = Zero /\ used = Zero /\ made = Zero
  /\ intmpregno = [b \in Block |-> <<>>]
  /\ stack = <<>> /\ calls = <<>>
  /\ ip_tmpnum = 1
  /\ onfall = [b \in Block |-> <<>>]
  /\ onjump = [b \in Block |-> onfall]
  /\ bb = 1 /\ holds = {}

Dominate == DomNext /\ UNCHANGED ssavars

Next == Dominate \/ liveanal \/ placePhiFunctions \/ renamevar \/ removephi \/ Run \/ Returned

Spec == Init /\ [][Next]_vars

(* Whatever way the program takes, a block that reads the variable after   *)
(* it was assigned reads, under the name the renaming chose, the value the *)
(* variable had in the program before.                                     *)
ReadsRight == pc = "run" /\ reads(bb) => used[bb] \in holds

=============================================================================
