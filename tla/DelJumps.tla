------------------------------ MODULE DelJumps ------------------------------
(***************************************************************************)
(* deljumps of pcc/mip/optim2.c: unused labels, jumps to jumps, jumps over *)
(* jumps, dead code and misplaced pieces of code are removed from the      *)
(* statements of a function, until a pass over them changes nothing.       *)
(*                                                                         *)
(* The list of dlnods and the list of interpass records behind it are one  *)
(* sequence here, with the head dl as its first element: each operation    *)
(* relinks both in the same way.  A node is named by where it stood in the *)
(* program.                                                                *)
(***************************************************************************)
EXTENDS Integers, FiniteSets, SequencesExt

CONSTANTS
  MaxLen,     \* bound: the statements between the prologue and the epilogue
  NLabels,    \* bound: labels are 1 .. NLabels
  InUse       \* the labels a computed goto may jump to (epp->ip_labels)

Label == 1 .. NLabels
Node == 0 .. MaxLen + 1     \* 0 is dl, the last one stands for the epilogue
NIL == -1

JBR  == {<<"JBR", l>> : l \in Label}
CBR  == {<<"CBR", l>> : l \in Label}
Plain == {<<"STMT", 0>>} \cup (IF InUse = {} THEN {} ELSE {<<"GOTO*", 0>>})

ASSUME DelJumpsAssumption ==
  /\ MaxLen \in Nat \ {0}
  /\ NLabels \in Nat
  /\ InUse \subseteq Label

VARIABLES
  prog,    \* what listsetup made of the statements: node -> <<op, label>>
  list,    \* what is left of them, in order
  labno, ref, refc, neg,   \* fields of the nodes; neg: is the branch's condition negated?
  p,       \* the node iterate looks at
  stage,   \* the next of the four statements of iterate's loop
  nchange,
  pc       \* "refcount", "iterate" or "done"

vars == <<prog, list, labno, ref, refc, neg, p, stage, nchange, pc>>

op(n) == prog[n][1]
Nodes(k) == {n \in ToSet(list) : op(n) = k}
Jumps == {n \in ToSet(list) : op(n) \in {"JBR", "CBR"}}

-----------------------------------------------------------------------------
(* The statements.  Every label that is used is defined, and only once;    *)
(* labels are numbered as they come, which their names do not matter for.  *)
Defs(f, l) == {n \in DOMAIN f : f[n] = <<"LABEL", l>>}

Program(f) ==
  /\ \A l \in Label : Cardinality(Defs(f, l)) <= 1
  /\ \A l \in Label \ {1} : \A n \in Defs(f, l) : \E m \in Defs(f, l - 1) : m < n
  /\ \A n \in DOMAIN f : f[n][1] \in {"JBR", "CBR"} => Defs(f, f[n][2]) # {}
  /\ \A n \in DOMAIN f : f[n][1] = "GOTO*" => \A l \in InUse : Defs(f, l) # {}

Statement == JBR \cup CBR \cup Plain \cup {<<"LABEL", l>> : l \in Label}

Init ==
  /\ \E f \in [1 .. MaxLen -> Statement] :
       /\ Program(f)
       /\ prog = [n \in Node |-> IF n = 0 THEN <<"HEAD", 0>>
                                 ELSE IF n > MaxLen THEN <<"EROU", 0>> ELSE f[n]]
  /\ list = [i \in 1 .. MaxLen + 2 |-> i - 1]
  /\ labno = [n \in Node |-> prog[n][2]]
  /\ ref = [n \in Node |-> NIL]
  /\ refc = [n \in Node |-> 0]
  /\ neg = [n \in Node |-> FALSE]
  /\ p = 0
  /\ stage = 1
  /\ nchange = FALSE
  /\ pc = "refcount"

-----------------------------------------------------------------------------
(* The list.                                                               *)
Place(l, n) == CHOOSE i \in DOMAIN l : l[i] = n
At(n) == Place(list, n)
forw(n) == list[At(n) + 1]
back(n) == list[At(n) - 1]

(* The first place at or after i that is no label, the last one at or before i. *)
AfterLabels(i) ==
  CHOOSE j \in i .. Len(list) :
    op(list[j]) # "LABEL" /\ \A k \in i .. j - 1 : op(list[k]) = "LABEL"
BeforeLabels(i) ==
  CHOOSE j \in 1 .. i :
    op(list[j]) # "LABEL" /\ \A k \in j + 1 .. i : op(list[k]) = "LABEL"

nonlab(n) == list[AfterLabels(At(n))]

(* decref takes a label off the list l with the last reference to it. *)
Less(l, n) == RemoveAt(l, Place(l, n))
decref(l, n) == IF refc[n] <= 1 THEN Less(l, n) ELSE l
Fewer(n) == [refc EXCEPT ![n] = @ - 1]

-----------------------------------------------------------------------------
(* refcount: jumps to a run of labels go to its last one, and labels       *)
(* nothing refers to disappear.                                            *)
LastLabel(n) ==
  LET l == CHOOSE m \in Nodes("LABEL") : labno[m] = labno[n]
  IN list[AfterLabels(At(l)) - 1]

Referred(l, rc) ==
  FoldLeft(LAMBDA s, m : IF op(m) = "LABEL" /\ rc[m] = 0 THEN s ELSE Append(s, m), <<>>, l)

refcount ==
  /\ pc = "refcount"
  /\ ref' = [n \in Node |-> IF n \in Jumps THEN LastLabel(n) ELSE NIL]
  /\ labno' = [n \in Node |-> IF n \in Jumps THEN labno[ref'[n]] ELSE labno[n]]
  /\ refc' = [m \in Node |->
       Cardinality({n \in Jumps : ref'[n] = m}) + (IF labno[m] \in InUse THEN 1000 ELSE 0)]
  /\ list' = Referred(list, refc')
  /\ p' = list'[2]
  /\ pc' = "iterate"
  /\ UNCHANGED <<prog, neg, stage, nchange>>

-----------------------------------------------------------------------------
(* The body of iterate's loop for the node p: four statements, each of     *)
(* which does nothing or one of the following (DropNext several times).    *)
Body(k) == pc = "iterate" /\ stage <= k

(* 1.  jbr L7 ... L7: jbr L8 *)
CanThread ==
  /\ Body(1)
  /\ p \in Jumps
  /\ op(nonlab(ref[p])) = "JBR"
  /\ labno[p] # labno[nonlab(ref[p])]

Thread ==
  LET r == ref[nonlab(ref[p])]
  IN /\ CanThread
     /\ list' = decref(list, ref[p])
     /\ refc' = [Fewer(ref[p]) EXCEPT ![r] = @ + 1]
     /\ labno' = [labno EXCEPT ![p] = labno[nonlab(ref[p])]]
     /\ ref' = [ref EXCEPT ![p] = r]
     /\ nchange' = TRUE
     /\ stage' = 2
     /\ UNCHANGED <<prog, neg, p, pc>>

(* 2.  cbr L7; jbr L8; L7: *)
CanInvert ==
  /\ Body(2)
  /\ op(p) = "CBR"
  /\ op(forw(p)) = "JBR"
  /\ list[BeforeLabels(At(ref[p]))] = forw(p)

Invert ==
  LET j == forw(p)
  IN /\ CanInvert /\ ~ CanThread
     /\ list' = Less(decref(list, ref[p]), j)
     /\ refc' = Fewer(ref[p])
     /\ labno' = [labno EXCEPT ![p] = labno[j]]
     /\ ref' = [ref EXCEPT ![p] = ref[j]]
     /\ neg' = [neg EXCEPT ![p] = ~ @]
     /\ nchange' = TRUE
     /\ stage' = 3
     /\ UNCHANGED <<prog, p, pc>>

(* 3.  What follows a jump up to the next label is dead.  A label may go   *)
(* while this runs, and then what it labelled is dead as well.             *)
CanDrop == Body(3) /\ op(p) = "JBR" /\ op(forw(p)) \notin {"LABEL", "EROU"}

(* Variant: the label of a dead jump keeps its count. *)
DropNextOnly ==
  /\ CanDrop /\ ~ CanThread
  /\ list' = Less(list, forw(p))
  /\ nchange' = TRUE
  /\ stage' = 3
  /\ UNCHANGED <<prog, labno, ref, refc, neg, p, pc>>

DropNext ==
  LET d == forw(p)
  IN /\ CanDrop /\ ~ CanThread
     /\ list' = Less(IF d \in Jumps THEN decref(list, ref[d]) ELSE list, d)
     /\ refc' = IF d \in Jumps THEN Fewer(ref[d]) ELSE refc
     /\ nchange' = TRUE
     /\ stage' = 3
     /\ UNCHANGED <<prog, labno, ref, neg, p, pc>>

(* A jump to one of the labels behind it goes. *)
ToNext(n) ==
  LET i == At(n) IN \E j \in i + 1 .. AfterLabels(i + 1) - 1 : list[j] = ref[n]
CanSkip == Body(3) /\ op(p) = "JBR" /\ ToNext(p)

DropJump ==
  /\ CanSkip /\ ~ CanThread /\ ~ CanDrop
  /\ list' = Less(decref(list, ref[p]), p)
  /\ refc' = Fewer(ref[p])
  /\ p' = back(p)
  /\ nchange' = TRUE
  /\ stage' = 4
  /\ UNCHANGED <<prog, labno, ref, neg, pc>>

(* 4.  codemove: a piece of code that is entered by jumps only, since it   *)
(* stands behind a jump, and ends with a jump, takes the place of a jump   *)
(* to it.                                                                  *)
Ends(n) == {i \in At(ref[n]) .. Len(list) : op(list[i]) = "JBR"}
firstOf(n) == BeforeLabels(At(ref[n])) + 1
lastOf(n) == CHOOSE i \in Ends(n) : \A j \in Ends(n) : i <= j

(* Variant: the statement before the piece may fall into it. *)
CanMoveAny ==
  /\ Body(4)
  /\ op(p) = "JBR"
  /\ firstOf(p) > 2 /\ list[firstOf(p) - 1] # p
  /\ Ends(p) # {}
  /\ At(p) \notin lastOf(p) - 1 .. lastOf(p) + 1

CanMove ==
  /\ Body(4)
  /\ op(p) = "JBR"
  /\ op(list[firstOf(p) - 1]) = "JBR" /\ list[firstOf(p) - 1] # p
  /\ Ends(p) # {}
  /\ At(p) \notin lastOf(p) - 1 .. lastOf(p) + 1

(* l with the places a .. b moved to where i was. *)
Moved(l, i, a, b) ==
  LET part(j, k) == SubSeq(l, j, k)
  IN IF i < a
     THEN part(1, i - 1) \o part(a, b) \o part(i + 1, a - 1) \o part(b + 1, Len(l))
     ELSE part(1, a - 1) \o part(b + 1, i - 1) \o part(a, b) \o part(i + 1, Len(l))

codemove ==
  /\ CanMove /\ ~ CanThread /\ ~ CanDrop /\ ~ CanSkip
  /\ list' = decref(Moved(list, At(p), firstOf(p), lastOf(p)), ref[p])
  /\ refc' = Fewer(ref[p])
  /\ LET second == list[firstOf(p) + 1]   \* the loop goes on behind the first of them
     IN p' = IF second \in ToSet(list') THEN second ELSE list[firstOf(p) + 2]
  /\ nchange' = TRUE
  /\ stage' = 1
  /\ UNCHANGED <<prog, labno, ref, neg, pc>>

(* Nothing more to do for p. *)
Forward ==
  /\ pc = "iterate" /\ op(p) # "EROU"
  /\ ~ (CanThread \/ CanInvert \/ CanDrop \/ CanSkip \/ CanMove)
  /\ p' = forw(p)
  /\ stage' = 1
  /\ UNCHANGED <<prog, list, labno, ref, refc, neg, nchange, pc>>

(* Variant: iterate does not clear nchange. *)
PassEndSticky ==
  /\ pc = "iterate" /\ op(p) = "EROU"
  /\ IF nchange THEN p' = list[2] /\ pc' = pc ELSE p' = p /\ pc' = "done"
  /\ UNCHANGED <<prog, list, labno, ref, refc, neg, stage, nchange>>

(* do iterate(); while (nchange): with nothing changed deljumps is done.   *)
PassEnd ==
  /\ pc = "iterate" /\ op(p) = "EROU"
  /\ IF nchange THEN p' = list[2] /\ pc' = pc ELSE p' = p /\ pc' = "done"
  /\ nchange' = FALSE
  /\ UNCHANGED <<prog, list, labno, ref, refc, neg, stage>>

Finished == pc = "done" /\ UNCHANGED vars

Next == \/ refcount \/ Thread \/ Invert \/ DropNext \/ DropJump \/ codemove
        \/ Forward \/ PassEnd \/ Finished
Spec == Init /\ [][Next]_vars
FairSpec == Spec /\ WF_vars(Next)

-----------------------------------------------------------------------------
(* What the statements do.  Jumps and labels do nothing by themselves, so  *)
(* only the order of the others counts: Reach(l, lab, i) is the statement, *)
(* branch or end that comes next from place i of a list l whose jumps go   *)
(* to lab, or NIL if there are only jumps.                                 *)
Reach(l, lab, i) ==
  LET to(n) == CHOOSE k \in DOMAIN l : op(l[k]) = "LABEL" /\ lab[l[k]] = lab[n]
      f[k \in 0 .. 2 * (MaxLen + 2)] ==
        IF k = 0 THEN i
        ELSE LET j == f[k - 1]
             IN IF op(l[j]) \in {"LABEL", "HEAD"} THEN j + 1
                ELSE IF op(l[j]) = "JBR" THEN to(l[j]) ELSE j
      j == f[2 * (MaxLen + 2)]
  IN IF op(l[j]) \in {"LABEL", "JBR"} THEN NIL ELSE l[j]

(* Where control goes from node n, in the order taken, not taken (before  *)
(* any negation).                                                          *)
Succ(l, lab, ng, n) ==
  LET labelled(x) == CHOOSE k \in DOMAIN l : op(l[k]) = "LABEL" /\ lab[l[k]] = x
      on == Reach(l, lab, Place(l, n) + 1)
  IN CASE op(n) = "STMT" -> <<on>>
       [] op(n) = "GOTO*" -> {Reach(l, lab, labelled(x)) : x \in InUse}
       [] op(n) = "CBR" ->
            LET taken == Reach(l, lab, labelled(lab[n]))
            IN IF ng[n] THEN <<on, taken>> ELSE <<taken, on>>
       [] OTHER -> <<>>

progList == [i \in 1 .. MaxLen + 2 |-> i - 1]
progLab == [n \in Node |-> prog[n][2]]
progNeg == [n \in Node |-> FALSE]

(* The function does what it did: it starts with the same statement, and   *)
(* after each statement that is left, whichever way a branch goes, comes   *)
(* the one that came after it in the program, although jumps have been     *)
(* redirected, conditions negated and pieces of code moved.                *)
SameFlow ==
  /\ Reach(list, labno, 1) = Reach(progList, progLab, 1)
  /\ \A n \in ToSet(list) :
       Succ(list, labno, neg, n) = Succ(progList, progLab, progNeg, n)

(* Between two nodes iterate looks at, every jump refers to a label that   *)
(* is still in the list and has its number, and the count of a label is    *)
(* the number of jumps that refer to it, so that decref takes it off the   *)
(* list with the last of them and not before.                              *)
RefsExact ==
  pc # "refcount" =>
    /\ \A n \in Jumps : ref[n] \in Nodes("LABEL") /\ labno[ref[n]] = labno[n]
    /\ \A m \in Nodes("LABEL") :
         /\ refc[m] > 0
         /\ refc[m] = Cardinality({n \in Jumps : ref[n] = m})
                        + (IF labno[m] \in InUse THEN 1000 ELSE 0)

(* iterate stops changing things, also when jumps go round in circles.     *)
Termination == <>(pc = "done")

=============================================================================
