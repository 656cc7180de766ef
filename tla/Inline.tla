------------------------------- MODULE Inline -------------------------------
(***************************************************************************)
(* The inline functions of one file: pcc/cc/ccom/inline.c and its callers  *)
(* in pftn.c and cgram.y.  A function defined inline is saved instead of   *)
(* compiled; what is said of it later decides whether it is written out,   *)
(* and a call of it may be replaced by a copy of what was saved.           *)
(*                                                                         *)
(* A saved body is the IP_REF records in it, the functions its code names  *)
(* and whether its code refers to its own stack frame.  The attributes     *)
(* gnu_inline and always_inline are left out.                              *)
(***************************************************************************)
EXTENDS Integers, FiniteSets, SequencesExt

CONSTANTS
  NFun,         \* functions that may be inline, numbered as they are first declared
  MaxItems,     \* bound: declarations and definitions in the file
  MaxStmts,     \* bound: calls, addresses and uses of the frame in the file
  Modes,        \* the settings of xgnu89
  Frames,       \* {FALSE} if no body uses its stack frame, else BOOLEAN
  Redefined,    \* GNU dialect: may a function that is extern inline be defined again?
  Unannounced   \* may the first declaration of an inline function lack the word?

Fun == 1 .. NFun
NoFun == 0     \* also stands for any other function

ASSUME InlineAssumption ==
  /\ NFun \in Nat
  /\ MaxItems \in Nat /\ MaxStmts \in Nat
  /\ Modes \subseteq BOOLEAN
  /\ Frames \subseteq BOOLEAN
  /\ Redefined \in BOOLEAN /\ Unannounced \in BOOLEAN

VARIABLES
  xgnu89, xinline,      \* options
  sclass, SINLINE,      \* of the symbol table; "UNDEF" before any declaration
  ipole,                \* the list of istat, by function
  flags,                \* of a function's istat: CANINL, WRITTEN, REFD
  body,                 \* its shead
  isinlining, cifun, svclass,
  w, gotone,            \* inline_prtout: the elements left in this round, was one written?
  pc,                   \* "file", "function", "prtout" or "flushed"
  items, stmts,         \* counted for the bounds
  needs,                \* functions named by what was written
  written,              \* how often a function was written
  copiedframe           \* functions that used their frame when they were copied into another

symvars == <<xgnu89, xinline, sclass, SINLINE>>
inlvars == <<ipole, flags, body, isinlining, cifun, svclass>>
prtvars == <<w, gotone>>
seen == <<needs, written, copiedframe>>
vars == <<symvars, inlvars, prtvars, pc, items, stmts, seen>>

Class == {"SNULL", "STATIC", "EXTERN"}   \* none, static and extern

Empty == [there |-> FALSE, refs |-> <<>>, names |-> {}, frame |-> FALSE]
DLIST_ISEMPTY(f) == ~ body[f].there /\ body[f].refs = <<>>
AtFileScope == pc \in {"file", "flushed"}
InOrder(f) == \A g \in 1 .. f - 1 : sclass[g] # "UNDEF"

-----------------------------------------------------------------------------
(* inline_ref for the functions of a sequence.  In a function that is      *)
(* saved they become IP_REF records; else they are to be written out.      *)
Referred(gs) ==
  FoldLeft(LAMBDA s, g : IF sclass'[g] # "SNULL" THEN Append(s, g) ELSE s, <<>>, gs)

Mark(fl, gs) == [g \in Fun |-> IF g \in ToSet(gs) THEN fl[g] \cup {"REFD"} ELSE fl[g]]
(* Variant: findfun is not asked. *)
InsertAgain(gs) == gs \o ipole

Insert(gs) ==
  FoldLeft(LAMBDA list, g : IF g \in ToSet(list) THEN list ELSE <<g>> \o list, ipole, gs)

(* intcopy: what uses the frame cannot be copied into another function. *)
Clear(fl, list, frame) ==
  IF frame THEN [fl EXCEPT ![list[1]] = @ \ {"CANINL"}] ELSE fl

(* Code that names functions is sent off (send_passt), gs given to         *)
(* inline_ref on the way.                                                  *)
Send(gs, names, frame) ==
  IF isinlining
  THEN /\ body' = [body EXCEPT ![cifun].refs = @ \o Referred(gs),
                               ![cifun].names = @ \cup names,
                               ![cifun].frame = @ \/ frame]
       /\ flags' = Clear(flags, ipole, frame)
       /\ UNCHANGED <<ipole, needs>>
  ELSE /\ flags' = Mark(flags, Referred(gs))
       /\ ipole' = Insert(Referred(gs))
       /\ needs' = needs \cup names
       /\ UNCHANGED body

-----------------------------------------------------------------------------
(* defid2 for a function: a mismatch is an error.                          *)
Mismatch(scl, class) ==
  CASE class \in {"EXTERN", "SNULL"} -> FALSE   \* only an inline function is SNULL
    [] class = "USTATIC" -> scl \notin {"STATIC", "USTATIC"}
    [] class = "STATIC"  -> scl \notin {"USTATIC", "EXTERN"}
    [] class = "EXTDEF"  -> scl \notin {"EXTERN", "USTATIC"}

Becomes(scl, class) ==
  IF scl = "UNDEF" THEN class
  ELSE CASE class = "EXTERN" -> IF scl = "SNULL" THEN "EXTDEF" ELSE scl
         [] class = "USTATIC" -> scl
         [] class = "STATIC" -> "STATIC"
         [] class = "EXTDEF" -> IF scl = "USTATIC" THEN "STATIC" ELSE "EXTDEF"
         [] class = "SNULL" -> IF scl = "EXTERN" THEN "EXTDEF" ELSE scl

(* A function without an external definition so far gets one: it is to be  *)
(* written.                                                                *)
Promoted(scl, class) == <<scl, class>> \in {<<"SNULL", "EXTERN">>, <<"EXTERN", "SNULL">>}

uclass(class, inline) ==
  CASE class = "SNULL" /\ ~ inline -> "EXTERN"
    [] class = "STATIC" -> "USTATIC"
    [] OTHER -> class

(* init_declarator: a prototype. *)
Declare(f, c, inline) ==
  LET class == uclass(c, inline)
  IN /\ AtFileScope /\ items < MaxItems /\ InOrder(f)
     /\ inline => sclass[f] = "UNDEF" \/ f \in SINLINE \/ Unannounced
     /\ SINLINE' = IF inline THEN SINLINE \cup {f} ELSE SINLINE
     /\ sclass[f] # "UNDEF" => ~ Mismatch(sclass[f], class)
     /\ sclass' = [sclass EXCEPT ![f] = Becomes(sclass[f], class)]
     /\ <<sclass, SINLINE>>' # <<sclass, SINLINE>>   \* another declaration says nothing
     /\ IF Promoted(sclass[f], class) THEN Send(<<f>>, {}, FALSE) /\ pc' = "file"
        ELSE UNCHANGED <<ipole, flags, body, needs, pc>>
     /\ items' = items + 1
     /\ UNCHANGED <<xgnu89, xinline, isinlining, cifun, svclass, prtvars, stmts,
                    written, copiedframe>>

(* fundef of an inline function: inline_start, then defid2 (inlining       *)
(* already), the prologue, and inline_args if the function is such that    *)
(* it may be copied.  If its body uses the frame, that is where it does.   *)
DefineInline(f, c, simple, frame) ==
  LET class == IF c = "EXTERN" THEN "EXTDEF" ELSE c
      own == IF Promoted(sclass[f], class) THEN <<f>> ELSE <<>>
  IN /\ AtFileScope /\ items < MaxItems /\ InOrder(f)
     /\ simple => xinline
     /\ frame => simple       \* else nobody asks
     /\ DLIST_ISEMPTY(f) /\ written[f] = 0
     /\ sclass[f] = "UNDEF" \/ f \in SINLINE \/ Unannounced
     /\ sclass[f] # "UNDEF" => ~ Mismatch(sclass[f], class)
     /\ SINLINE' = SINLINE \cup {f}
     /\ sclass' = [sclass EXCEPT ![f] = Becomes(sclass[f], class)]
     /\ ipole' = Insert(<<f>>)
     /\ body' = [body EXCEPT ![f] = [Empty EXCEPT !.there = TRUE, !.refs = own, !.frame = frame]]
     /\ flags' = Clear(IF simple
                       THEN [flags EXCEPT ![f] = @ \cup {"CANINL"}] ELSE flags,
                       ipole', frame)
     /\ isinlining' = TRUE
     /\ cifun' = f
     /\ svclass' = c
     /\ pc' = "function"
     /\ items' = items + 1
     /\ UNCHANGED <<xgnu89, xinline, prtvars, stmts, seen>>

(* fundef of another function, which is compiled as it is read.  Only in   *)
(* the GNU dialect may it have been defined extern inline before.          *)
DefinePlain(f, c) ==
  /\ AtFileScope /\ items < MaxItems
  /\ c \in (IF f = NoFun THEN {"SNULL"} ELSE {"SNULL", "STATIC"})
  /\ IF f = NoFun THEN UNCHANGED <<sclass, written>>
     ELSE LET class == IF c = "SNULL" THEN "EXTDEF" ELSE c
          IN /\ InOrder(f) /\ written[f] = 0 /\ (DLIST_ISEMPTY(f) \/ (Redefined /\ sclass[f] = "EXTERN"))
             /\ sclass[f] # "UNDEF" => ~ Mismatch(sclass[f], class)
             /\ sclass' = [sclass EXCEPT ![f] = Becomes(sclass[f], class)]
             /\ written' = [written EXCEPT ![f] = @ + 1]
  /\ pc' = "function"
  /\ items' = items + 1
  /\ UNCHANGED <<xgnu89, xinline, SINLINE, inlvars, prtvars, stmts, needs, copiedframe>>

-----------------------------------------------------------------------------
(* What is said in a function, or in an initialiser outside of one.        *)
Say(gs, names, frame) ==
  /\ stmts < MaxStmts
  /\ stmts' = stmts + 1
  /\ UNCHANGED <<symvars, isinlining, cifun, svclass, prtvars, items, written>>
  /\ Send(gs, names, frame)

(* eve, NAME: the address of g is taken. *)
Address(g) ==
  /\ pc = "function" \/ AtFileScope
  /\ sclass[g] # "UNDEF"
  /\ Say(IF g \in SINLINE THEN <<g>> ELSE <<>>, {g}, FALSE)
  /\ pc' = IF AtFileScope THEN "file" ELSE pc
  /\ UNCHANGED copiedframe

(* inlinetree: is the call replaced by a copy of the body, and if not, is  *)
(* inline_ref told of it?                                                  *)
Copied(g) ==
  /\ g \in SINLINE /\ g \in ToSet(ipole)
  /\ "CANINL" \in flags[g] /\ xinline
  /\ ~ (isinlining /\ cifun = g)

Told(g) ==
  /\ g \in SINLINE
  /\ \/ g \notin ToSet(ipole)
     \/ "CANINL" \in flags[g] /\ xinline
     \/ sclass[g] \in {"STATIC", "USTATIC"}

(* doacall. *)
Call(g) ==
  /\ pc = "function"
  /\ sclass[g] # "UNDEF"
  /\ IF Copied(g)
     THEN /\ Say(body[g].refs, body[g].names, body[g].frame)
          /\ copiedframe' = IF body[g].frame THEN copiedframe \cup {g} ELSE copiedframe
     ELSE /\ Say(IF Told(g) THEN <<g>> ELSE <<>>, {g}, FALSE)
          /\ UNCHANGED copiedframe
  /\ UNCHANGED pc

-----------------------------------------------------------------------------
(* ftnend: inline_end settles the class in the GNU dialect; a function     *)
(* with external linkage is to be written.  Then inline_prtout.            *)
ClassAtEnd ==
  LET c == IF xgnu89 /\ svclass = "SNULL" THEN "EXTERN" ELSE sclass[cifun]
  IN IF c \in {"STATIC", "USTATIC"} \/ ~ xgnu89 THEN c
     ELSE IF c = "EXTDEF" THEN "EXTERN" ELSE "EXTDEF"

ftnend ==
  /\ pc = "function"
  /\ IF isinlining
     THEN /\ sclass' = [sclass EXCEPT ![cifun] = ClassAtEnd]
          /\ flags' = IF ClassAtEnd = "EXTDEF"
                      THEN [flags EXCEPT ![cifun] = @ \cup {"REFD"}] ELSE flags
     ELSE UNCHANGED <<sclass, flags>>
  /\ isinlining' = FALSE
  /\ w' = ipole
  /\ gotone' = FALSE
  /\ pc' = "prtout"
  /\ UNCHANGED <<xgnu89, xinline, SINLINE, ipole, body, cifun, svclass, items, stmts, seen>>

(* inline_prtout, an element of the list at a time.  Writing a function    *)
(* (puto) comes across its IP_REF records; the elements this adds stand    *)
(* before this one, and another round will find them.                      *)
(* Variant: the mark of a written function is not looked at. *)
ToWriteAgain(f) == "REFD" \in flags[f] /\ ~ DLIST_ISEMPTY(f)

ToWrite(f) == flags[f] \cap {"REFD", "WRITTEN"} = {"REFD"} /\ ~ DLIST_ISEMPTY(f)

(* Variant: what a function refers to is not looked at when it is written. *)
putoNoRef(f) ==
  /\ UNCHANGED <<sclass, ipole>>
  /\ flags' = [flags EXCEPT ![f] = @ \cup {"WRITTEN"}]
  /\ needs' = needs \cup body[f].names
  /\ written' = [written EXCEPT ![f] = @ + 1]

puto(f) ==
  /\ UNCHANGED sclass
  /\ flags' = [Mark(flags, Referred(body[f].refs)) EXCEPT ![f] = @ \cup {"WRITTEN"}]
  /\ ipole' = Insert(Referred(body[f].refs))
  /\ needs' = needs \cup body[f].names
  /\ written' = [written EXCEPT ![f] = @ + 1]

inline_prtout ==
  /\ pc = "prtout" /\ w # <<>>
  /\ w' = Tail(w)
  /\ IF ToWrite(Head(w))
     THEN puto(Head(w)) /\ gotone' = TRUE
     ELSE UNCHANGED <<sclass, flags, ipole, needs, written, gotone>>
  /\ UNCHANGED <<xgnu89, xinline, SINLINE, body, isinlining, cifun, svclass, pc, items,
                 stmts, copiedframe>>

(* Variant: gotone is not reset. *)
RoundAgain ==
  /\ pc = "prtout" /\ w = <<>>
  /\ w' = IF gotone THEN ipole ELSE <<>>
  /\ pc' = IF gotone THEN "prtout" ELSE "flushed"
  /\ UNCHANGED <<symvars, inlvars, gotone, items, stmts, seen>>

Round ==
  /\ pc = "prtout" /\ w = <<>>
  /\ w' = IF gotone THEN ipole ELSE <<>>
  /\ pc' = IF gotone THEN "prtout" ELSE "flushed"
  /\ gotone' = FALSE
  /\ UNCHANGED <<symvars, inlvars, items, stmts, seen>>

(* The file may end after any declaration or definition. *)
EndOfFile == AtFileScope /\ UNCHANGED vars

-----------------------------------------------------------------------------
Init ==
  /\ xgnu89 \in Modes /\ xinline \in BOOLEAN
  /\ sclass = [f \in Fun |-> "UNDEF"]
  /\ SINLINE = {}
  /\ ipole = <<>>
  /\ flags = [f \in Fun |-> {}]
  /\ body = [f \in Fun |-> Empty]
  /\ isinlining = FALSE /\ cifun = NoFun /\ svclass = "SNULL"
  /\ w = <<>> /\ gotone = FALSE
  /\ pc = "flushed"
  /\ items = 0 /\ stmts = 0
  /\ needs = {} /\ written = [f \in Fun |-> 0] /\ copiedframe = {}

Next ==
  \/ \E f \in Fun, c \in Class, inline \in BOOLEAN : Declare(f, c, inline)
  \/ \E f \in Fun, c \in Class, simple \in BOOLEAN, frame \in Frames :
       DefineInline(f, c, simple, frame)
  \/ \E f \in Fun \cup {NoFun}, c \in Class : DefinePlain(f, c)
  \/ \E g \in Fun : Address(g) \/ Call(g)
  \/ ftnend \/ inline_prtout \/ Round \/ EndOfFile

Spec == Init /\ [][Next]_vars

(* The compiler, once called, runs: its own steps are taken. *)
FairSpec == Spec /\ WF_vars(inline_prtout) /\ WF_vars(Round)

-----------------------------------------------------------------------------
TypeOK ==
  /\ xgnu89 \in Modes /\ xinline \in BOOLEAN
  /\ sclass \in [Fun -> {"UNDEF", "SNULL", "STATIC", "USTATIC", "EXTERN", "EXTDEF"}]
  /\ SINLINE \subseteq Fun
  /\ ipole \in Seq(Fun) /\ IsInjective(ipole) /\ w \in Seq(Fun)
  /\ \A f \in Fun : flags[f] # {} \/ body[f].there => f \in ToSet(ipole)
  /\ flags \in [Fun -> SUBSET {"CANINL", "WRITTEN", "REFD"}]
  /\ body \in [Fun -> [there : BOOLEAN, refs : Seq(Fun), names : SUBSET Fun, frame : BOOLEAN]]
  /\ isinlining \in BOOLEAN /\ cifun \in Fun \cup {NoFun} /\ svclass \in Class
  /\ isinlining => cifun \in Fun
  /\ gotone \in BOOLEAN
  /\ pc \in {"file", "function", "prtout", "flushed"}
  /\ items \in Nat /\ stmts \in Nat
  /\ needs \subseteq Fun /\ written \in [Fun -> Nat] /\ copiedframe \subseteq Fun

(* A function is written once, however often it is referred to and         *)
(* wherever the references stand; a second copy is an error in assembling. *)
WrittenOnce == \A f \in Fun : written[f] <= 1

(* inline.c: "If it also has the keyword extern it is written out          *)
(* thereafter. If it has the keyword static it will be written out if it   *)
(* is referenced."  A reference is a name in code that was written.        *)
MustBeWritten(f) ==
  /\ body[f].there
  /\ \/ sclass[f] = "EXTDEF"
     \/ sclass[f] \in {"STATIC", "USTATIC"} /\ f \in needs

(* When a function has been compiled nothing it refers to is missing.      *)
NothingDangling == pc = "flushed" => \A f \in Fun : MustBeWritten(f) => written[f] > 0

(* And at the end of the file nothing in it is. *)
NothingMissing == AtFileScope => \A f \in Fun : MustBeWritten(f) => written[f] > 0

(* A body that refers to its frame is not copied into another function,    *)
(* where the reference would hit the frame of that one ("no stack refs" in *)
(* intcopy).                                                               *)
NoStackRefs == copiedframe = {}

(* Why inline_prtout ends, though it starts over as long as it has written *)
(* something and what it writes adds to the list it runs over: every step  *)
(* writes a function that was not written, or else ends a round in which   *)
(* one was, or else leaves fewer elements for this round.                  *)
Unwritten == {f \in Fun : "WRITTEN" \notin flags[f]}

PrtoutAdvances ==
  [][pc = "prtout" /\ pc' = "prtout" =>
        \/ Unwritten' \subseteq Unwritten /\ Unwritten' # Unwritten
        \/ Unwritten' = Unwritten /\ gotone /\ ~ gotone'
        \/ UNCHANGED <<Unwritten, gotone>> /\ Len(w') < Len(w)]_vars

(* inline_prtout calls itself while it finds something to write, and       *)
(* writing makes more to write: it ends nevertheless.                      *)
PrtoutEnds == pc = "prtout" ~> pc = "flushed"

=============================================================================
