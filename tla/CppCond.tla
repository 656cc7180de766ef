------------------------------- MODULE CppCond ------------------------------
(***************************************************************************)
(* Conditional inclusion as pcc/cc/cpp/token.c does it: no stack, only     *)
(* four counters.  trulvl counts the groups whose branch is processed,     *)
(* flslvl the groups at and inside the outermost one that is not, elflvl   *)
(* remembers the level of an #elif that ended a processed branch, elslvl   *)
(* the level of the last #else.  The text is processed iff flslvl = 0.     *)
(*                                                                         *)
(* groups is the environment: the groups of the text being read, as the    *)
(* standard sees them; no condition of the code depends on it.             *)
(***************************************************************************)
EXTENDS CondDefs

VARIABLES
  trulvl, flslvl, elflvl, elslvl,
  saved,   \* otrulvl of every active pushfile
  groups,
  status

counters == <<trulvl, flslvl, elflvl, elslvl>>
vars == <<trulvl, flslvl, elflvl, elslvl, saved, groups, status>>

Std == INSTANCE CondGroups WITH files <- saved, shown <- (flslvl = 0)

Init ==
  /\ trulvl = 0
  /\ flslvl = 0
  /\ elflvl = 0
  /\ elslvl = 0
  /\ saved = <<0>>
  /\ groups = <<>>
  /\ status = "ok"

Running == status = "ok"

error == status' = "error"

(* ifstmt, ifdefstmt and ifndefstmt; in skipped text ppdir only counts. *)
ifstmt(c) ==
  /\ Running
  /\ Len(groups) < MaxDepth
  /\ IF flslvl = 0 /\ c
     THEN trulvl' = trulvl + 1 /\ UNCHANGED flslvl
     ELSE flslvl' = flslvl + 1 /\ UNCHANGED trulvl
  /\ groups' = Opened(groups, c)
  /\ UNCHANGED <<elflvl, elslvl, saved, status>>

(* The part of elsestmt and elifcommon inside a conditional: leave the     *)
(* processed branch, or enter this one if the enclosing text is processed, *)
(* no branch was (elf marks one that was) and the condition c holds.       *)
switch(c, elf) ==
  IF flslvl = 0
  THEN flslvl' = flslvl + 1 /\ trulvl' = trulvl - 1
  ELSE IF elf <= trulvl /\ flslvl = 1 /\ c
       THEN flslvl' = 0 /\ trulvl' = trulvl + 1
       ELSE UNCHANGED <<flslvl, trulvl>>

(* Variant: elflvl is not recorded when a processed branch ends. *)
elifcommonForget(c) ==
  /\ Running
  /\ MayContinue(groups)
  /\ IF flslvl = 0 /\ trulvl = 0
     THEN error /\ UNCHANGED <<trulvl, flslvl, groups>>
     ELSE /\ switch(c, elflvl)
          /\ groups' = Switched(groups, c, 0)
          /\ UNCHANGED status
  /\ UNCHANGED <<elflvl, elslvl, saved>>

elifcommon(c) ==
  /\ Running
  /\ MayContinue(groups)
  /\ elflvl' = IF flslvl = 0 THEN trulvl ELSE elflvl
  /\ IF flslvl = 0 /\ trulvl = 0
     THEN error /\ UNCHANGED <<trulvl, flslvl, groups>>
     ELSE /\ switch(c, elflvl)
          /\ groups' = Switched(groups, c, 0)
          /\ UNCHANGED status
  /\ UNCHANGED <<elslvl, saved>>

elsestmt ==
  /\ Running
  /\ MayContinue(groups)
  /\ IF flslvl = 0 /\ trulvl = 0
     THEN error /\ UNCHANGED <<trulvl, flslvl, elslvl, groups>>
     ELSE /\ switch(TRUE, elflvl)
          /\ groups' = Switched(groups, TRUE, 1)
          /\ elslvl' = trulvl' + flslvl'
          /\ status' = IF elslvl = trulvl' + flslvl' THEN "error" ELSE "ok"
  /\ UNCHANGED <<elflvl, saved>>

(* Variant: elflvl keeps its value past the end of the conditional. *)
endifstmtKeep ==
  /\ Running
  /\ IF flslvl = 0 /\ trulvl = 0
     THEN error /\ UNCHANGED <<trulvl, flslvl, elslvl, groups>>
     ELSE /\ IF flslvl > 0
             THEN flslvl' = flslvl - 1 /\ UNCHANGED trulvl
             ELSE trulvl' = trulvl - 1 /\ UNCHANGED flslvl
          /\ elslvl' = 0
          /\ groups' = Outer(groups)
          /\ UNCHANGED status
  /\ UNCHANGED <<elflvl, saved>>

(* Variant: a stray #endif is not noticed. *)
endifstmtUnchecked ==
  /\ Running
  /\ IF flslvl > 0
     THEN flslvl' = flslvl - 1 /\ UNCHANGED trulvl
     ELSE trulvl' = trulvl - 1 /\ UNCHANGED flslvl
  /\ elflvl' = IF flslvl' = 0 THEN 0 ELSE elflvl
  /\ elslvl' = 0
  /\ groups' = IF groups = <<>> THEN groups ELSE Outer(groups)
  /\ UNCHANGED <<saved, status>>

endifstmt ==
  /\ Running
  /\ IF flslvl = 0 /\ trulvl = 0
     THEN error /\ UNCHANGED <<trulvl, flslvl, elflvl, elslvl, groups>>
     ELSE /\ IF flslvl > 0
             THEN flslvl' = flslvl - 1 /\ UNCHANGED trulvl
             ELSE trulvl' = trulvl - 1 /\ UNCHANGED flslvl
          /\ elflvl' = IF flslvl' = 0 THEN 0 ELSE elflvl
          /\ elslvl' = 0
          /\ groups' = Outer(groups)
          /\ UNCHANGED status
  /\ UNCHANGED saved

(* #include, only looked at in processed text: pushfile saves trulvl. *)
pushfile ==
  /\ Running
  /\ flslvl = 0
  /\ IF Len(saved) > MaxInclevel
     THEN error /\ UNCHANGED saved
     ELSE saved' = Append(saved, trulvl) /\ UNCHANGED status
  /\ UNCHANGED <<trulvl, flslvl, elflvl, elslvl, groups>>

(* fastscan returned: pushfile checks the counters and pops the file. *)
popfile ==
  /\ Running
  /\ IF saved[Len(saved)] # trulvl \/ flslvl # 0
     THEN error /\ UNCHANGED saved
     ELSE /\ saved' = Front(saved)
          /\ status' = IF Len(saved) = 1 THEN "end" ELSE "ok"
  /\ UNCHANGED <<trulvl, flslvl, elflvl, elslvl, groups>>

Stopped == ~ Running /\ UNCHANGED vars

Next ==
  \/ \E c \in BOOLEAN : ifstmt(c) \/ elifcommon(c)
  \/ elsestmt
  \/ endifstmt
  \/ pushfile
  \/ popfile
  \/ Stopped

Spec == Init /\ [][Next]_vars

-----------------------------------------------------------------------------
(* Properties.                                                             *)

TypeOK ==
  /\ trulvl \in Nat
  /\ flslvl \in Nat
  /\ elflvl \in Nat
  /\ elslvl \in Nat
  /\ saved \in Seq(Nat)
  /\ groups \in Seq(Group)
  /\ status \in {"ok", "error", "end"}

(* What each counter stands for: the first t groups are processed, the     *)
(* next f are not, and those inside the outermost skipped one can never be *)
(* entered; ...                                                            *)
Levels(g, t, f) ==
  /\ Len(g) = t + f
  /\ \A i \in 1 .. t : g[i].on /\ g[i].taken
  /\ \A i \in t + 1 .. Len(g) : ~ g[i].on
  /\ \A i \in t + 2 .. Len(g) : g[i].taken

(* ... elflvl tells a branch that was processed from one still awaited; ... *)
ElifMark(g, t, f, elf) ==
  /\ f = 0 => elf = 0
  /\ f > 0 /\ ~ g[t + 1].taken => elf = 0
  /\ f > 0 /\ g[t + 1].taken /\ g[t + 1].els = 0 => elf > t

(* ... and elslvl points at a group that has had its #else. *)
ElseMark(g, els) == els > 0 => els <= Len(g) /\ g[els].els > 0

(* How the counters stand for the stack, as long as the text is legal. *)
CountersMatchGroups ==
  status = "ok" =>
    /\ Levels(groups, trulvl, flslvl)
    /\ ElifMark(groups, trulvl, flslvl, elflvl)
    /\ ElseMark(groups, elslvl)
    /\ Len(saved) > 0

(* The four counters do the work of a stack: on every text whose #else are *)
(* the last branches of their groups, the code processes exactly the text  *)
(* the standard says, rejects exactly the strays, and accepts the end of a *)
(* file exactly when its conditionals are closed.                          *)
ImplementsStd == Std!Spec

(* error("too many #else"): the code stops at the second #else of a group. *)
NoSecondElse ==
  status = "ok" => \A i \in 1 .. Len(groups) : groups[i].els <= 1

=============================================================================
