----------------------------- MODULE CondGroups -----------------------------
(***************************************************************************)
(* What the C standard asks of conditional inclusion, over a stack of      *)
(* groups and a stack of open files.  shown says whether the text at the   *)
(* current place is processed; a file must leave its conditionals as deep  *)
(* as it found them, in text that is processed.                            *)
(***************************************************************************)
EXTENDS CondDefs

VARIABLES
  groups,  \* the open conditional groups
  files,   \* for each open file, the groups open where it starts
  shown,   \* is the current text processed?
  status   \* "ok", "error" (the preprocessor gave up) or "end"

gvars == <<groups, files, shown, status>>

Init ==
  /\ groups = <<>>
  /\ files = <<0>>
  /\ shown = TRUE
  /\ status = "ok"

Step(g) ==
  /\ status = "ok"
  /\ groups' = g
  /\ shown' = AllOn(g)
  /\ UNCHANGED <<files, status>>

If(c) == Step(Opened(groups, c))

Elif(c) == groups # <<>> /\ MayContinue(groups) /\ Step(Switched(groups, c, 0))

Else == groups # <<>> /\ MayContinue(groups) /\ Step(Switched(groups, TRUE, 1))

Endif == groups # <<>> /\ Step(Outer(groups))

(* An #elif, #else or #endif that belongs to no group. *)
Stray ==
  /\ status = "ok"
  /\ groups = <<>>
  /\ status' = "error"
  /\ UNCHANGED <<groups, files, shown>>

Include ==
  /\ status = "ok"
  /\ shown
  /\ Len(files) <= MaxInclevel
  /\ files' = Append(files, Len(groups))
  /\ UNCHANGED <<groups, shown, status>>

TooDeep ==
  /\ status = "ok"
  /\ shown
  /\ Len(files) > MaxInclevel
  /\ status' = "error"
  /\ UNCHANGED <<groups, files, shown>>

EndOfFile ==
  /\ status = "ok"
  /\ IF shown /\ Len(groups) = files[Len(files)]
     THEN /\ files' = Front(files)
          /\ status' = IF Len(files) = 1 THEN "end" ELSE "ok"
     ELSE /\ status' = "error"
          /\ UNCHANGED files
  /\ UNCHANGED <<groups, shown>>

Next ==
  \/ \E c \in BOOLEAN : If(c) \/ Elif(c)
  \/ Else
  \/ Endif
  \/ Stray
  \/ Include
  \/ TooDeep
  \/ EndOfFile

Spec == Init /\ [][Next]_gvars

=============================================================================
