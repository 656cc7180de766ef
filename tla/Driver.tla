------------------------------- MODULE Driver -------------------------------
(***************************************************************************)
(* The compiler driver pcc/cc/cc/cc.c: main's loop over the input files,   *)
(* the passes it runs one at a time (cpp, ccom, as, ld), the temporary     *)
(* files between them and their removal at exit or on a signal.            *)
(*                                                                         *)
(* A file's content is the number of the input it was made from.  The      *)
(* inputs have distinct base names, so setsuf gives distinct outputs.  The *)
(* dependency pass (-M) and the separate second compiler pass (cc2) are    *)
(* left out.                                                               *)
(***************************************************************************)
EXTENDS Integers, Sequences

CONSTANTS
  MaxInputs,  \* bound: input files on the command line
  Killed      \* TRUE: a pass may be ended by a signal

ASSUME DriverAssumption ==
  /\ MaxInputs \in Nat \ {0}
  /\ Killed \in BOOLEAN

(* The suffixes main tells apart; "o" stands for all the others. *)
Suffix == {"c", "i", "S", "s", "o"}

(* The output asked for: an executable, -c, -S (which implies -c) or -E. *)
Mode == {"link", "c", "S", "E"}

Src(k) == <<"src", k>>
Asm(k) == <<"asm", k>>
Obj(k) == <<"obj", k>>
Tmp(n) == <<"tmp", n>>
Out    == <<"out", 0>>
Stdout == <<"stdout", 0>>

File == ({"src", "asm", "obj"} \X (1 .. MaxInputs))
          \cup ({"tmp"} \X (1 .. 3 * MaxInputs)) \cup {Out, Stdout}

(* Contents of a file: the number of an input, or one of these. *)
None   == -1
Bad    == 0
Linked == MaxInputs + 1

(* The exit status after SIGINT or SIGTERM. *)
Interrupted == 100

VARIABLES
  inputs,   \* the suffixes of the input files
  mode,
  Xflag,    \* -X: keep the temporary files
  outfile,  \* was -o given?
  i,        \* the input main is at
  suffix,   \* suffix, as main updates it after every pass
  ifile,    \* ifile
  ofile,    \* ofile
  pc,       \* where main is: "next", "append", "fork", "wait", "exited"
  pass,     \* the pass being run
  child,    \* its process
  ntmp,     \* temporary files made so far
  temps,    \* temp_outputs
  ldargs,   \* middle_linker_flags
  files,    \* the contents of every file
  eval      \* exit status of the driver

vars == <<inputs, mode, Xflag, outfile, i, suffix, ifile, ofile, pc, pass,
          child, ntmp, temps, ldargs, files, eval>>

options == <<inputs, mode, Xflag, outfile>>

Eflag == mode = "E"
Sflag == mode = "S"
cflag == mode \in {"c", "S"}

Running == pc # "exited"

Init ==
  /\ inputs \in UNION {[1 .. n -> Suffix] : n \in 1 .. MaxInputs}
  /\ mode \in Mode
  /\ Xflag \in BOOLEAN
  /\ outfile \in BOOLEAN
  /\ outfile /\ mode # "link" => Len(inputs) = 1
  /\ i = 1
  /\ suffix = inputs[1]
  /\ ifile = Src(1)
  /\ ofile = Stdout
  /\ pc = "next"
  /\ pass = "cpp"
  /\ child = "none"
  /\ ntmp = 0
  /\ temps = {}
  /\ ldargs = <<>>
  /\ files = [f \in File |-> IF f[1] = "src" /\ f[2] <= Len(inputs) THEN f[2] ELSE None]
  /\ eval = 0

-----------------------------------------------------------------------------
(* dexit: unlink what temp_outputs names, unless -X. *)
dexit(e) ==
  /\ pc' = "exited"
  /\ eval' = e
  /\ files' = [f \in File |-> IF f \in temps /\ ~ Xflag THEN None ELSE files[f]]
  /\ UNCHANGED <<options, i, suffix, ifile, ofile, pass, ntmp, temps, ldargs>>

(* The next pass for the current file, and the file it writes when that is *)
(* not a temporary one.                                                    *)
NextPass == CASE suffix \in {"c", "S"} -> "cpp"
              [] suffix = "i" -> "cc"
              [] suffix = "s" -> "as"

LastPass(p) == \/ p = "cpp" /\ Eflag
               \/ p = "cc" /\ Sflag
               \/ p = "as" /\ cflag

UserFile(p) == IF outfile THEN Out
               ELSE CASE p = "cpp" -> Stdout
                      [] p = "cc" -> Asm(i)
                      [] p = "as" -> Obj(i)

MoreInput == pc = "next" /\ i <= Len(inputs)

ToUser ==
  /\ MoreInput
  /\ suffix # "o"
  /\ LastPass(NextPass)
  /\ pass' = NextPass
  /\ ofile' = UserFile(NextPass)
  /\ pc' = "fork"
  /\ UNCHANGED <<options, i, suffix, ifile, child, ntmp, temps, ldargs, files, eval>>

(* mkstemp makes the file; main puts it on temp_outputs afterwards.  It    *)
(* may fail.                                                               *)
gettmp ==
  /\ MoreInput
  /\ suffix # "o"
  /\ ~ LastPass(NextPass)
  /\ \/ /\ pass' = NextPass
        /\ ofile' = Tmp(ntmp + 1)
        /\ ntmp' = ntmp + 1
        /\ files' = [files EXCEPT ![Tmp(ntmp + 1)] = Bad]
        /\ pc' = "append"
        /\ UNCHANGED <<options, i, suffix, ifile, child, temps, ldargs, eval>>
     \/ dexit(8) /\ UNCHANGED child

(* Variant: the temporary file is not remembered. *)
strlist_appendNot ==
  /\ pc = "append"
  /\ pc' = "fork"
  /\ UNCHANGED <<options, i, suffix, ifile, ofile, pass, child, ntmp, temps,
                 ldargs, files, eval>>

strlist_append ==
  /\ pc = "append"
  /\ temps' = temps \cup {ofile}
  /\ pc' = "fork"
  /\ UNCHANGED <<options, i, suffix, ifile, ofile, pass, child, ntmp, ldargs,
                 files, eval>>

(* What main makes of the next input file. *)
Advance ==
  /\ i' = i + 1
  /\ suffix' = IF i < Len(inputs) THEN inputs[i + 1] ELSE suffix
  /\ ifile' = IF i < Len(inputs) THEN Src(i + 1) ELSE ifile

ToLinker ==
  /\ MoreInput
  /\ suffix = "o"
  /\ ldargs' = Append(ldargs, ifile)
  /\ Advance
  /\ UNCHANGED <<options, ofile, pc, pass, child, ntmp, temps, files, eval>>

NoMoreInput ==
  /\ pc = "next"
  /\ i > Len(inputs)
  /\ IF cflag \/ Eflag
     THEN dexit(0) /\ UNCHANGED child
     ELSE /\ pass' = "ld"
          /\ ofile' = Out
          /\ pc' = "fork"
          /\ UNCHANGED <<options, i, suffix, ifile, child, ntmp, temps, ldargs,
                         files, eval>>

-----------------------------------------------------------------------------
(* strlist_exec: fork, and wait for the child.                             *)

fork ==
  /\ pc = "fork"
  /\ \/ /\ child' = "started"
        /\ pc' = "wait"
        /\ UNCHANGED <<options, i, suffix, ifile, ofile, pass, ntmp, temps,
                       ldargs, files, eval>>
     \/ dexit(1) /\ UNCHANGED child

(* The pass: it opens its output, which creates or truncates it, ...       *)
ChildOpen ==
  /\ child = "started"
  /\ child' = "writing"
  /\ files' = [files EXCEPT ![ofile] = Bad]
  /\ UNCHANGED <<options, i, suffix, ifile, ofile, pc, pass, ntmp, temps,
                 ldargs, eval>>

(* ... makes of its input what it should, ... *)
Product ==
  IF pass # "ld" THEN files[ifile]
  ELSE IF [k \in 1 .. Len(ldargs) |-> files[ldargs[k]]] = [k \in 1 .. Len(inputs) |-> k]
       THEN Linked
       ELSE Bad

ChildDone ==
  /\ child = "writing"
  /\ child' = "done"
  /\ files' = [files EXCEPT ![ofile] = IF Product = None THEN Bad ELSE Product]
  /\ UNCHANGED <<options, i, suffix, ifile, ofile, pc, pass, ntmp, temps,
                 ldargs, eval>>

(* ... or ends early, by itself or killed. *)
ChildFails ==
  /\ child \in {"started", "writing"}
  /\ child' \in IF Killed THEN {"failed", "killed"} ELSE {"failed"}
  /\ UNCHANGED <<options, i, suffix, ifile, ofile, pc, pass, ntmp, temps,
                 ldargs, files, eval>>

(* Back in main after a pass: how the code goes on with its output. *)
PassDone ==
  /\ child' = "none"
  /\ IF pass = "ld"
     THEN dexit(0)
     ELSE /\ pc' = "next"
          /\ IF pass # "as" /\ LastPass(pass)
             THEN Advance
             ELSE /\ ifile' = ofile
                  /\ suffix' = CASE pass = "cpp" -> IF suffix = "S" THEN "s" ELSE "i"
                                 [] pass = "cc" -> "s"
                                 [] pass = "as" -> "o"
                  /\ UNCHANGED i
          /\ UNCHANGED <<options, ofile, pass, ntmp, temps, ldargs, files, eval>>

(* Variant: the exit status of the pass is not looked at. *)
waitpidIgnore ==
  /\ pc = "wait"
  /\ child \in {"done", "failed", "killed"}
  /\ PassDone

(* Variant: main goes on while the pass still runs. *)
waitpidNot ==
  /\ pc = "wait"
  /\ IF child = "failed" THEN dexit(1) /\ UNCHANGED child
     ELSE PassDone

(* WEXITSTATUS of a pass ended by a signal is 0; errorx exits at once. *)
waitpid ==
  /\ pc = "wait"
  /\ child \in {"done", "failed", "killed"}
  /\ IF child = "failed" THEN dexit(1) /\ UNCHANGED child
     ELSE PassDone

(* idexit.  The signal may be meant for the driver alone or, as from a     *)
(* terminal, for the pass too.                                             *)
idexit ==
  /\ Running
  /\ dexit(Interrupted)
  /\ child' \in {child, "none"}

Finished ==
  /\ ~ Running
  /\ child \notin {"started", "writing"}
  /\ UNCHANGED vars

main == ToUser \/ gettmp \/ strlist_append \/ ToLinker \/ NoMoreInput \/ fork \/ waitpid

Child == ChildOpen \/ ChildDone \/ ChildFails

Next == main \/ Child \/ idexit \/ Finished

Spec == Init /\ [][Next]_vars

-----------------------------------------------------------------------------
(* Properties.                                                             *)

Quiet == ~ Running /\ child \notin {"started", "writing"}

TempLeft == {n \in 1 .. ntmp : files[Tmp(n)] # None}

(* The driver cleans up: once it and its passes have ended, no temporary   *)
(* file is left (cc.1: -X "Don't remove temporary files on exit"); after a *)
(* signal at most the one it was working on is (made by mkstemp but not    *)
(* yet on temp_outputs, or made again by a pass that runs on).             *)
NoTempLeft ==
  Quiet /\ ~ Xflag =>
    \A n \in TempLeft : eval = Interrupted /\ ofile = Tmp(n)

(* Exit status 0 is honest: everything the command line asks for has been  *)
(* made from the right input, and the linker got every object, complete,   *)
(* in the order of the command line.                                       *)
HonestExit ==
  ~ Running /\ eval = 0 =>
    /\ mode = "link" => files[Out] = Linked
    /\ \A k \in 1 .. Len(inputs) :
         /\ mode = "E" /\ inputs[k] \in {"c", "S"} =>
              IF outfile THEN files[Out] = k ELSE files[Stdout] > Bad
         /\ mode = "S" /\ inputs[k] \in {"c", "i"} =>
              files[IF outfile THEN Out ELSE Asm(k)] = k
         /\ \/ mode = "c" /\ inputs[k] # "o"
            \/ mode = "S" /\ inputs[k] \in {"s", "S"}
            => files[IF outfile THEN Out ELSE Obj(k)] = k

(* No pass reads a file that the pass before it has not finished.          *)
InputsComplete ==
  pc = "wait" /\ child \in {"started", "writing"} =>
    IF pass = "ld" THEN \A k \in 1 .. Len(ldargs) : files[ldargs[k]] > Bad
                   ELSE files[ifile] > Bad

=============================================================================
