---------------------------- MODULE DriverProofs ----------------------------
(***************************************************************************)
(* Proofs about the driver, for any number of input files: it leaves no    *)
(* temporary file behind, and with passes that end by themselves no pass   *)
(* reads a file that is not finished, and exit status 0 means that         *)
(* everything was made.                                                    *)
(***************************************************************************)
EXTENDS Driver, TLAPS

-----------------------------------------------------------------------------
(* The inductive invariant.  Types, and what the driver's place says of    *)
(* the pass at hand; ...                                                   *)
Types ==
  /\ inputs \in Seq(Suffix) /\ Len(inputs) <= MaxInputs
  /\ i \in 1 .. Len(inputs) + 1
  /\ suffix \in Suffix
  /\ pc \in {"next", "append", "fork", "wait", "exited"}
  /\ pass \in {"cpp", "cc", "as", "ld"}
  /\ child \in {"none", "started", "writing", "done", "failed", "killed"}
  /\ ntmp \in Nat
  /\ DOMAIN files = File

(* ... at most three temporary files are made for an input, ... *)
Stage == CASE suffix \in {"c", "S"} -> 0
           [] suffix = "i" -> 1
           [] suffix = "s" -> 2
           [] suffix = "o" -> 3

FewTemps ==
  /\ pc = "next" => ntmp <= 3 * (i - 1) + Stage
  /\ pc \in {"append", "fork", "wait"} /\ pass # "ld" =>
       /\ suffix # "o" /\ pass = NextPass
       /\ i <= Len(inputs)
       /\ ntmp <= 3 * (i - 1) + Stage + 1
  /\ ntmp <= 3 * MaxInputs

(* ... every one of them is on temp_outputs, but the one just made; ... *)
Remembered ==
  /\ pc # "append" /\ Running => \A n \in 1 .. ntmp : Tmp(n) \in temps
  /\ pc = "append" => ofile = Tmp(ntmp) /\ \A n \in 1 .. ntmp - 1 : Tmp(n) \in temps

(* ... and a pass runs only while the driver waits for it, or after a      *)
(* signal ended the driver.                                                *)
OneChild ==
  /\ pc \in {"next", "append", "fork"} => child = "none"
  /\ ~ Running /\ eval # Interrupted => child \notin {"started", "writing"}

Left ==
  ~ Running /\ ~ Xflag =>
    \A n \in TempLeft : eval = Interrupted /\ ofile = Tmp(n)

DInv == Types /\ FewTemps /\ Remembered /\ OneChild /\ Left

-----------------------------------------------------------------------------
LEMMA TmpIsFile ==
  ASSUME DInv, NEW n \in 1 .. ntmp
  PROVE  Tmp(n) \in File
<1>1. n \in 1 .. 3 * MaxInputs
  BY DriverAssumption DEF DInv, Types, FewTemps
<1>2. QED
  BY <1>1 DEF Tmp, File

LEMMA InitDInv == Init => DInv
<1> SUFFICES ASSUME Init PROVE DInv
  OBVIOUS
<1>1. PICK n \in 1 .. MaxInputs : inputs \in [1 .. n -> Suffix]
  BY DEF Init
<1>2. n \in Nat /\ 1 <= n /\ n <= MaxInputs
  BY <1>1, DriverAssumption
<1>3. inputs \in Seq(Suffix) /\ Len(inputs) = n
  BY <1>1, <1>2
<1>4. suffix \in Suffix /\ i = 1 /\ ntmp = 0 /\ pc = "next" /\ child = "none" /\ pass = "cpp"
  BY <1>1, <1>2 DEF Init
<1>5. Types
  BY <1>2, <1>3, <1>4 DEF Init, Types
<1>6. Stage \in Nat
  BY <1>4 DEF Stage, Suffix
<1>7. FewTemps
  BY <1>4, <1>6, DriverAssumption DEF FewTemps
<1>8. Remembered /\ OneChild /\ Left
  BY <1>4 DEF Remembered, OneChild, Left, Running
<1>9. QED
  BY <1>5, <1>7, <1>8 DEF DInv

(* The end of the driver removes what temp_outputs names: everything but a *)
(* file that gettmp made and main did not get round to remember.           *)
LEMMA DexitStep ==
  ASSUME DInv, Running, NEW e, dexit(e), pc # "append" \/ e = Interrupted,
         child' \in {"none", "started", "writing", "done", "failed", "killed"},
         e # Interrupted => child' \notin {"started", "writing"}
  PROVE  DInv'
<1>1. /\ pc' = "exited" /\ eval' = e
      /\ UNCHANGED <<options, i, suffix, ifile, ofile, pass, ntmp, temps, ldargs>>
      /\ files' = [f \in File |-> IF f \in temps /\ ~ Xflag THEN None ELSE files[f]]
  BY DEF dexit
<1>2. Types'
  BY <1>1 DEF DInv, Types, options
<1>3. FewTemps'
  BY <1>1 DEF DInv, FewTemps
<1>4. Remembered' /\ OneChild'
  BY <1>1 DEF Remembered, OneChild, Running
<1>5. ASSUME ~ Xflag, NEW n \in 1 .. ntmp, files'[Tmp(n)] # None
      PROVE  e = Interrupted /\ ofile = Tmp(n)
  <2>1. Tmp(n) \in File
    BY TmpIsFile
  <2>2. Tmp(n) \notin temps
    BY <1>1, <1>5, <2>1
  <2>3. pc = "append" /\ ofile = Tmp(ntmp) /\ ~ (n \in 1 .. ntmp - 1)
    BY <2>2 DEF DInv, Remembered
  <2>4. n = ntmp
    BY <2>3 DEF DInv, Types
  <2>5. QED
    BY <2>3, <2>4
<1>6. Left'
  BY <1>1, <1>5 DEF Left, TempLeft, options, Running
<1>7. QED
  BY <1>2, <1>3, <1>4, <1>6 DEF DInv

LEMMA NextSlots ==
  ASSUME NEW n \in Nat, NEW k \in Nat, NEW st \in Nat
  PROVE  /\ n <= 3 * k => n <= 3 * ((k + 1) - 1) + st
         /\ \A tt \in Nat : st + 1 <= tt /\ n <= 3 * (k - 1) + st + 1 => n <= 3 * (k - 1) + tt
  OBVIOUS

LEMMA StageType ==
  ASSUME Types
  PROVE  Stage \in 0 .. 3 /\ (suffix # "o" => Stage <= 2)
  BY DEF Types, Stage, Suffix

LEMMA NextPassType ==
  ASSUME Types, suffix # "o"
  PROVE  NextPass \in {"cpp", "cc", "as"}
  BY DEF Types, NextPass, Suffix

LEMMA ToUserStep ==
  ASSUME DInv, ToUser
  PROVE  DInv'
<1>1. pc = "next" /\ i <= Len(inputs) /\ suffix # "o" /\ pass' = NextPass /\ pc' = "fork"
      /\ UNCHANGED <<options, i, suffix, ifile, child, ntmp, temps, ldargs, files, eval>>
  BY DEF ToUser, MoreInput
<1>2. Stage' = Stage /\ NextPass' = NextPass
  BY <1>1 DEF Stage, NextPass
<1>3. Types'
  BY <1>1, NextPassType DEF DInv, Types, options
<1>4. FewTemps'
  <2>1. Stage \in Nat /\ ntmp \in Nat /\ i \in Nat
    BY StageType DEF DInv, Types
  <2>2. ntmp <= 3 * (i - 1) + Stage /\ ntmp <= 3 * MaxInputs
    BY <1>1 DEF DInv, FewTemps
  <2>3. ntmp <= 3 * (i - 1) + Stage + 1
    BY <2>1, <2>2
  <2>4. QED
    BY <1>1, <1>2, <2>2, <2>3 DEF FewTemps, options
<1>5. Remembered' /\ OneChild' /\ Left'
  BY <1>1 DEF DInv, Remembered, OneChild, Left, Running
<1>6. QED
  BY <1>3, <1>4, <1>5 DEF DInv

gettmpMakes ==
  /\ MoreInput
  /\ suffix # "o"
  /\ pass' = NextPass
  /\ ofile' = Tmp(ntmp + 1)
  /\ ntmp' = ntmp + 1
  /\ files' = [files EXCEPT ![Tmp(ntmp + 1)] = Bad]
  /\ pc' = "append"
  /\ UNCHANGED <<options, i, suffix, ifile, child, temps, ldargs, eval>>

LEMMA gettmpMakesStep ==
  ASSUME DInv, gettmpMakes
  PROVE  DInv'
<1>1. pc = "next" /\ i <= Len(inputs) /\ suffix # "o" /\ pass' = NextPass /\ pc' = "append"
      /\ ofile' = Tmp(ntmp + 1) /\ ntmp' = ntmp + 1
      /\ files' = [files EXCEPT ![Tmp(ntmp + 1)] = Bad]
      /\ UNCHANGED <<options, i, suffix, ifile, child, temps, ldargs, eval>>
  BY DEF gettmpMakes, MoreInput
<1>2. Stage' = Stage /\ NextPass' = NextPass
  BY <1>1 DEF Stage, NextPass
<1>3. Types'
  BY <1>1, NextPassType DEF DInv, Types, options
<1>4. FewTemps'
  <2>1. Stage \in Nat /\ ntmp \in Nat /\ i \in Nat /\ Stage <= 2 /\ i <= MaxInputs
    BY <1>1, StageType, DriverAssumption DEF DInv, Types
  <2>2. ntmp <= 3 * (i - 1) + Stage
    BY <1>1 DEF DInv, FewTemps
  <2>3. ntmp + 1 <= 3 * (i - 1) + Stage + 1 /\ ntmp + 1 <= 3 * MaxInputs
    BY <2>1, <2>2, DriverAssumption
  <2>4. QED
    BY <1>1, <1>2, <2>3 DEF FewTemps, options
<1>5. Remembered'
  <2>1. ntmp \in Nat /\ \A n \in 1 .. ntmp : Tmp(n) \in temps
    BY <1>1 DEF DInv, Types, Remembered, Running
  <2>2. ntmp' = ntmp + 1 /\ temps' = temps
    BY <1>1
  <2>3. \A n \in 1 .. ntmp' - 1 : Tmp(n) \in temps'
    <3>1. 1 .. ntmp' - 1 = 1 .. ntmp
      BY <2>1, <2>2
    <3>2. QED
      BY <2>1, <2>2, <3>1 DEF Tmp
  <2>4. pc' = "append" /\ ofile' = Tmp(ntmp')
    BY <1>1 DEF Tmp
  <2>5. QED
    BY <2>3, <2>4 DEF Remembered, Tmp
<1>6. OneChild' /\ Left'
  BY <1>1 DEF DInv, OneChild, Left, Running
<1>7. QED
  BY <1>3, <1>4, <1>5, <1>6 DEF DInv

LEMMA gettmpStep ==
  ASSUME DInv, gettmp
  PROVE  DInv'
<1>1. pc = "next" /\ child = "none"
  BY DEF gettmp, MoreInput, DInv, OneChild
<1>2. CASE gettmpMakes
  BY <1>2, gettmpMakesStep
<1>3. CASE dexit(8) /\ UNCHANGED child
  BY <1>1, <1>3, DexitStep DEF Running
<1>4. QED
  BY <1>2, <1>3 DEF gettmp, gettmpMakes

LEMMA strlist_appendStep ==
  ASSUME DInv, strlist_append
  PROVE  DInv'
<1>1. pc = "append" /\ temps' = temps \cup {ofile} /\ pc' = "fork"
      /\ UNCHANGED <<options, i, suffix, ifile, ofile, pass, child, ntmp, ldargs,
                     files, eval>>
  BY DEF strlist_append
<1>2. Stage' = Stage /\ NextPass' = NextPass
  BY <1>1 DEF Stage, NextPass
<1>3. Types' /\ FewTemps' /\ OneChild' /\ Left'
  BY <1>1, <1>2 DEF DInv, Types, FewTemps, OneChild, Left, Running, options
<1>4. \A n \in 1 .. ntmp : n = ntmp \/ n \in 1 .. ntmp - 1
  BY DEF DInv, Types
<1>5. Remembered'
  BY <1>1, <1>4 DEF DInv, Remembered
<1>6. QED
  BY <1>3, <1>5 DEF DInv

(* Advance starts the next input with as many temporaries to spare. *)
LEMMA AdvanceStep ==
  ASSUME DInv, Advance, i <= Len(inputs), UNCHANGED <<inputs, ntmp>>,
         ntmp <= 3 * i
  PROVE  /\ i' \in 1 .. Len(inputs) + 1
         /\ suffix' \in Suffix
         /\ ntmp' <= 3 * (i' - 1) + Stage'
<1>1. /\ i \in Nat /\ i >= 1 /\ Len(inputs) \in Nat /\ ntmp \in Nat
      /\ suffix \in Suffix /\ inputs \in Seq(Suffix)
  BY DEF DInv, Types
<1>2. i' = i + 1 /\ suffix' = IF i < Len(inputs) THEN inputs[i + 1] ELSE suffix
  BY DEF Advance
<1>3. suffix' \in Suffix
  BY <1>1, <1>2
<1>4. Stage' \in Nat
  BY <1>3 DEF Stage, Suffix
<1>5. i' \in 1 .. Len(inputs) + 1
  BY <1>1, <1>2
<1>6. ntmp' <= 3 * (i' - 1) + Stage'
  <2>1. ntmp <= 3 * ((i + 1) - 1) + Stage'
    BY <1>1, <1>4, NextSlots
  <2>2. QED
    BY <1>2, <2>1
<1>7. QED
  BY <1>3, <1>5, <1>6

LEMMA ToLinkerStep ==
  ASSUME DInv, ToLinker
  PROVE  DInv'
<1>1. pc = "next" /\ i <= Len(inputs) /\ suffix = "o" /\ Advance
      /\ UNCHANGED <<options, ofile, pc, pass, child, ntmp, temps, files, eval>>
  BY DEF ToLinker, MoreInput
<1>2. ntmp <= 3 * i
  <2>1. Stage = 3 /\ i \in Nat /\ ntmp \in Nat
    BY <1>1 DEF Stage, DInv, Types
  <2>2. ntmp <= 3 * (i - 1) + Stage
    BY <1>1 DEF DInv, FewTemps
  <2>3. QED
    BY <2>1, <2>2
<1>3. /\ i' \in 1 .. Len(inputs) + 1 /\ suffix' \in Suffix
      /\ ntmp' <= 3 * (i' - 1) + Stage'
  BY <1>1, <1>2, AdvanceStep DEF options
<1>4. Types' /\ FewTemps'
  BY <1>1, <1>3 DEF DInv, Types, FewTemps, options
<1>5. Remembered' /\ OneChild' /\ Left'
  BY <1>1 DEF DInv, Remembered, OneChild, Left, Running
<1>6. QED
  BY <1>4, <1>5 DEF DInv

LEMMA NoMoreInputStep ==
  ASSUME DInv, NoMoreInput
  PROVE  DInv'
<1>1. pc = "next" /\ child = "none" /\ Running
  BY DEF NoMoreInput, DInv, OneChild, Running
<1>2. CASE cflag \/ Eflag
  BY <1>1, <1>2, DexitStep DEF NoMoreInput
<1>3. CASE ~ (cflag \/ Eflag)
  <2>1. pass' = "ld" /\ pc' = "fork"
        /\ UNCHANGED <<options, i, suffix, ifile, child, ntmp, temps, ldargs,
                       files, eval>>
    BY <1>3 DEF NoMoreInput
  <2>2. QED
    BY <1>1, <2>1 DEF DInv, Types, FewTemps, Remembered, OneChild, Left, Running, options
<1>4. QED
  BY <1>2, <1>3

LEMMA forkStep ==
  ASSUME DInv, fork
  PROVE  DInv'
<1>1. pc = "fork" /\ child = "none" /\ Running
  BY DEF fork, DInv, OneChild, Running
<1>2. CASE dexit(1) /\ UNCHANGED child
  BY <1>1, <1>2, DexitStep
<1>3. ASSUME child' = "started", pc' = "wait",
             UNCHANGED <<options, i, suffix, ifile, ofile, pass, ntmp, temps,
                         ldargs, files, eval>>
      PROVE  DInv'
  <2>1. Stage' = Stage /\ NextPass' = NextPass
    BY <1>3 DEF Stage, NextPass
  <2>2. QED
    BY <1>1, <1>3, <2>1 DEF DInv, Types, FewTemps, Remembered, OneChild, Left,
                            Running, options
<1>4. QED
  BY <1>2, <1>3 DEF fork

LEMMA ChildStep ==
  ASSUME DInv, Child
  PROVE  DInv'
<1>1. /\ child \in {"started", "writing"}
      /\ child' \in {"writing", "done", "failed", "killed"}
      /\ UNCHANGED <<options, i, suffix, ifile, ofile, pc, pass, ntmp, temps,
                     ldargs, eval>>
      /\ DOMAIN files' = File /\ \A f \in File : f # ofile => files'[f] = files[f]
  <2>1. CASE ChildOpen
    BY <2>1 DEF ChildOpen, DInv, Types
  <2>2. CASE ChildDone
    BY <2>2 DEF ChildDone, DInv, Types
  <2>3. CASE ChildFails
    BY <2>3 DEF ChildFails, DInv, Types
  <2>4. QED
    BY <2>1, <2>2, <2>3 DEF Child
<1>2. Stage' = Stage /\ NextPass' = NextPass
  BY <1>1 DEF Stage, NextPass
<1>3. Types' /\ FewTemps' /\ Remembered'
  BY <1>1, <1>2 DEF DInv, Types, FewTemps, Remembered, Running, options
<1>4. pc \in {"wait", "exited"} /\ (~ Running => eval = Interrupted)
  BY <1>1 DEF DInv, Types, OneChild, Running
<1>5. OneChild'
  BY <1>1, <1>4 DEF OneChild, Running
<1>6. Left'
  <2>1. ASSUME ~ Running, ~ Xflag, NEW n \in 1 .. ntmp, files'[Tmp(n)] # None
        PROVE  ofile = Tmp(n)
    <3>1. CASE Tmp(n) = ofile
      BY <3>1
    <3>2. CASE Tmp(n) # ofile
      <4>1. files'[Tmp(n)] = files[Tmp(n)]
        BY <1>1, <3>2, TmpIsFile
      <4>2. QED
        BY <2>1, <4>1 DEF DInv, Left, TempLeft
    <3>3. QED
      BY <3>1, <3>2
  <2>2. QED
    BY <1>1, <1>4, <2>1 DEF Left, TempLeft, Running, options
<1>7. QED
  BY <1>3, <1>5, <1>6 DEF DInv

LEMMA waitpidStep ==
  ASSUME DInv, waitpid
  PROVE  DInv'
<1>1. pc = "wait" /\ child \in {"done", "failed", "killed"} /\ Running
  BY DEF waitpid, Running
<1>2. CASE child = "failed"
  BY <1>1, <1>2, DexitStep DEF waitpid
<1>3. CASE child # "failed" /\ pass = "ld"
  BY <1>1, <1>3, DexitStep DEF waitpid, PassDone
<1>4. CASE child # "failed" /\ pass # "ld"
  <2>1. /\ child' = "none" /\ pc' = "next"
        /\ UNCHANGED <<options, ofile, pass, ntmp, temps, ldargs, files, eval>>
        /\ IF pass # "as" /\ LastPass(pass)
           THEN Advance
           ELSE /\ i' = i
                /\ suffix' = CASE pass = "cpp" -> IF suffix = "S" THEN "s" ELSE "i"
                               [] pass = "cc" -> "s"
                               [] pass = "as" -> "o"
    BY <1>1, <1>4 DEF waitpid, PassDone
  <2>2. /\ suffix # "o" /\ pass = NextPass /\ i <= Len(inputs)
        /\ ntmp <= 3 * (i - 1) + Stage + 1
        /\ i \in 1 .. Len(inputs) + 1 /\ ntmp \in Nat /\ suffix \in Suffix
        /\ Stage \in 0 .. 2
    BY <1>1, <1>4, StageType DEF DInv, FewTemps, Types
  <2>3. /\ i' \in 1 .. Len(inputs) + 1 /\ suffix' \in Suffix
        /\ ntmp' <= 3 * (i' - 1) + Stage'
    <3>1. CASE pass # "as" /\ LastPass(pass)
      <4>1. ntmp <= 3 * i
        BY <2>2
      <4>2. QED
        BY <2>1, <2>2, <3>1, <4>1, AdvanceStep DEF options
    <3>2. CASE ~ (pass # "as" /\ LastPass(pass))
      <4>1. suffix' \in Suffix /\ Stage' >= Stage + 1 /\ Stage' \in Nat
        <5>1. CASE suffix = "c"
          BY <2>1, <2>2, <3>2, <5>1 DEF NextPass, Stage, Suffix
        <5>2. CASE suffix = "S"
          BY <2>1, <2>2, <3>2, <5>2 DEF NextPass, Stage, Suffix
        <5>3. CASE suffix = "i"
          BY <2>1, <2>2, <3>2, <5>3 DEF NextPass, Stage, Suffix
        <5>4. CASE suffix = "s"
          BY <2>1, <2>2, <3>2, <5>4 DEF NextPass, Stage, Suffix
        <5>5. QED
          BY <2>2, <5>1, <5>2, <5>3, <5>4 DEF Suffix
      <4>2. i' = i /\ ntmp' = ntmp
        BY <2>1, <3>2
      <4>3. ntmp <= 3 * (i - 1) + Stage'
        <5>1. i \in Nat /\ Stage \in Nat /\ Stage + 1 <= Stage'
          BY <2>2, <4>1
        <5>2. QED
          BY <2>2, <4>1, <5>1, NextSlots
      <4>4. QED
        BY <2>2, <4>1, <4>2, <4>3
    <3>3. QED
      BY <3>1, <3>2
  <2>4. Types' /\ FewTemps'
    BY <2>1, <2>3 DEF DInv, Types, FewTemps, options
  <2>5. Remembered' /\ OneChild' /\ Left'
    BY <1>1, <2>1 DEF DInv, Remembered, OneChild, Left, Running
  <2>6. QED
    BY <2>4, <2>5 DEF DInv
<1>5. QED
  BY <1>2, <1>3, <1>4

LEMMA idexitStep ==
  ASSUME DInv, idexit
  PROVE  DInv'
<1>1. child' \in {"none", "started", "writing", "done", "failed", "killed"}
  BY DEF idexit, DInv, Types
<1>2. QED
  BY <1>1, DexitStep DEF idexit

LEMMA StutterStep ==
  ASSUME DInv, UNCHANGED vars
  PROVE  DInv'
  BY DEF DInv, Types, FewTemps, Remembered, OneChild, Left, Running, Stage,
         NextPass, TempLeft, Quiet, vars

(* However many inputs there are, the driver that exits by itself leaves   *)
(* no temporary file, and one that a signal ends leaves at most the file   *)
(* it was working on.                                                      *)
THEOREM CleanExit == Spec => []NoTempLeft
<1>1. DInv /\ [Next]_vars => DInv'
  BY ToUserStep, gettmpStep, strlist_appendStep, ToLinkerStep, NoMoreInputStep,
     forkStep, ChildStep, waitpidStep, idexitStep, StutterStep
     DEF Next, main, Finished
<1>2. DInv => NoTempLeft
  BY DEF DInv, Left, NoTempLeft, Quiet
<1>3. QED
  BY <1>1, <1>2, InitDInv, PTL DEF Spec

-----------------------------------------------------------------------------
(* The inductive invariant.  Passing: there is an input to go on with.     *)
Passing == Running /\ i <= Len(inputs)

Busy == pc \in {"append", "fork", "wait"}

Options ==
  /\ mode \in Mode
  /\ outfile \in BOOLEAN
  /\ outfile /\ mode # "link" => Len(inputs) = 1
  /\ child # "killed"
  /\ \A f \in temps : f[1] = "tmp"

(* How far the passes take an input of the suffix s, ...                   *)
Route(s) ==
  CASE s = "c" -> IF Eflag THEN {"c"} ELSE IF Sflag THEN {"c", "i"} ELSE {"c", "i", "s", "o"}
    [] s = "i" -> IF Sflag THEN {"i"} ELSE {"i", "s", "o"}
    [] s = "S" -> IF Eflag THEN {"S"} ELSE {"S", "s", "o"}
    [] s = "s" -> {"s", "o"}
    [] s = "o" -> {"o"}

OnRoute == Passing => suffix \in Route(inputs[i])

(* ... where a pass puts what it makes, ...                                *)
Output ==
  Busy => IF pass = "ld" THEN mode = "link" /\ i = Len(inputs) + 1 /\ ofile = Out
          ELSE IF LastPass(pass) THEN pc # "append" /\ ofile = UserFile(pass)
          ELSE ntmp >= 1 /\ ofile = Tmp(ntmp)

(* ... and that it is not what any pass still has to read.                 *)
Private(f) == f \in {Src(k) : k \in 1 .. Len(inputs)} \cup {Tmp(n) : n \in 1 .. ntmp}

Safe(f) == Busy => f # ofile

Assembled == cflag /\ suffix = "o" /\ inputs[i] # "o"

Sources == Running => \A k \in 1 .. Len(inputs) : files[Src(k)] = k

Input ==
  Passing =>
    /\ IF Assembled THEN ifile = UserFile("as") ELSE Private(ifile)
    /\ Safe(ifile)
    /\ files[ifile] = i

Objects ==
  Running /\ mode = "link" =>
    /\ ldargs \in Seq(File) /\ Len(ldargs) = i - 1
    /\ \A k \in 1 .. i - 1 : Private(ldargs[k]) /\ Safe(ldargs[k]) /\ files[ldargs[k]] = k

Written ==
  pc = "wait" /\ child = "done" => files[ofile] = IF pass = "ld" THEN Linked ELSE i

(* What the command line asks for of an input; standard output is between  *)
(* two inputs while cpp writes to it.                                      *)
Asked(k) ==
  /\ mode = "E" /\ inputs[k] \in {"c", "S"} =>
       IF outfile THEN files[Out] = k
       ELSE (Busy /\ ofile = Stdout) \/ files[Stdout] > Bad
  /\ mode = "S" /\ inputs[k] \in {"c", "i"} =>
       files[IF outfile THEN Out ELSE Asm(k)] = k
  /\ \/ mode = "c" /\ inputs[k] # "o"
     \/ mode = "S" /\ inputs[k] \in {"s", "S"}
     => files[IF outfile THEN Out ELSE Obj(k)] = k

Delivered == Running => \A k \in 1 .. i - 1 : Asked(k)

OInv ==
  /\ DInv /\ Options /\ OnRoute /\ Output /\ Sources /\ Input /\ Objects
  /\ Written /\ Delivered /\ HonestExit

-----------------------------------------------------------------------------
(* What a pass reads is a file, and none of those the user asked for.      *)
LEMMA PrivateIsFile ==
  ASSUME DInv, NEW f, Private(f)
  PROVE  /\ f \in File /\ f # Out /\ f # Stdout /\ f # Tmp(ntmp + 1)
         /\ \A p \in {"cpp", "cc", "as"} : f # UserFile(p)
<1>1. ntmp \in Nat /\ Len(inputs) \in Nat /\ Len(inputs) <= MaxInputs /\ MaxInputs \in Nat
  BY DriverAssumption DEF DInv, Types
<1>2. CASE \E k \in 1 .. Len(inputs) : f = Src(k)
  <2>1. PICK k \in 1 .. Len(inputs) : f = Src(k)
    BY <1>2
  <2>2. k \in 1 .. MaxInputs
    BY <1>1
  <2>3. f \in File
    BY <2>1, <2>2 DEF File, Src
  <2>4. QED
    BY <2>1, <2>3 DEF Src, Out, Stdout, Tmp, UserFile, Asm, Obj
<1>3. CASE \E n \in 1 .. ntmp : f = Tmp(n)
  <2>1. PICK n \in 1 .. ntmp : f = Tmp(n)
    BY <1>3
  <2>2. f \in File
    BY <2>1, TmpIsFile
  <2>3. n # ntmp + 1
    BY <1>1
  <2>4. QED
    BY <2>1, <2>2, <2>3 DEF Out, Stdout, Tmp, UserFile, Asm, Obj
<1>4. QED
  BY <1>2, <1>3 DEF Private

LEMMA InitOInv == Init => OInv
<1> SUFFICES ASSUME Init PROVE OInv
  OBVIOUS
<1>1. DInv
  BY InitDInv
<1>2. PICK n \in 1 .. MaxInputs : inputs \in [1 .. n -> Suffix]
  BY DEF Init
<1>3. n \in Nat /\ 1 <= n /\ n <= MaxInputs /\ Len(inputs) = n /\ inputs[1] \in Suffix
  BY <1>2, DriverAssumption
<1>4. /\ pc = "next" /\ i = 1 /\ suffix = inputs[1] /\ ifile = Src(1)
      /\ ldargs = <<>> /\ child = "none" /\ temps = {} /\ ntmp = 0
  BY DEF Init
<1>5. Sources
  <2>1. ASSUME NEW k \in 1 .. Len(inputs) PROVE files[Src(k)] = k
    <3>1. k \in 1 .. MaxInputs /\ k <= Len(inputs)
      BY <1>3, DriverAssumption
    <3>2. Src(k) \in File /\ Src(k)[1] = "src" /\ Src(k)[2] = k
      BY <3>1 DEF Src, File
    <3>3. QED
      BY <3>1, <3>2 DEF Init
  <2>2. QED
    BY <2>1 DEF Sources
<1>6. Options /\ Output /\ Written /\ Delivered /\ HonestExit
  BY <1>4 DEF Init, Options, Output, Busy, Written, Delivered, HonestExit, Running
<1>7. OnRoute
  BY <1>3, <1>4 DEF OnRoute, Route, Suffix
<1>8. Input
  <2>1. Src(1) \in {Src(k) : k \in 1 .. Len(inputs)} /\ files[Src(1)] = 1
    BY <1>3, <1>4, <1>5 DEF Sources, Running
  <2>2. QED
    BY <1>4, <2>1 DEF Input, Assembled, Private, Safe, Busy
<1>9. Objects
  BY <1>4 DEF Objects
<1>10. QED
  BY <1>1, <1>5, <1>6, <1>7, <1>8, <1>9 DEF OInv

(* After the end of the driver only HonestExit asks for anything.          *)
LEMMA DexitKeeps ==
  ASSUME OInv, DInv', NEW e, dexit(e), child' # "killed", e = 0 => HonestExit'
  PROVE  OInv'
<1>1. /\ pc' = "exited" /\ eval' = e
      /\ UNCHANGED <<inputs, mode, outfile, temps>>
  BY DEF dexit, options
<1>2. Options'
  BY <1>1 DEF OInv, Options
<1>3. OnRoute' /\ Output' /\ Sources' /\ Input' /\ Objects' /\ Written' /\ Delivered'
  BY <1>1 DEF OnRoute, Passing, Output, Busy, Sources, Input, Objects, Written,
              Delivered, Running
<1>4. HonestExit'
  BY <1>1 DEF HonestExit
<1>5. QED
  BY <1>2, <1>3, <1>4 DEF OInv

(* dexit leaves what the user asked for. *)
LEMMA DexitLeaves ==
  ASSUME OInv, NEW e, dexit(e), NEW f \in File, f[1] # "tmp"
  PROVE  files'[f] = files[f]
  BY DEF dexit, OInv, Options

-----------------------------------------------------------------------------
LEMMA ToUserKeeps ==
  ASSUME OInv, ToUser
  PROVE  OInv'
<1>1. /\ pc = "next" /\ i <= Len(inputs) /\ suffix # "o" /\ LastPass(NextPass)
      /\ pass' = NextPass /\ ofile' = UserFile(NextPass) /\ pc' = "fork"
      /\ UNCHANGED <<options, i, suffix, ifile, child, ntmp, temps, ldargs, files, eval>>
  BY DEF ToUser, MoreInput
<1>2. DInv /\ DInv' /\ NextPass \in {"cpp", "cc", "as"} /\ mode # "link"
  BY <1>1, ToUserStep, NextPassType DEF OInv, DInv, LastPass, Eflag, Sflag, cflag
<1>3. Options' /\ OnRoute' /\ Sources' /\ Objects' /\ Written' /\ HonestExit'
  BY <1>1, <1>2 DEF OInv, Options, OnRoute, Passing, Route, Sources, Objects, Written,
                    HonestExit, Running, options, Eflag, Sflag
<1>4. Output'
  BY <1>1, <1>2 DEF Output, UserFile, LastPass, options, Eflag, Sflag, cflag
<1>5. Input'
  <2>1. Private(ifile) /\ files[ifile] = i
    BY <1>1 DEF OInv, Input, Passing, Running, Assembled
  <2>2. ifile # ofile'
    BY <1>1, <1>2, <2>1, PrivateIsFile
  <2>3. Private(ifile)' /\ ~ Assembled'
    BY <1>1, <2>1 DEF Private, Assembled, options
  <2>4. QED
    BY <1>1, <2>1, <2>2, <2>3 DEF Input, Safe
<1>6. Delivered'
  <2>1. \A k \in 1 .. i - 1 : Asked(k)
    BY <1>1 DEF OInv, Delivered, Running
  <2>2. \A k \in 1 .. i - 1 : Asked(k)'
    BY <1>1, <2>1 DEF Asked, Busy, options
  <2>3. QED
    BY <1>1, <2>2 DEF Delivered
<1>7. QED
  BY <1>2, <1>3, <1>4, <1>5, <1>6 DEF OInv

LEMMA gettmpMakesKeeps ==
  ASSUME OInv, gettmpMakes, ~ LastPass(NextPass)
  PROVE  OInv'
<1>1. /\ pc = "next" /\ i <= Len(inputs) /\ suffix # "o"
      /\ pass' = NextPass /\ ofile' = Tmp(ntmp + 1) /\ ntmp' = ntmp + 1 /\ pc' = "append"
      /\ files' = [files EXCEPT ![Tmp(ntmp + 1)] = Bad]
      /\ UNCHANGED <<options, i, suffix, ifile, child, temps, ldargs, eval>>
  BY DEF gettmpMakes, MoreInput
<1>2. DInv /\ DInv' /\ NextPass \in {"cpp", "cc", "as"} /\ ntmp \in Nat
  BY <1>1, gettmpMakesStep, NextPassType DEF OInv, DInv, Types
<1>3. \A f \in File : f # Tmp(ntmp + 1) => files'[f] = files[f]
  BY <1>1, <1>2 DEF DInv, Types
<1>4. \A f : Private(f) => Private(f)' /\ f \in File /\ f # Tmp(ntmp + 1)
  <2>1. \A f : Private(f) => f \in File /\ f # Tmp(ntmp + 1)
    BY <1>2, PrivateIsFile
  <2>2. 1 .. ntmp \subseteq 1 .. ntmp + 1
    BY <1>2
  <2>3. QED
    BY <1>1, <2>1, <2>2 DEF Private, options
<1>5. Options' /\ OnRoute' /\ Written' /\ HonestExit'
  BY <1>1, <1>2 DEF OInv, Options, OnRoute, Passing, Route, Written,
                    HonestExit, Running, options, Eflag, Sflag
<1>6. Output'
  BY <1>1, <1>2 DEF Output, LastPass, options, Eflag, Sflag, cflag
<1>7. Sources'
  <2>1. ASSUME NEW k \in 1 .. Len(inputs) PROVE files'[Src(k)] = k
    <3>1. Private(Src(k)) /\ files[Src(k)] = k
      BY <1>1 DEF Private, OInv, Sources, Running
    <3>2. QED
      BY <1>3, <1>4, <3>1
  <2>2. QED
    BY <1>1, <2>1 DEF Sources, options
<1>8. Input'
  <2>1. Private(ifile) /\ files[ifile] = i
    BY <1>1 DEF OInv, Input, Passing, Running, Assembled
  <2>2. QED
    BY <1>1, <1>3, <1>4, <2>1 DEF Input, Safe, Assembled
<1>9. Objects'
  <2>1. ASSUME mode = "link" PROVE /\ ldargs \in Seq(File) /\ Len(ldargs) = i - 1
                                  /\ \A k \in 1 .. i - 1 : Private(ldargs[k]) /\ files[ldargs[k]] = k
    BY <1>1, <2>1 DEF OInv, Objects, Running
  <2>2. QED
    BY <1>1, <1>3, <1>4, <2>1 DEF Objects, Safe, options
<1>10. Delivered'
  <2>1. ASSUME NEW k \in 1 .. i - 1 PROVE Asked(k)'
    <3>1. Asked(k) /\ k \in 1 .. MaxInputs
      BY <1>1, <1>2, DriverAssumption DEF OInv, Delivered, Running, DInv, Types
    <3>2. /\ Out \in File /\ Stdout \in File /\ Asm(k) \in File /\ Obj(k) \in File
          /\ Tmp(ntmp + 1) \notin {Out, Stdout, Asm(k), Obj(k)}
      BY <3>1 DEF Out, Stdout, Asm, Obj, Tmp, File
    <3>3. files'[Out] = files[Out] /\ files'[Stdout] = files[Stdout]
          /\ files'[Asm(k)] = files[Asm(k)] /\ files'[Obj(k)] = files[Obj(k)]
      BY <1>3, <3>2
    <3>4. QED
      BY <1>1, <3>1, <3>3 DEF Asked, Busy, options
  <2>2. QED
    BY <1>1, <2>1 DEF Delivered
<1>11. QED
  BY <1>2, <1>5, <1>6, <1>7, <1>8, <1>9, <1>10 DEF OInv

LEMMA gettmpKeeps ==
  ASSUME OInv, gettmp
  PROVE  OInv'
<1>1. CASE gettmpMakes
  BY <1>1, gettmpMakesKeeps DEF gettmp
<1>2. CASE dexit(8) /\ UNCHANGED child
  BY <1>2, gettmpStep, DexitKeeps DEF OInv, Options
<1>3. QED
  BY <1>1, <1>2 DEF gettmp, gettmpMakes

LEMMA strlist_appendKeeps ==
  ASSUME OInv, strlist_append
  PROVE  OInv'
<1>1. /\ pc = "append" /\ temps' = temps \cup {ofile} /\ pc' = "fork"
      /\ UNCHANGED <<options, i, suffix, ifile, ofile, pass, child, ntmp, ldargs,
                     files, eval>>
  BY DEF strlist_append
<1>2. DInv' /\ ofile = Tmp(ntmp) /\ child = "none"
  BY <1>1, strlist_appendStep DEF OInv, DInv, Remembered, OneChild
<1>3. Options'
  BY <1>1, <1>2 DEF OInv, Options, options, Tmp
<1>4. OnRoute' /\ Sources' /\ Written' /\ HonestExit' /\ Delivered'
  BY <1>1 DEF OInv, OnRoute, Passing, Route, Sources, Written, HonestExit, Delivered, Asked,
              Busy, Running, options, Eflag, Sflag
<1>5. Output'
  BY <1>1 DEF OInv, Output, Busy, UserFile, LastPass, Asm, Obj, options, Eflag, Sflag, cflag
<1>6. Input' /\ Objects'
  BY <1>1 DEF OInv, Input, Objects, Passing, Assembled, UserFile, Private, Safe, Busy,
              Running, options, cflag
<1>7. QED
  BY <1>2, <1>3, <1>4, <1>5, <1>6 DEF OInv

(* The next input, once the one before it is done with.                    *)
LEMMA AdvanceKeeps ==
  ASSUME OInv, DInv', Advance, i <= Len(inputs), pc \in {"next", "wait"}, pc' = "next",
         child' = "none", UNCHANGED <<options, ofile, ntmp, temps, files>>, NEW m, m = i, Asked(m)',
         mode = "link" => Private(ifile) /\ ldargs' = Append(ldargs, ifile),
         pc = "wait" /\ ofile = Stdout => files[Stdout] > Bad
  PROVE  OInv'
<1>1. /\ i \in Nat /\ i >= 1 /\ Len(inputs) \in Nat /\ inputs \in Seq(Suffix)
      /\ i' = i + 1
      /\ i < Len(inputs) => suffix' = inputs[i + 1] /\ ifile' = Src(i + 1)
      /\ Passing /\ Running /\ Running' /\ ~ Busy'
  BY DEF OInv, DInv, Types, Advance, Passing, Running, Busy
<1>2. Options' /\ Output' /\ Sources' /\ Written' /\ HonestExit'
  BY <1>1 DEF OInv, Options, Output, Sources, Written, HonestExit, options
<1>3. ASSUME Passing'
      PROVE  /\ i < Len(inputs) /\ i + 1 \in 1 .. Len(inputs)
             /\ inputs'[i'] = inputs[i + 1] /\ suffix' = inputs[i + 1]
             /\ inputs[i + 1] \in Suffix
  BY <1>1, <1>3 DEF Passing, options
<1>4. OnRoute'
  <2>1. ASSUME Passing' PROVE (suffix \in Route(inputs[i]))'
    BY <1>1, <1>3, <2>1 DEF Route, Suffix, options, Eflag, Sflag
  <2>2. QED
    BY <2>1 DEF OnRoute
<1>5. Input'
  <2>1. ASSUME Passing' PROVE ~ Assembled' /\ Private(ifile)' /\ files'[ifile'] = i'
    <3>1. ifile' = Src(i + 1) /\ files[Src(i + 1)] = i + 1
      BY <1>1, <1>3, <2>1 DEF OInv, Sources
    <3>2. ~ Assembled'
      BY <1>1, <1>3, <2>1 DEF Assembled
    <3>3. Private(ifile)'
      BY <1>3, <2>1, <3>1 DEF Private, options
    <3>4. QED
      BY <1>1, <3>1, <3>2, <3>3
  <2>2. QED
    BY <1>1, <2>1 DEF Input, Safe
<1>6. Objects'
  <2>1. ASSUME mode = "link"
        PROVE  /\ ldargs' \in Seq(File) /\ Len(ldargs') = i' - 1
               /\ \A k \in 1 .. i' - 1 : Private(ldargs[k])' /\ files'[ldargs'[k]] = k
    <3>1. /\ ldargs \in Seq(File) /\ Len(ldargs) = i - 1
          /\ \A k \in 1 .. i - 1 : Private(ldargs[k]) /\ files[ldargs[k]] = k
      BY <1>1, <2>1 DEF OInv, Objects
    <3>2. Private(ifile) /\ ifile \in File /\ ldargs' = Append(ldargs, ifile) /\ files[ifile] = i
      BY <1>1, <2>1, PrivateIsFile DEF OInv, Input
    <3>3. /\ ldargs' \in Seq(File) /\ Len(ldargs') = i
          /\ ldargs'[i] = ifile /\ \A k \in 1 .. i - 1 : ldargs'[k] = ldargs[k]
      BY <1>1, <3>1, <3>2
    <3>4. \A f : Private(f) => Private(f)'
      BY DEF Private, options
    <3>5. ASSUME NEW k \in 1 .. i' - 1 PROVE Private(ldargs[k])' /\ files'[ldargs'[k]] = k
      <4>1. CASE k = i
        BY <3>2, <3>3, <3>4, <4>1
      <4>2. CASE k # i
        <5>1. k \in 1 .. i - 1
          BY <1>1, <3>5, <4>2
        <5>2. QED
          BY <3>1, <3>3, <3>4, <5>1
      <4>3. QED
        BY <4>1, <4>2
    <3>6. QED
      BY <1>1, <3>3, <3>5
  <2>2. QED
    BY <1>1, <2>1 DEF Objects, Safe, options
<1>7. Delivered'
  <2>1. ASSUME NEW k \in 1 .. i - 1 PROVE Asked(k)'
    <3>1. Asked(k)
      BY <1>1 DEF OInv, Delivered
    <3>2. Busy /\ ofile = Stdout => files[Stdout] > Bad
      BY DEF Busy
    <3>3. QED
      BY <1>1, <3>1, <3>2 DEF Asked, options
  <2>2. \A k \in 1 .. i' - 1 : k = i \/ k \in 1 .. i - 1
    BY <1>1
  <2>3. QED
    BY <2>1, <2>2 DEF Delivered
<1>8. QED
  BY <1>2, <1>4, <1>5, <1>6, <1>7 DEF OInv

LEMMA ToLinkerKeeps ==
  ASSUME OInv, ToLinker
  PROVE  OInv'
<1>1. /\ pc = "next" /\ i <= Len(inputs) /\ suffix = "o" /\ Advance
      /\ ldargs' = Append(ldargs, ifile)
      /\ UNCHANGED <<options, ofile, pc, pass, child, ntmp, temps, files, eval>>
  BY DEF ToLinker, MoreInput
<1>2. DInv' /\ child = "none" /\ Passing
  BY <1>1, ToLinkerStep DEF OInv, DInv, OneChild, Passing, Running
<1>3. /\ suffix \in Route(inputs[i]) /\ mode \in Mode
      /\ inputs[i] \in Suffix
      /\ files[ifile] = i
      /\ IF Assembled THEN ifile = UserFile("as") ELSE Private(ifile)
  BY <1>1, <1>2 DEF OInv, OnRoute, Options, Input, DInv, Types
<1>4. Asked(i)
  <2>1. CASE mode = "E"
    BY <1>1, <1>3, <2>1 DEF Asked, Route, Eflag
  <2>2. CASE mode \in {"c", "S"}
    <3>1. inputs[i] # "o" => files[UserFile("as")] = i
      BY <1>1, <1>3, <2>2 DEF Assembled, cflag
    <3>2. UserFile("as") = IF outfile THEN Out ELSE Obj(i)
      BY DEF UserFile
    <3>3. mode = "S" => inputs[i] \notin {"c", "i"}
      BY <1>1, <1>3 DEF Route, Sflag, Eflag
    <3>4. QED
      BY <2>2, <3>1, <3>2, <3>3 DEF Asked
  <2>3. CASE mode = "link"
    BY <2>3 DEF Asked
  <2>4. QED
    BY <1>3, <2>1, <2>2, <2>3 DEF Mode
<1>5. \A m : m = i => Asked(m)'
  <2>1. UNCHANGED <<inputs, mode, outfile, files, pc, ofile>>
    BY <1>1 DEF options
  <2>2. ~ Busy
    BY <1>1 DEF Busy
  <2>3. QED
    BY <1>4, <2>1, <2>2 DEF Asked
<1>6. mode = "link" => Private(ifile)
  BY <1>3 DEF Assembled, cflag
<1>7. QED
  BY <1>1, <1>2, <1>5, <1>6, AdvanceKeeps

LEMMA NoMoreInputKeeps ==
  ASSUME OInv, NoMoreInput
  PROVE  OInv'
<1>1. /\ pc = "next" /\ i = Len(inputs) + 1 /\ child = "none" /\ mode \in Mode
      /\ Len(inputs) \in Nat /\ Len(inputs) <= MaxInputs
  BY DEF NoMoreInput, OInv, DInv, Types, OneChild, Options
<1>2. CASE cflag \/ Eflag
  <2>1. dexit(0) /\ UNCHANGED child /\ mode # "link"
    BY <1>2 DEF NoMoreInput, cflag, Eflag
  <2>2. ASSUME NEW k \in 1 .. Len(inputs)
        PROVE  /\ Asked(k)
               /\ files'[Out] = files[Out] /\ files'[Stdout] = files[Stdout]
               /\ files'[Asm(k)] = files[Asm(k)] /\ files'[Obj(k)] = files[Obj(k)]
    <3>1. k \in 1 .. MaxInputs /\ k \in 1 .. i - 1
      BY <1>1, DriverAssumption
    <3>2. /\ Out \in File /\ Stdout \in File /\ Asm(k) \in File /\ Obj(k) \in File
          /\ Out[1] # "tmp" /\ Stdout[1] # "tmp" /\ Asm(k)[1] # "tmp" /\ Obj(k)[1] # "tmp"
      BY <3>1 DEF Out, Stdout, Asm, Obj, File
    <3>3. Asked(k)
      BY <1>1, <3>1 DEF OInv, Delivered, Running
    <3>4. QED
      BY <2>1, <3>2, <3>3, DexitLeaves
  <2>3. UNCHANGED <<inputs, mode, outfile>>
    BY <2>1 DEF dexit, options
  <2>4. HonestExit'
    BY <1>1, <2>1, <2>2, <2>3 DEF HonestExit, Asked, Busy
  <2>5. QED
    BY <1>1, <2>1, <2>4, DexitKeeps, NoMoreInputStep DEF OInv
<1>3. CASE ~ (cflag \/ Eflag)
  <2>1. /\ pass' = "ld" /\ ofile' = Out /\ pc' = "fork"
        /\ UNCHANGED <<options, i, suffix, ifile, child, ntmp, temps, ldargs, files, eval>>
    BY <1>3 DEF NoMoreInput
  <2>2. mode = "link" /\ DInv /\ DInv'
    BY <1>1, <1>3, NoMoreInputStep DEF cflag, Eflag, Mode, OInv
  <2>3. Options' /\ OnRoute' /\ Output' /\ Sources' /\ Input' /\ Written' /\ HonestExit'
    BY <1>1, <2>1, <2>2 DEF OInv, Options, OnRoute, Passing, Output, Sources, Input, Written,
                            HonestExit, Running, options
  <2>4. Objects'
    <3>1. /\ ldargs \in Seq(File) /\ Len(ldargs) = i - 1
          /\ \A k \in 1 .. i - 1 : Private(ldargs[k]) /\ files[ldargs[k]] = k
      BY <1>1, <2>2 DEF OInv, Objects, Running
    <3>2. \A f : Private(f) => Private(f)' /\ f # ofile'
      BY <2>1, <2>2, PrivateIsFile DEF Private, options
    <3>3. QED
      BY <2>1, <3>1, <3>2 DEF Objects, Safe
  <2>5. Delivered'
    BY <2>1, <2>2 DEF Delivered, Asked, options
  <2>6. QED
    BY <2>2, <2>3, <2>4, <2>5 DEF OInv
<1>4. QED
  BY <1>2, <1>3

LEMMA forkKeeps ==
  ASSUME OInv, fork
  PROVE  OInv'
<1>1. pc = "fork" /\ child = "none" /\ DInv'
  BY forkStep DEF fork, OInv, DInv, OneChild
<1>2. CASE dexit(1) /\ UNCHANGED child
  BY <1>1, <1>2, DexitKeeps
<1>3. CASE ~ (dexit(1) /\ UNCHANGED child)
  <2>1. /\ child' = "started" /\ pc' = "wait"
        /\ UNCHANGED <<options, i, suffix, ifile, ofile, pass, ntmp, temps, ldargs, files, eval>>
    BY <1>3 DEF fork
  <2>2. Options' /\ OnRoute' /\ Sources' /\ Written' /\ HonestExit' /\ Delivered'
    BY <1>1, <2>1 DEF OInv, Options, OnRoute, Passing, Route, Sources, Written, HonestExit,
                      Delivered, Asked, Busy, Running, options, Eflag, Sflag
  <2>3. Output'
    BY <1>1, <2>1 DEF OInv, Output, Busy, UserFile, LastPass, Asm, Obj, options, Eflag, Sflag,
                      cflag
  <2>4. Input' /\ Objects'
    BY <1>1, <2>1 DEF OInv, Input, Objects, Passing, Assembled, UserFile, Private, Safe, Busy,
                      Running, options, cflag
  <2>5. QED
    BY <1>1, <2>2, <2>3, <2>4 DEF OInv
<1>4. QED
  BY <1>2, <1>3

-----------------------------------------------------------------------------
(* A pass that runs spoils nothing but its output, and that holds what it  *)
(* should when the pass is done.                                           *)
LEMMA ChildMakes ==
  ASSUME OInv, pc = "wait"
  PROVE  /\ ofile \in File
         /\ pass = "ld" => Product = Linked
         /\ pass # "ld" => Product = i
         /\ Product # None
<1>1. /\ i \in 1 .. Len(inputs) + 1 /\ Len(inputs) \in Nat /\ Len(inputs) <= MaxInputs
      /\ MaxInputs \in Nat /\ ntmp \in Nat /\ DInv
      /\ pass \in {"cpp", "cc", "as", "ld"}
      /\ pass # "ld" => i <= Len(inputs)
  BY DriverAssumption DEF OInv, DInv, Types, FewTemps
<1>2. CASE pass = "ld"
  <2>1. mode = "link" /\ i = Len(inputs) + 1 /\ ofile = Out
    BY <1>2 DEF OInv, Output, Busy
  <2>2. Len(ldargs) = Len(inputs) /\ \A k \in 1 .. Len(inputs) : files[ldargs[k]] = k
    BY <1>1, <2>1 DEF OInv, Objects, Running
  <2>3. [k \in 1 .. Len(ldargs) |-> files[ldargs[k]]] = [k \in 1 .. Len(inputs) |-> k]
    BY <2>2
  <2>4. Product = Linked
    BY <1>2, <2>3 DEF Product
  <2>5. QED
    BY <1>1, <1>2, <2>1, <2>4 DEF Linked, None, File
<1>3. CASE pass # "ld"
  <2>1. Product = i
    BY <1>1, <1>3 DEF Product, OInv, Input, Passing, Running
  <2>2. ofile \in File
    <3>1. CASE LastPass(pass)
      <4>1. ofile = UserFile(pass) /\ i \in 1 .. MaxInputs
        BY <1>1, <1>3, <3>1 DEF OInv, Output, Busy
      <4>2. QED
        BY <1>1, <1>3, <4>1 DEF UserFile, Out, Stdout, Asm, Obj, File
    <3>2. CASE ~ LastPass(pass)
      <4>1. ofile = Tmp(ntmp) /\ ntmp \in 1 .. ntmp
        BY <1>1, <1>3, <3>2 DEF OInv, Output, Busy
      <4>2. QED
        BY <1>1, <4>1, TmpIsFile
    <3>3. QED
      BY <3>1, <3>2
  <2>3. QED
    BY <1>1, <1>3, <2>1, <2>2 DEF None
<1>4. QED
  BY <1>2, <1>3

(* What has been delivered is not where another pass writes.               *)
LEMMA DeliveredIsLeft ==
  ASSUME OInv, pc = "wait", NEW k \in 1 .. i - 1, Asked(k),
         UNCHANGED <<inputs, mode, outfile, pc, ofile>>,
         \A f \in File : f # ofile => files'[f] = files[f]
  PROVE  Asked(k)'
<1>1. /\ i \in 1 .. Len(inputs) + 1 /\ Len(inputs) \in Nat /\ Len(inputs) <= MaxInputs
      /\ MaxInputs \in Nat /\ ntmp \in Nat
      /\ pass \in {"cpp", "cc", "as", "ld"}
      /\ pass # "ld" => i <= Len(inputs)
      /\ k \in 1 .. MaxInputs /\ k # i /\ k < i
      /\ Busy /\ Busy'
  BY DriverAssumption DEF OInv, DInv, Types, FewTemps, Busy
<1>2. Out \in File /\ Stdout \in File /\ Asm(k) \in File /\ Obj(k) \in File
  BY <1>1 DEF Out, Stdout, Asm, Obj, File
<1>3. CASE mode = "link"
  BY <1>3 DEF Asked
<1>4. CASE mode # "link"
  <2>1. pass # "ld" /\ (LastPass(pass) => ofile = UserFile(pass))
        /\ (~ LastPass(pass) => ofile = Tmp(ntmp))
    BY <1>1, <1>4 DEF OInv, Output
  <2>2. ~ outfile
    <3>1. i <= Len(inputs)
      BY <1>1, <2>1
    <3>2. i \in Int /\ k \in Int /\ 1 <= k /\ k < i /\ Len(inputs) \in Int
      BY <1>1
    <3>3. Len(inputs) # 1
      <4>1. \A a, b, n \in Int : 1 <= a /\ a < b /\ b <= n => n # 1
        OBVIOUS
      <4>2. QED
        BY <3>1, <3>2, <4>1
    <3>4. QED
      BY <1>4, <3>3 DEF OInv, Options
  <2>3. CASE ~ LastPass(pass)
    <3>1. ofile \notin {Out, Stdout, Asm(k), Obj(k)}
      BY <2>1, <2>3 DEF Tmp, Out, Stdout, Asm, Obj
    <3>2. QED
      BY <1>1, <1>2, <2>2, <3>1 DEF Asked
  <2>4. CASE LastPass(pass) /\ pass = "cpp"
    <3>1. mode = "E" /\ ofile = Stdout
      BY <2>1, <2>2, <2>4 DEF LastPass, Eflag, UserFile
    <3>2. QED
      BY <1>1, <2>2, <3>1 DEF Asked
  <2>5. CASE LastPass(pass) /\ pass = "cc"
    <3>1. ofile = Asm(i)
      BY <2>1, <2>2, <2>5 DEF UserFile
    <3>2. ofile \notin {Stdout, Asm(k), Obj(k)}
      BY <1>1, <3>1 DEF Stdout, Asm, Obj
    <3>3. QED
      BY <1>1, <1>2, <2>2, <3>2 DEF Asked
  <2>6. CASE LastPass(pass) /\ pass = "as"
    <3>1. ofile = Obj(i)
      BY <2>1, <2>2, <2>6 DEF UserFile
    <3>2. ofile \notin {Stdout, Asm(k), Obj(k)}
      BY <1>1, <3>1 DEF Stdout, Asm, Obj
    <3>3. QED
      BY <1>1, <1>2, <2>2, <3>2 DEF Asked
  <2>7. QED
    BY <1>1, <2>1, <2>3, <2>4, <2>5, <2>6
<1>5. QED
  BY <1>3, <1>4

LEMMA ChildKeeps ==
  ASSUME OInv, ~ Killed, Child
  PROVE  OInv'
<1>1. /\ child \in {"started", "writing"} /\ child' \in {"writing", "done", "failed"}
      /\ UNCHANGED <<options, i, suffix, ifile, ofile, pc, pass, ntmp, temps, ldargs, eval>>
      /\ \A f \in File : f # ofile => files'[f] = files[f]
      /\ child' = "done" =>
           files' = [files EXCEPT ![ofile] = IF Product = None THEN Bad ELSE Product]
  <2>1. CASE ChildOpen
    BY <2>1 DEF ChildOpen, OInv, DInv, Types
  <2>2. CASE ChildDone
    BY <2>2 DEF ChildDone, OInv, DInv, Types
  <2>3. CASE ChildFails
    BY <2>3 DEF ChildFails, OInv, DInv, Types
  <2>4. QED
    BY <2>1, <2>2, <2>3 DEF Child
<1>2. DInv /\ DInv' /\ DOMAIN files = File
  BY ChildStep DEF OInv, DInv, Types
<1>3. pc = "wait" \/ (pc = "exited" /\ eval = Interrupted)
  BY <1>1 DEF OInv, DInv, Types, OneChild, Running
<1>4. Options' /\ OnRoute' /\ Output'
  BY <1>1 DEF OInv, Options, OnRoute, Passing, Route, Output, Busy, UserFile, LastPass, Asm, Obj,
              Running, options, Eflag, Sflag, cflag
<1>5. CASE pc = "wait"
  <2>1. \A f : Private(f) => Private(f)' /\ f \in File
    BY <1>1, <1>2, PrivateIsFile DEF Private, options
  <2>2. Sources'
    <3>1. ASSUME NEW k \in 1 .. Len(inputs) PROVE files'[Src(k)] = k
      <4>1. Src(k) \in File /\ files[Src(k)] = k
        BY <1>5, <2>1 DEF OInv, Sources, Running, Private
      <4>2. Src(k) # Tmp(ntmp) /\ Src(k) # Out
        BY DEF Src, Out, Tmp
      <4>3. pass # "ld" => Src(k) # UserFile(pass)
        BY <1>2, PrivateIsFile DEF Private, DInv, Types
      <4>4. Src(k) # ofile
        BY <1>5, <4>2, <4>3 DEF OInv, Output, Busy
      <4>5. QED
        BY <1>1, <4>1, <4>4
    <3>2. QED
      BY <1>1, <3>1 DEF Sources, options
  <2>3. Input'
    <3>1. ASSUME Passing
          PROVE  /\ IF Assembled THEN ifile = UserFile("as") ELSE Private(ifile)
                 /\ ifile # ofile /\ files[ifile] = i /\ ~ Assembled
      <4>1. suffix # "o"
        BY <1>5, <3>1 DEF OInv, DInv, FewTemps, Output, Busy, Passing, Types
      <4>2. QED
        BY <1>5, <3>1, <4>1 DEF OInv, Input, Safe, Busy, Assembled
    <3>2. ASSUME Passing PROVE files'[ifile] = i
      BY <1>1, <2>1, <3>1, <3>2
    <3>3. QED
      BY <1>1, <2>1, <3>1, <3>2 DEF Input, Passing, Running, Safe, Assembled, options, cflag
  <2>4. Objects'
    <3>1. ASSUME mode = "link"
          PROVE  /\ ldargs \in Seq(File) /\ Len(ldargs) = i - 1
                 /\ \A k \in 1 .. i - 1 :
                      Private(ldargs[k]) /\ ldargs[k] # ofile /\ files[ldargs[k]] = k
      BY <1>5, <3>1 DEF OInv, Objects, Safe, Busy, Running
    <3>2. QED
      BY <1>1, <2>1, <3>1 DEF Objects, Safe, options
  <2>5. Written'
    BY <1>1, <1>2, <1>5, ChildMakes DEF Written
  <2>6. Delivered'
    <3>1. \A k \in 1 .. i - 1 : Asked(k)
      BY <1>5 DEF OInv, Delivered, Running
    <3>2. ASSUME NEW k \in 1 .. i - 1 PROVE Asked(k)'
      BY <1>1, <1>5, <3>1, DeliveredIsLeft DEF options
    <3>3. QED
      BY <1>1, <3>2 DEF Delivered
  <2>7. HonestExit'
    BY <1>1, <1>5 DEF HonestExit, Running
  <2>8. QED
    BY <1>2, <1>4, <2>2, <2>3, <2>4, <2>5, <2>6, <2>7 DEF OInv
<1>6. CASE pc = "exited" /\ eval = Interrupted
  <2>1. Sources' /\ Input' /\ Objects' /\ Written' /\ Delivered' /\ HonestExit'
    BY <1>1, <1>6 DEF Sources, Input, Passing, Objects, Written, Delivered, HonestExit, Running,
                      Interrupted
  <2>2. QED
    BY <1>2, <1>4, <2>1 DEF OInv
<1>7. QED
  BY <1>3, <1>5, <1>6

LEMMA waitpidKeeps ==
  ASSUME OInv, waitpid
  PROVE  OInv'
<1>1. pc = "wait" /\ child \in {"done", "failed"} /\ DInv /\ DInv'
  BY waitpidStep DEF waitpid, OInv, Options
<1>2. CASE child = "failed"
  BY <1>1, <1>2, DexitKeeps DEF waitpid, OInv, Options
<1>3. CASE child = "done" /\ pass = "ld"
  <2>1. dexit(0) /\ child' = "none" /\ UNCHANGED <<inputs, mode, outfile>>
    BY <1>3 DEF waitpid, PassDone, dexit, options
  <2>2. mode = "link" /\ ofile = Out /\ files[Out] = Linked
    BY <1>1, <1>3 DEF OInv, Output, Busy, Written
  <2>3. files'[Out] = Linked
    <3>1. Out \in File /\ Out[1] # "tmp"
      BY DEF Out, File
    <3>2. QED
      BY <2>1, <2>2, <3>1, DexitLeaves
  <2>4. HonestExit'
    BY <2>1, <2>2, <2>3 DEF HonestExit
  <2>5. QED
    BY <1>1, <2>1, <2>4, DexitKeeps
<1>4. CASE child = "done" /\ pass # "ld"
  <2>1. /\ child' = "none" /\ pc' = "next"
        /\ UNCHANGED <<options, ofile, pass, ntmp, temps, ldargs, files, eval>>
    BY <1>1, <1>4 DEF waitpid, PassDone
  <2>2. /\ i <= Len(inputs) /\ i \in Nat /\ i >= 1 /\ Len(inputs) \in Nat
        /\ Passing /\ Running /\ Busy /\ ~ Busy' /\ Running'
        /\ suffix \in Suffix /\ suffix # "o" /\ pass = NextPass /\ pass \in {"cpp", "cc", "as"}
        /\ inputs[i] \in Suffix /\ suffix \in Route(inputs[i]) /\ mode \in Mode
    BY <1>1, <1>4, <2>1 DEF OInv, DInv, Types, FewTemps, Passing, Running, OnRoute, Options, Busy
  <2>3. files[ofile] = i /\ files[ofile] > Bad
    BY <1>1, <1>4, <2>2 DEF OInv, Written, Bad
  <2>4. IF LastPass(pass) THEN ofile = UserFile(pass) ELSE ntmp \in 1 .. ntmp /\ ofile = Tmp(ntmp)
    BY <1>1, <1>4, <2>2 DEF OInv, Output, DInv, Types
  <2>5. CASE pass # "as" /\ LastPass(pass)
    <3>1. Advance
      BY <1>1, <1>4, <2>5 DEF waitpid, PassDone
    <3>2. ASSUME NEW m, m = i PROVE Asked(m)'
      <4>1. CASE pass = "cpp"
        <5>1. mode = "E" /\ ofile = IF outfile THEN Out ELSE Stdout
          BY <2>4, <2>5, <4>1 DEF LastPass, Eflag, UserFile
        <5>2. QED
          BY <2>1, <2>3, <3>2, <5>1 DEF Asked, options
      <4>2. CASE pass = "cc"
        <5>1. mode = "S" /\ ofile = IF outfile THEN Out ELSE Asm(i)
          BY <2>4, <2>5, <4>2 DEF LastPass, Sflag, UserFile
        <5>2. suffix = "i"
          BY <2>2, <4>2 DEF NextPass, Suffix
        <5>3. inputs[i] \notin {"s", "S"}
          BY <2>2, <5>1, <5>2 DEF Route, Eflag, Sflag
        <5>4. QED
          BY <2>1, <2>3, <3>2, <5>1, <5>3 DEF Asked, options
      <4>3. QED
        BY <2>2, <2>5, <4>1, <4>2
    <3>3. mode # "link"
      BY <2>2, <2>5 DEF LastPass, Eflag, Sflag
    <3>4. QED
      BY <1>1, <2>1, <2>2, <2>3, <3>1, <3>2, <3>3, AdvanceKeeps
  <2>6. CASE ~ (pass # "as" /\ LastPass(pass))
    <3>1. /\ i' = i /\ ifile' = ofile
          /\ suffix' = CASE pass = "cpp" -> IF suffix = "S" THEN "s" ELSE "i"
                         [] pass = "cc" -> "s"
                         [] pass = "as" -> "o"
      BY <1>1, <1>4, <2>6 DEF waitpid, PassDone
    <3>2. Options' /\ Output' /\ Sources' /\ Written' /\ HonestExit'
      BY <2>1, <2>2, <3>1 DEF OInv, Options, Output, Sources, Written, HonestExit, options
    <3>3. suffix' \in Route(inputs[i])
      <4>1. CASE pass = "cpp"
        <5>1. suffix \in {"c", "S"} /\ mode # "E"
          BY <2>2, <2>6, <4>1 DEF NextPass, LastPass, Eflag, Suffix
        <5>2. suffix' = IF suffix = "S" THEN "s" ELSE "i"
          BY <3>1, <4>1
        <5>3. QED
          BY <2>2, <5>1, <5>2 DEF Route, Eflag, Sflag, Suffix
      <4>2. CASE pass = "cc"
        <5>1. suffix = "i" /\ mode # "S" /\ suffix' = "s"
          BY <2>2, <2>6, <3>1, <4>2 DEF NextPass, LastPass, Sflag, Suffix
        <5>2. QED
          BY <2>2, <5>1 DEF Route, Eflag, Sflag, Suffix
      <4>3. CASE pass = "as"
        <5>1. suffix = "s" /\ suffix' = "o"
          BY <2>2, <3>1, <4>3 DEF NextPass, Suffix
        <5>2. QED
          BY <2>2, <5>1 DEF Route, Eflag, Sflag, Suffix
      <4>4. QED
        BY <2>2, <4>1, <4>2, <4>3
    <3>4. OnRoute'
      BY <2>1, <3>1, <3>3 DEF OnRoute, Route, options, Eflag, Sflag
    <3>5. IF Assembled' THEN ofile = UserFile("as") ELSE Private(ofile)
      <4>1. CASE pass = "as"
        <5>1. suffix = "s" /\ suffix' = "o"
          BY <2>2, <3>1, <4>1 DEF NextPass, Suffix
        <5>2. inputs[i] # "o"
          BY <2>2, <5>1 DEF Route
        <5>3. Assembled' <=> LastPass("as")
          BY <2>1, <3>1, <5>1, <5>2 DEF Assembled, LastPass, cflag, options
        <5>4. QED
          BY <2>4, <4>1, <5>3 DEF Private
      <4>2. CASE pass # "as"
        <5>1. suffix' # "o" /\ ~ LastPass(pass)
          BY <2>2, <2>6, <3>1, <4>2
        <5>2. QED
          BY <2>4, <5>1 DEF Assembled, Private
      <4>3. QED
        BY <4>1, <4>2
    <3>6. Input'
      <4>1. UserFile("as")' = UserFile("as") /\ (Private(ofile) => Private(ifile)')
        BY <2>1, <3>1 DEF UserFile, Obj, Private, options
      <4>2. IF Assembled' THEN ifile' = UserFile("as")' ELSE Private(ifile)'
        BY <3>1, <3>5, <4>1
      <4>3. QED
        BY <2>1, <2>2, <2>3, <3>1, <4>2 DEF Input, Safe
    <3>7. Objects'
      <4>1. \A f : Private(f) => Private(f)'
        BY <2>1 DEF Private, options
      <4>2. QED
        BY <2>1, <2>2, <3>1, <4>1 DEF OInv, Objects, Safe, options
    <3>8. Delivered'
      <4>1. \A k \in 1 .. i - 1 : Asked(k)
        BY <2>2 DEF OInv, Delivered
      <4>2. \A k \in 1 .. i - 1 : Asked(k)'
        BY <2>1, <2>3, <4>1 DEF Asked, options
      <4>3. QED
        BY <3>1, <4>2 DEF Delivered
    <3>9. QED
      BY <1>1, <3>2, <3>4, <3>6, <3>7, <3>8 DEF OInv
  <2>7. QED
    BY <2>5, <2>6
<1>5. QED
  BY <1>1, <1>2, <1>3, <1>4

LEMMA idexitKeeps ==
  ASSUME OInv, idexit
  PROVE  OInv'
<1>1. DInv' /\ child' # "killed"
  BY idexitStep DEF idexit, OInv, Options
<1>2. QED
  BY <1>1, DexitKeeps DEF idexit, Interrupted

LEMMA StutterKeeps ==
  ASSUME OInv, UNCHANGED vars
  PROVE  OInv'
<1>1. DInv'
  BY StutterStep DEF OInv
<1>2. UNCHANGED <<inputs, mode, Xflag, outfile, i, suffix, ifile, ofile, pc, pass, child, ntmp,
                  temps, ldargs, files, eval>>
  BY DEF vars
<1>3. Options' /\ OnRoute' /\ Sources' /\ Written' /\ HonestExit' /\ Delivered'
  BY <1>2 DEF OInv, Options, OnRoute, Passing, Route, Sources, Written, HonestExit,
              Delivered, Asked, Busy, Running, Eflag, Sflag
<1>4. Output' /\ Input' /\ Objects'
  BY <1>2 DEF OInv, Output, Input, Objects, Passing, Assembled, UserFile, LastPass, Private,
              Safe, Busy, Running, Asm, Obj, Eflag, Sflag, cflag
<1>5. QED
  BY <1>1, <1>3, <1>4 DEF OInv

LEMMA NextKeeps ==
  ASSUME OInv, ~ Killed, [Next]_vars
  PROVE  OInv'
  BY ToUserKeeps, gettmpKeeps, strlist_appendKeeps, ToLinkerKeeps, NoMoreInputKeeps,
     forkKeeps, ChildKeeps, waitpidKeeps, idexitKeeps, StutterKeeps
     DEF Next, main, Finished

(* However many inputs there are, when the driver exits with status 0 all  *)
(* it was asked for was made, and from the right input.                    *)
THEOREM ExitIsHonest ==
  ASSUME ~ Killed
  PROVE  Spec => []HonestExit
<1>1. OInv => HonestExit
  BY DEF OInv
<1>2. QED
  BY <1>1, InitOInv, NextKeeps, PTL DEF Spec

(* And no pass reads a file that another one has not finished.             *)
THEOREM ReadsFinished ==
  ASSUME ~ Killed
  PROVE  Spec => []InputsComplete
<1>1. OInv => InputsComplete
  <2>1. ASSUME OInv, pc = "wait", pass = "ld", NEW k \in 1 .. Len(ldargs)
        PROVE  files[ldargs[k]] > Bad
    <3>1. mode = "link" /\ i \in Nat
      BY <2>1 DEF OInv, Output, Busy, DInv, Types
    <3>2. Len(ldargs) = i - 1 /\ files[ldargs[k]] = k
      BY <2>1, <3>1 DEF OInv, Objects, Running
    <3>3. QED
      BY <3>1, <3>2 DEF Bad
  <2>2. ASSUME OInv, pc = "wait", pass # "ld" PROVE files[ifile] > Bad
    <3>1. i \in Nat /\ i >= 1 /\ files[ifile] = i
      BY <2>2 DEF OInv, Input, Passing, Running, DInv, Types, FewTemps
    <3>2. QED
      BY <3>1 DEF Bad
  <2>3. QED
    BY <2>1, <2>2 DEF InputsComplete
<1>2. QED
  BY <1>1, InitOInv, NextKeeps, PTL DEF Spec
=============================================================================
