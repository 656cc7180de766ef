---------------------------- MODULE InlineProofs ----------------------------
(***************************************************************************)
(* For any number of functions, declarations and calls: no function is     *)
(* written twice, if no extern inline function is defined again; and       *)
(* nothing that was written needs a function that is not, if no function   *)
(* is first declared without the word inline and then with it.             *)
(*                                                                         *)
(* A function is written in two places, by inline_prtout and when it is    *)
(* compiled as it is read.  The mark WRITTEN keeps them apart: a function  *)
(* that was written has it, unless nothing is saved of it, and then        *)
(* inline_prtout passes it by.  Each of its rounds but the last writes a   *)
(* function that was not written before.                                   *)
(***************************************************************************)
EXTENDS Inline, WellFoundedInduction, TLAPS

-----------------------------------------------------------------------------
(* A set of natural numbers has a least element.                           *)
LEMMA LeastNat ==
  ASSUME NEW S, S \subseteq Nat, S # {}
  PROVE  \E n \in S : \A m \in S : n <= m
<1>1. PICK n \in S : \A m \in S : <<m, n>> \notin OpToRel(<, Nat)
  BY WFMin, NatLessThanWellFounded
<1>2. \A m \in S : ~(m < n)
  BY <1>1 DEF OpToRel
<1>3. QED
  BY <1>2

(* Induction: what holds of 0 and, with a number, of the next, holds.  The *)
(* library's theorems have a predicate as parameter, which no prover here  *)
(* can instantiate; a set says the same.                                   *)
LEMMA SetInduction ==
  ASSUME NEW S, 0 \in S, \A n \in Nat : n \in S => n + 1 \in S
  PROVE  Nat \subseteq S
<1>1. SUFFICES ASSUME Nat \ S # {} PROVE FALSE
  OBVIOUS
<1>2. PICK n \in Nat \ S : \A m \in Nat \ S : n <= m
  BY <1>1, LeastNat
<1>3. n # 0 /\ n - 1 \in Nat /\ n - 1 \in S
  BY <1>2
<1>4. QED
  BY <1>2, <1>3

(* MapThenFoldSet of a fold takes its largest index first.                 *)
LEMMA MaxOfInitial ==
  ASSUME NEW k \in Nat, NEW s \in SUBSET (1 .. k + 1), k + 1 \in s
  PROVE  Max(s) = k + 1
<1>1. \A y \in s : k + 1 >= y
  OBVIOUS
<1>2. \A x \in s : (\A y \in s : x >= y) => x = k + 1
  OBVIOUS
<1>3. QED
  BY <1>1, <1>2 DEF Max

LEMMA Initial ==
  ASSUME NEW n \in Nat, NEW k \in Nat, k + 1 <= n
  PROVE  /\ 1 .. k + 1 \in SUBSET (1 .. n) /\ 1 .. k + 1 # {}
         /\ Max(1 .. k + 1) = k + 1 /\ (1 .. k + 1) \ {k + 1} = 1 .. k
<1>1. Max(1 .. k + 1) = k + 1
  BY MaxOfInitial
<1>2. QED
  BY <1>1

LEMMA MaxIsIn ==
  ASSUME NEW n \in Nat, NEW s \in SUBSET (1 .. n), s # {}
  PROVE  Max(s) \in s /\ Max(s) \in 1 .. n /\ \A y \in s : Max(s) >= y
<1> DEFINE D == {n - y : y \in s}
<1>1. D \subseteq Nat /\ D # {}
  <2>1. \A y \in s : y \in 1 .. n /\ n - y \in Nat
    OBVIOUS
  <2>2. \E y \in s : n - y \in D
    OBVIOUS
  <2>3. QED
    BY <2>1, <2>2
<1>2. PICK d \in D : \A e \in D : d <= e
  BY <1>1, LeastNat
<1>3. PICK x \in s : d = n - x
  OBVIOUS
<1>4. \A y \in s : x >= y
  <2> TAKE y \in s
  <2>1. n - y \in D /\ y \in 1 .. n /\ x \in 1 .. n
    OBVIOUS
  <2>2. n - x <= n - y
    BY <1>2, <1>3, <2>1
  <2>3. QED
    BY <2>1, <2>2
<1>5. QED
  BY <1>4 DEF Max

(* The elements of a sequence with one more, of two, and of the rest of    *)
(* one.                                                                    *)
LEMMA ToSetAppend ==
  ASSUME NEW A, NEW s \in Seq(A), NEW g \in A
  PROVE  ToSet(Append(s, g)) = ToSet(s) \cup {g}
<1> DEFINE t == Append(s, g)
<1>1. /\ DOMAIN t = 1 .. Len(s) + 1 /\ t[Len(s) + 1] = g
      /\ DOMAIN s = 1 .. Len(s) /\ Len(s) \in Nat
      /\ \A i \in 1 .. Len(s) : t[i] = s[i]
  OBVIOUS
<1> HIDE DEF t
<1>2. ASSUME NEW x \in ToSet(t) PROVE x \in ToSet(s) \cup {g}
  BY <1>1 DEF ToSet
<1>3. ASSUME NEW x \in ToSet(s) PROVE x \in ToSet(t)
  <2>1. PICK i \in 1 .. Len(s) : x = s[i]
    BY <1>1 DEF ToSet
  <2>2. x = t[i] /\ i \in DOMAIN t
    BY <1>1, <2>1
  <2>3. QED
    BY <2>2 DEF ToSet
<1>4. g \in ToSet(t)
  <2>1. Len(s) + 1 \in DOMAIN t
    BY <1>1
  <2>2. QED
    BY <1>1, <2>1 DEF ToSet
<1>5. ToSet(t) = ToSet(s) \cup {g}
  BY <1>2, <1>3, <1>4
<1>6. QED
  BY <1>5 DEF t

LEMMA ToSetCons ==
  ASSUME NEW A, NEW s \in Seq(A), NEW g \in A
  PROVE  ToSet(<<g>> \o s) = ToSet(s) \cup {g}
<1> DEFINE t == <<g>> \o s
<1>1. /\ DOMAIN t = 1 .. Len(s) + 1 /\ t[1] = g
      /\ DOMAIN s = 1 .. Len(s) /\ Len(s) \in Nat
      /\ \A i \in 1 .. Len(s) : t[i + 1] = s[i]
  OBVIOUS
<1> HIDE DEF t
<1>2. ASSUME NEW x \in ToSet(t) PROVE x \in ToSet(s) \cup {g}
  <2>1. PICK i \in 1 .. Len(s) + 1 : x = t[i]
    BY <1>1 DEF ToSet
  <2>2. CASE i = 1
    BY <1>1, <2>1, <2>2
  <2>3. CASE i # 1
    <3>1. i - 1 \in 1 .. Len(s) /\ (i - 1) + 1 = i
      BY <1>1, <2>3
    <3>2. x = s[i - 1]
      BY <1>1, <2>1, <3>1
    <3>3. QED
      BY <1>1, <3>1, <3>2 DEF ToSet
  <2>4. QED
    BY <2>2, <2>3
<1>3. ASSUME NEW x \in ToSet(s) PROVE x \in ToSet(t)
  <2>1. PICK i \in 1 .. Len(s) : x = s[i]
    BY <1>1 DEF ToSet
  <2>2. x = t[i + 1] /\ i + 1 \in DOMAIN t
    BY <1>1, <2>1
  <2>3. QED
    BY <2>2 DEF ToSet
<1>4. g \in ToSet(t)
  <2>1. 1 \in DOMAIN t
    BY <1>1
  <2>2. QED
    BY <1>1, <2>1 DEF ToSet
<1>5. ToSet(t) = ToSet(s) \cup {g}
  BY <1>2, <1>3, <1>4
<1>6. QED
  BY <1>5 DEF t

LEMMA ToSetConcat ==
  ASSUME NEW A, NEW s \in Seq(A), NEW t \in Seq(A)
  PROVE  ToSet(s \o t) = ToSet(s) \cup ToSet(t)
<1> DEFINE u == s \o t
<1>1. /\ DOMAIN u = 1 .. Len(s) + Len(t)
      /\ DOMAIN s = 1 .. Len(s) /\ Len(s) \in Nat
      /\ DOMAIN t = 1 .. Len(t) /\ Len(t) \in Nat
      /\ \A i \in 1 .. Len(s) : u[i] = s[i]
      /\ \A i \in 1 .. Len(t) : u[i + Len(s)] = t[i]
  OBVIOUS
<1> HIDE DEF u
<1>2. ASSUME NEW x \in ToSet(u) PROVE x \in ToSet(s) \cup ToSet(t)
  <2>1. PICK i \in 1 .. Len(s) + Len(t) : x = u[i]
    BY <1>1 DEF ToSet
  <2>2. CASE i <= Len(s)
    BY <1>1, <2>1, <2>2 DEF ToSet
  <2>3. CASE ~ (i <= Len(s))
    <3>1. i - Len(s) \in 1 .. Len(t) /\ (i - Len(s)) + Len(s) = i
      BY <1>1, <2>3
    <3>2. x = t[i - Len(s)]
      BY <1>1, <2>1, <3>1
    <3>3. QED
      BY <1>1, <3>1, <3>2 DEF ToSet
  <2>4. QED
    BY <2>2, <2>3
<1>3. ASSUME NEW x \in ToSet(s) PROVE x \in ToSet(u)
  <2>1. PICK i \in 1 .. Len(s) : x = s[i]
    BY <1>1 DEF ToSet
  <2>2. x = u[i] /\ i \in DOMAIN u
    BY <1>1, <2>1
  <2>3. QED
    BY <2>2 DEF ToSet
<1>4. ASSUME NEW x \in ToSet(t) PROVE x \in ToSet(u)
  <2>1. PICK i \in 1 .. Len(t) : x = t[i]
    BY <1>1 DEF ToSet
  <2>2. x = u[i + Len(s)] /\ i + Len(s) \in DOMAIN u
    BY <1>1, <2>1
  <2>3. QED
    BY <2>2 DEF ToSet
<1>5. ToSet(u) = ToSet(s) \cup ToSet(t)
  BY <1>2, <1>3, <1>4
<1>6. QED
  BY <1>5 DEF u

LEMMA InjectiveCons ==
  ASSUME NEW A, NEW s \in Seq(A), IsInjective(s), NEW g \in A, g \notin ToSet(s)
  PROVE  IsInjective(<<g>> \o s)
<1> DEFINE t == <<g>> \o s
<1>1. /\ DOMAIN t = 1 .. Len(s) + 1 /\ t[1] = g
      /\ DOMAIN s = 1 .. Len(s) /\ Len(s) \in Nat
      /\ \A i \in 1 .. Len(s) : t[i + 1] = s[i]
  OBVIOUS
<1> HIDE DEF t
<1>2. \A i \in DOMAIN t : i # 1 => i - 1 \in DOMAIN s /\ t[i] = s[i - 1] /\ i = (i - 1) + 1
  BY <1>1
<1>3. \A i \in DOMAIN s : s[i] # g
  BY DEF ToSet
<1>4. \A i, j \in DOMAIN s : s[i] = s[j] => i = j
  BY DEF IsInjective
<1>5. ASSUME NEW i \in DOMAIN t, NEW j \in DOMAIN t, t[i] = t[j] PROVE i = j
  <2>1. CASE i = 1
    BY <1>1, <1>2, <1>3, <1>5, <2>1
  <2>2. CASE j = 1
    BY <1>1, <1>2, <1>3, <1>5, <2>2
  <2>3. CASE i # 1 /\ j # 1
    BY <1>2, <1>4, <1>5, <2>3
  <2>4. QED
    BY <2>1, <2>2, <2>3
<1>6. IsInjective(t)
  BY <1>5 DEF IsInjective
<1>7. QED
  BY <1>6 DEF t

LEMMA ToSetTail ==
  ASSUME NEW A, NEW s \in Seq(A), s # <<>>
  PROVE  /\ Head(s) \in ToSet(s) /\ ToSet(s) \subseteq A
         /\ ToSet(s) = {Head(s)} \cup ToSet(Tail(s))
<1> DEFINE t == Tail(s)
<1>1. /\ DOMAIN s = 1 .. Len(s) /\ Len(s) \in Nat /\ Len(s) >= 1
      /\ DOMAIN t = 1 .. Len(s) - 1
      /\ \A i \in 1 .. Len(s) - 1 : t[i] = s[i + 1]
      /\ Head(s) = s[1]
  OBVIOUS
<1> HIDE DEF t
<1>2. ToSet(s) \subseteq A
  BY DEF ToSet
<1>3. Head(s) \in ToSet(s)
  <2>1. 1 \in DOMAIN s
    BY <1>1
  <2>2. QED
    BY <1>1, <2>1 DEF ToSet
<1>4. ASSUME NEW x \in ToSet(t) PROVE x \in ToSet(s)
  <2>1. PICK i \in 1 .. Len(s) - 1 : x = t[i]
    BY <1>1 DEF ToSet
  <2>2. x = s[i + 1] /\ i + 1 \in DOMAIN s
    BY <1>1, <2>1
  <2>3. QED
    BY <2>2 DEF ToSet
<1>5. ASSUME NEW x \in ToSet(s), x # Head(s) PROVE x \in ToSet(t)
  <2>1. PICK i \in 1 .. Len(s) : x = s[i]
    BY <1>1 DEF ToSet
  <2>2. i - 1 \in 1 .. Len(s) - 1 /\ (i - 1) + 1 = i
    BY <1>1, <1>5, <2>1
  <2>3. x = t[i - 1] /\ i - 1 \in DOMAIN t
    BY <1>1, <2>1, <2>2
  <2>4. QED
    BY <2>3 DEF ToSet
<1>6. ToSet(s) = {Head(s)} \cup ToSet(t)
  BY <1>3, <1>4, <1>5
<1>7. QED
  BY <1>2, <1>3, <1>6 DEF t

(* The function FoldLeft is defined with exists, for any step G.           *)
Folded(h, T, base, G, n) ==
  /\ h \in [SUBSET (1 .. n) -> T]
  /\ h[{}] = base
  /\ \A s \in SUBSET (1 .. n) : s # {} => h[s] = G[<<Max(s), h[s \ {Max(s)}]>>]

(* The recursion has a solution.                                           *)
LEMMA FoldExists ==
  ASSUME NEW T, NEW base \in T, NEW N \in Nat, NEW G \in [(1 .. N) \X T -> T]
  PROVE  \E h : Folded(h, T, base, G, N)
<1> DEFINE S == {n \in Nat : n <= N => \E h : Folded(h, T, base, G, n)}
<1>1. 0 \in S
  <2>1. SUBSET (1 .. 0) = {{}}
    OBVIOUS
  <2>2. Folded([s \in SUBSET (1 .. 0) |-> base], T, base, G, 0)
    BY <2>1 DEF Folded
  <2>3. QED
    BY <2>2
<1>2. ASSUME NEW n \in Nat, n \in S PROVE n + 1 \in S
  <2>1. SUFFICES ASSUME n + 1 <= N PROVE \E h : Folded(h, T, base, G, n + 1)
    OBVIOUS
  <2>2. n + 1 \in 1 .. N
    BY <2>1
  <2>3. PICK h : Folded(h, T, base, G, n)
    BY <1>2, <2>2
  <2> DEFINE k == n + 1
             g == [s \in SUBSET (1 .. k) |-> IF k \in s THEN G[<<k, h[s \ {k}]>>] ELSE h[s]]
  <2>4. \A s \in SUBSET (1 .. k) : /\ s \ {k} \in SUBSET (1 .. n)
                                   /\ k \notin s => s \in SUBSET (1 .. n)
                                   /\ k \in s => Max(s) = k
    BY MaxOfInitial
  <2>5. \A s \in SUBSET (1 .. n) : h[s] \in T /\ s \in SUBSET (1 .. k) /\ k \notin s
    BY <2>3 DEF Folded
  <2> HIDE DEF k
  <2>6. \A s \in SUBSET (1 .. k) : h[s \ {k}] \in T
    BY <2>4, <2>5
  <2>7. \A s \in SUBSET (1 .. k) : G[<<k, h[s \ {k}]>>] \in T
    BY <2>2, <2>6 DEF k
  <2>8. g \in [SUBSET (1 .. k) -> T]
    BY <2>4, <2>5, <2>7
  <2>9. \A s \in SUBSET (1 .. n) : g[s] = h[s]
    BY <2>5
  <2>10. g[{}] = base
    <3>1. {} \in SUBSET (1 .. n)
      OBVIOUS
    <3>2. QED
      BY <2>3, <2>9, <3>1 DEF Folded
  <2>11. ASSUME NEW s \in SUBSET (1 .. k), s # {}
         PROVE  g[s] = G[<<Max(s), g[s \ {Max(s)}]>>]
    <3>1. CASE k \in s
      BY <2>4, <2>9, <3>1
    <3>2. CASE k \notin s
      <4>1. s \in SUBSET (1 .. n) /\ s \ {Max(s)} \in SUBSET (1 .. n)
        BY <2>4, <3>2
      <4>2. QED
        BY <2>3, <2>9, <2>11, <4>1 DEF Folded
    <3>3. QED
      BY <3>1, <3>2
  <2> HIDE DEF g
  <2>12. Folded(g, T, base, G, k)
    BY <2>8, <2>10, <2>11 DEF Folded
  <2>13. QED
    BY <2>12 DEF k
<1> HIDE DEF S
<1>3. N \in S
  BY <1>1, <1>2, SetInduction
<1>4. QED
  BY <1>3 DEF S

-----------------------------------------------------------------------------

-----------------------------------------------------------------------------
(* The inductive invariant.  What is saved of a function that was written  *)
(* is marked, ...                                                          *)
Marked == \A f \in Fun : written[f] > 0 /\ ~ DLIST_ISEMPTY(f) => "WRITTEN" \in flags[f]

(* ... and the function that is being saved already has a body, so that    *)
(* no step adds to the body of one that was written without one.           *)
Saving == isinlining => body[cifun].there

Types ==
  /\ written \in [Fun -> Nat]
  /\ DOMAIN flags = Fun
  /\ DOMAIN body = Fun
  /\ \A f \in Fun : "there" \in DOMAIN body[f] /\ "refs" \in DOMAIN body[f]
  /\ isinlining => cifun \in Fun

IInv == Types /\ WrittenOnce /\ Marked /\ Saving

-----------------------------------------------------------------------------
(* Neither setting REFD nor clearing CANINL touches WRITTEN.               *)
LEMMA MarkKeeps ==
  ASSUME NEW fl, NEW gs, NEW f \in Fun
  PROVE  /\ DOMAIN Mark(fl, gs) = Fun
         /\ "WRITTEN" \in Mark(fl, gs)[f] <=> "WRITTEN" \in fl[f]
  BY DEF Mark

LEMMA ClearKeeps ==
  ASSUME NEW fl, DOMAIN fl = Fun, NEW list, NEW frame, NEW f \in Fun
  PROVE  /\ DOMAIN Clear(fl, list, frame) = Fun
         /\ "WRITTEN" \in Clear(fl, list, frame)[f] <=> "WRITTEN" \in fl[f]
<1>1. CASE frame
  <2>1. Clear(fl, list, frame) = [fl EXCEPT ![list[1]] = @ \ {"CANINL"}]
    BY <1>1 DEF Clear
  <2>2. CASE f = list[1]
    <3>1. Clear(fl, list, frame)[f] = fl[f] \ {"CANINL"}
      BY <2>1, <2>2
    <3>2. QED
      BY <2>1, <3>1
  <2>3. CASE f # list[1]
    BY <2>1, <2>3
  <2>4. QED
    BY <2>2, <2>3
<1>2. CASE ~ frame
  BY <1>2 DEF Clear
<1>3. QED
  BY <1>1, <1>2

(* A step that writes nothing keeps the invariant if it keeps the marks    *)
(* and saves nothing of a function of which nothing is saved.              *)
LEMMA NothingWritten ==
  ASSUME IInv, written' = written,
         DOMAIN flags' = Fun, DOMAIN body' = Fun,
         \A f \in Fun : "WRITTEN" \in flags[f] => "WRITTEN" \in flags'[f],
         \A f \in Fun : "there" \in DOMAIN body'[f] /\ "refs" \in DOMAIN body'[f],
         \A f \in Fun : DLIST_ISEMPTY(f) /\ written[f] > 0 => DLIST_ISEMPTY(f)',
         isinlining' => cifun' \in Fun /\ body'[cifun'].there
  PROVE  IInv'
<1>1. Types'
  BY DEF IInv, Types
<1>2. WrittenOnce'
  BY DEF IInv, WrittenOnce
<1>3. Marked'
  BY DEF IInv, Marked
<1>4. Saving'
  BY DEF Saving
<1>5. QED
  BY <1>1, <1>2, <1>3, <1>4 DEF IInv

(* A step that writes f, of which nothing was written, keeps it if f is    *)
(* marked or nothing is saved of it.                                       *)
LEMMA OneWritten ==
  ASSUME IInv, NEW f \in Fun, written[f] = 0,
         written' = [written EXCEPT ![f] = @ + 1],
         UNCHANGED <<body, isinlining, cifun>>,
         DOMAIN flags' = Fun,
         \A g \in Fun : "WRITTEN" \in flags[g] => "WRITTEN" \in flags'[g],
         DLIST_ISEMPTY(f) \/ "WRITTEN" \in flags'[f]
  PROVE  IInv'
<1>1. written'[f] = 1 /\ \A g \in Fun \ {f} : written'[g] = written[g]
  BY DEF IInv, Types
<1>2. Types'
  BY DEF IInv, Types
<1>3. WrittenOnce'
  BY <1>1 DEF IInv, WrittenOnce
<1>4. Marked'
  BY <1>1 DEF IInv, Marked, DLIST_ISEMPTY
<1>5. Saving'
  BY DEF IInv, Saving
<1>6. QED
  BY <1>2, <1>3, <1>4, <1>5 DEF IInv

(* Code is sent off: to the body of the function that is being saved, or   *)
(* to the assembler.                                                       *)
LEMMA SendKeeps ==
  ASSUME IInv, NEW gs, NEW names, NEW frame, Send(gs, names, frame),
         UNCHANGED <<written, isinlining, cifun>>
  PROVE  IInv'
<1>1. CASE isinlining
  <2>1. flags' = Clear(flags, ipole, frame)
    BY <1>1 DEF Send
  <2>2. DOMAIN flags' = Fun /\ \A f \in Fun : "WRITTEN" \in flags[f] => "WRITTEN" \in flags'[f]
    BY <2>1, ClearKeeps DEF IInv, Types, Clear
  <2>3. body' = [body EXCEPT ![cifun].refs = @ \o Referred(gs),
                             ![cifun].names = @ \cup names,
                             ![cifun].frame = @ \/ frame]
    BY <1>1 DEF Send
  <2>4. DOMAIN body' = Fun /\ \A f \in Fun \ {cifun} : body'[f] = body[f]
    BY <2>3 DEF IInv, Types
  <2>5. cifun \in Fun /\ body[cifun].there
    BY <1>1 DEF IInv, Types, Saving
  <2>6. /\ DOMAIN body'[cifun] = DOMAIN body[cifun]
        /\ body'[cifun].there = body[cifun].there
    BY <2>3, <2>5 DEF IInv, Types
  <2>7. \A f \in Fun : "there" \in DOMAIN body'[f] /\ "refs" \in DOMAIN body'[f]
    BY <2>4, <2>6 DEF IInv, Types
  <2>8. \A f \in Fun : DLIST_ISEMPTY(f) => DLIST_ISEMPTY(f)'
    BY <2>4, <2>5 DEF DLIST_ISEMPTY
  <2>9. isinlining' => cifun' \in Fun /\ body'[cifun'].there
    BY <2>5, <2>6
  <2>10. QED
    BY <2>2, <2>4, <2>7, <2>8, <2>9, NothingWritten
<1>2. CASE ~ isinlining
  <2>1. flags' = Mark(flags, Referred(gs)) /\ body' = body
    BY <1>2 DEF Send
  <2>2. DOMAIN flags' = Fun /\ \A f \in Fun : "WRITTEN" \in flags[f] => "WRITTEN" \in flags'[f]
    BY <2>1, MarkKeeps DEF Mark
  <2>3. QED
    BY <1>2, <2>1, <2>2, NothingWritten DEF IInv, Types, DLIST_ISEMPTY
<1>3. QED
  BY <1>1, <1>2

-----------------------------------------------------------------------------
LEMMA InitIInv == Init => IInv
  BY DEF Init, IInv, Types, WrittenOnce, Marked, Saving, Empty

LEMMA DeclareKeeps ==
  ASSUME IInv, NEW f \in Fun, NEW c \in Class, NEW inline \in BOOLEAN, Declare(f, c, inline)
  PROVE  IInv'
<1>1. UNCHANGED <<written, isinlining, cifun>>
  BY DEF Declare
<1>2. CASE Send(<<f>>, {}, FALSE)
  BY <1>1, <1>2, SendKeeps
<1>3. CASE UNCHANGED <<flags, body>>
  BY <1>1, <1>3, NothingWritten DEF IInv, Types, Saving, DLIST_ISEMPTY
<1>4. QED
  BY <1>2, <1>3 DEF Declare

LEMMA SayKeeps ==
  ASSUME IInv, NEW gs, NEW names, NEW frame, Say(gs, names, frame)
  PROVE  IInv'
  BY SendKeeps DEF Say

LEMMA DefineInlineKeeps ==
  ASSUME IInv, NEW f \in Fun, NEW c \in Class, NEW simple \in BOOLEAN,
         NEW frame \in BOOLEAN, DefineInline(f, c, simple, frame)
  PROVE  IInv'
<1>1. /\ written[f] = 0
      /\ written' = written
      /\ isinlining' = TRUE
      /\ cifun' = f
  BY DEF DefineInline, seen
<1>2. PICK own : body' = [body EXCEPT ![f] =
                            [Empty EXCEPT !.there = TRUE, !.refs = own, !.frame = frame]]
  BY DEF DefineInline
<1>3. /\ DOMAIN body' = Fun
      /\ body'[f].there
      /\ \A g \in Fun : "there" \in DOMAIN body'[g] /\ "refs" \in DOMAIN body'[g]
      /\ \A g \in Fun \ {f} : body'[g] = body[g]
  BY <1>2 DEF IInv, Types, Empty
<1>4. PICK fl, list :
        /\ fl = IF simple THEN [flags EXCEPT ![f] = @ \cup {"CANINL"}] ELSE flags
        /\ flags' = Clear(fl, list, frame)
  BY Zenon DEF DefineInline
<1>5. DOMAIN fl = Fun /\ \A g \in Fun : "WRITTEN" \in flags[g] => "WRITTEN" \in fl[g]
  BY <1>4 DEF IInv, Types
<1>6. DOMAIN flags' = Fun /\ \A g \in Fun : "WRITTEN" \in flags[g] => "WRITTEN" \in flags'[g]
  BY <1>4, <1>5, ClearKeeps DEF Clear
<1>7. \A g \in Fun : DLIST_ISEMPTY(g) /\ written[g] > 0 => DLIST_ISEMPTY(g)'
  BY <1>1, <1>3 DEF DLIST_ISEMPTY
<1>8. QED
  BY <1>1, <1>3, <1>6, <1>7, NothingWritten

(* Without a second definition nothing is saved of the function.           *)
LEMMA DefinePlainKeeps ==
  ASSUME IInv, ~ Redefined, NEW f \in Fun \cup {NoFun}, NEW c \in Class, DefinePlain(f, c)
  PROVE  IInv'
<1>1. UNCHANGED <<flags, body, isinlining, cifun>>
  BY DEF DefinePlain, inlvars
<1>2. CASE f = NoFun
  <2>1. written' = written
    BY <1>2 DEF DefinePlain
  <2>2. QED
    BY <1>1, <2>1, NothingWritten DEF IInv, Types, Saving, DLIST_ISEMPTY
<1>3. CASE f # NoFun
  <2>1. /\ written[f] = 0 /\ DLIST_ISEMPTY(f)
        /\ written' = [written EXCEPT ![f] = @ + 1]
    BY <1>3 DEF DefinePlain
  <2>2. QED
    BY <1>1, <1>3, <2>1, OneWritten DEF IInv, Types
<1>4. QED
  BY <1>2, <1>3

LEMMA CallKeeps ==
  ASSUME IInv, NEW g \in Fun, Address(g) \/ Call(g)
  PROVE  IInv'
<1>1. CASE Address(g)
  BY <1>1, SayKeeps DEF Address
<1>2. CASE Call(g)
  BY <1>2, SayKeeps DEF Call
<1>3. QED
  BY <1>1, <1>2

LEMMA FtnendKeeps ==
  ASSUME IInv, ftnend
  PROVE  IInv'
<1>1. UNCHANGED <<written, body>> /\ isinlining' = FALSE
  BY DEF ftnend, seen
<1>2. DOMAIN flags' = Fun /\ \A f \in Fun : "WRITTEN" \in flags[f] => "WRITTEN" \in flags'[f]
  BY DEF ftnend, IInv, Types
<1>3. QED
  BY <1>1, <1>2, NothingWritten DEF IInv, Types, DLIST_ISEMPTY

(* inline_prtout writes what is saved and not marked, so it was not        *)
(* written before.                                                         *)
LEMMA PrtoutKeeps ==
  ASSUME IInv, inline_prtout
  PROVE  IInv'
<1> DEFINE f == Head(w)
<1>1. UNCHANGED <<body, isinlining, cifun>>
  BY DEF inline_prtout
<1>2. CASE ToWrite(f)
  <2>1. puto(f)
    BY <1>2 DEF inline_prtout
  <2>2. flags' = [Mark(flags, Referred(body[f].refs)) EXCEPT ![f] = @ \cup {"WRITTEN"}]
    BY <2>1 DEF puto
  <2>3. DOMAIN flags' = Fun /\ \A g \in Fun : "WRITTEN" \in flags[g] => "WRITTEN" \in flags'[g]
    BY <2>2, MarkKeeps DEF Mark
  <2>4. written' = [written EXCEPT ![f] = @ + 1]
    BY <2>1 DEF puto
  <2>5. CASE f \in Fun
    <3>1. "WRITTEN" \notin flags[f] /\ ~ DLIST_ISEMPTY(f)
      BY <1>2 DEF ToWrite
    <3>2. written[f] = 0
      BY <2>5, <3>1 DEF IInv, Marked, Types
    <3>3. "WRITTEN" \in flags'[f]
      BY <2>2, <2>5 DEF Mark
    <3>4. QED
      BY <1>1, <2>3, <2>4, <2>5, <3>2, <3>3, OneWritten
  <2>6. CASE f \notin Fun
    <3>1. written' = written
      BY <2>4, <2>6 DEF IInv, Types
    <3>2. QED
      BY <1>1, <2>3, <3>1, NothingWritten DEF IInv, Types, Saving, DLIST_ISEMPTY
  <2>7. QED
    BY <2>5, <2>6
<1>3. CASE ~ ToWrite(f)
  <2>1. UNCHANGED <<flags, written>>
    BY <1>3 DEF inline_prtout
  <2>2. QED
    BY <1>1, <2>1, NothingWritten DEF IInv, Types, Saving, DLIST_ISEMPTY
<1>4. QED
  BY <1>2, <1>3

LEMMA NextIInv ==
  ASSUME IInv, ~ Redefined, [Next]_vars
  PROVE  IInv'
<1>1. ASSUME NEW f \in Fun, NEW c \in Class, NEW inline \in BOOLEAN, Declare(f, c, inline)
      PROVE  IInv'
  BY <1>1, DeclareKeeps
<1>2. ASSUME NEW f \in Fun, NEW c \in Class, NEW simple \in BOOLEAN, NEW frame \in Frames,
             DefineInline(f, c, simple, frame)
      PROVE  IInv'
  BY <1>2, DefineInlineKeeps, InlineAssumption
<1>3. ASSUME NEW f \in Fun \cup {NoFun}, NEW c \in Class, DefinePlain(f, c)
      PROVE  IInv'
  BY <1>3, DefinePlainKeeps
<1>4. ASSUME NEW g \in Fun, Address(g) \/ Call(g)
      PROVE  IInv'
  BY <1>4, CallKeeps
<1>5. CASE ftnend
  BY <1>5, FtnendKeeps
<1>6. CASE inline_prtout
  BY <1>6, PrtoutKeeps
<1>7. CASE Round \/ UNCHANGED vars
  <2>1. UNCHANGED <<flags, body, isinlining, cifun, written>>
    BY <1>7 DEF Round, vars, inlvars, seen
  <2>2. QED
    BY <2>1, NothingWritten DEF IInv, Types, Saving, DLIST_ISEMPTY
<1>8. QED
  BY <1>1, <1>2, <1>3, <1>4, <1>5, <1>6, <1>7 DEF Next, EndOfFile

(* No function is written twice (inline.c 363-388, pftn.c 540-622).        *)
THEOREM WrittenAtMostOnce ==
  ASSUME ~ Redefined
  PROVE  Spec => []WrittenOnce
<1>1. Init => IInv
  BY InitIInv
<1>2. IInv /\ [Next]_vars => IInv'
  BY NextIInv
<1>3. IInv => WrittenOnce
  BY DEF IInv
<1>4. QED
  BY <1>1, <1>2, <1>3, PTL DEF Spec

-----------------------------------------------------------------------------
(* inline_ref keeps of the functions of a sequence those that are not      *)
(* SNULL: the recursion that FoldLeft is goes on, prefix by prefix.        *)
LEMMA ReferredIs ==
  ASSUME NEW gs \in Seq(Fun)
  PROVE  /\ Referred(gs) \in Seq(Fun)
         /\ ToSet(Referred(gs)) = {g \in ToSet(gs) : sclass'[g] # "SNULL"}
<1> DEFINE T == Seq(Fun)
           n == Len(gs)
           G == [p \in (1 .. n) \X T |->
                   IF sclass'[gs[p[1]]] # "SNULL" THEN Append(p[2], gs[p[1]]) ELSE p[2]]
           Next1(x, t) == IF sclass'[gs[x]] # "SNULL" THEN Append(t, gs[x]) ELSE t
           Is(h) == h = [s \in SUBSET (1 .. n) |->
                           IF s = {} THEN <<>> ELSE Next1(Max(s), h[s \ {Max(s)}])]
           iter == CHOOSE h : Is(h)
<1>1. n \in Nat /\ DOMAIN gs = 1 .. n /\ \A k \in 1 .. n : gs[k] \in Fun
  OBVIOUS
<1>2. Referred(gs) = iter[1 .. n]
  BY <1>1 DEF Referred, FoldLeft, MapThenFoldSet
<1>3. /\ G \in [(1 .. n) \X T -> T] /\ <<>> \in T
      /\ \A k \in 1 .. n, t \in T : G[<<k, t>>] = Next1(k, t)
  BY <1>1
<1> HIDE DEF G
<1>4. PICK h : Folded(h, T, <<>>, G, n)
  BY <1>1, <1>3, FoldExists
<1>5. \A s \in SUBSET (1 .. n) : s # {} =>
         Max(s) \in 1 .. n /\ h[s \ {Max(s)}] \in T
  BY <1>1, <1>4, MaxIsIn DEF Folded
<1> HIDE DEF Next1, T, n
<1>6. Is(h)
  BY <1>3, <1>4, <1>5 DEF Folded
<1>7. Is(iter)
  BY <1>6
<1> HIDE DEF iter
<1> DEFINE S == {k \in Nat : k <= n =>
                   /\ iter[1 .. k] \in Seq(Fun)
                   /\ ToSet(iter[1 .. k]) = {g \in Fun : sclass'[g] # "SNULL" /\ \E j \in 1 .. k : g = gs[j]}}
<1>8. 0 \in S
  <2>1. 1 .. 0 = {} /\ {} \in SUBSET (1 .. n)
    OBVIOUS
  <2>2. iter[1 .. 0] = <<>>
    BY <1>7, <2>1
  <2>3. QED
    <3>1. ToSet(<<>>) = {}
      BY DEF ToSet
    <3>2. {g \in Fun : sclass'[g] # "SNULL" /\ \E j \in 1 .. 0 : g = gs[j]} = {}
      BY <2>1
    <3>3. <<>> \in Seq(Fun)
      OBVIOUS
    <3>4. QED
      BY <2>2, <3>1, <3>2, <3>3
<1>9. ASSUME NEW k \in Nat, k \in S PROVE k + 1 \in S
  <2> SUFFICES ASSUME k + 1 <= n
               PROVE  /\ iter[1 .. k + 1] \in Seq(Fun)
                      /\ ToSet(iter[1 .. k + 1]) =
                           {g \in Fun : sclass'[g] # "SNULL" /\ \E j \in 1 .. k + 1 : g = gs[j]}
    OBVIOUS
  <2>1. iter[1 .. k + 1] = Next1(k + 1, iter[1 .. k])
    <3>1. /\ 1 .. k + 1 \in SUBSET (1 .. n) /\ 1 .. k + 1 # {}
          /\ Max(1 .. k + 1) = k + 1 /\ (1 .. k + 1) \ {k + 1} = 1 .. k
      BY <1>1, Initial
    <3>2. QED
      BY <1>7, <3>1
  <2>2. /\ iter[1 .. k] \in Seq(Fun)
        /\ ToSet(iter[1 .. k]) = {g \in Fun : sclass'[g] # "SNULL" /\ \E j \in 1 .. k : g = gs[j]}
    BY <1>1, <1>9
  <2>3. gs[k + 1] \in Fun
    BY <1>1
  <2>4. \A g : (\E j \in 1 .. k + 1 : g = gs[j]) <=> (\E j \in 1 .. k : g = gs[j]) \/ g = gs[k + 1]
    OBVIOUS
  <2>5. CASE sclass'[gs[k + 1]] # "SNULL"
    <3>1. iter[1 .. k + 1] = Append(iter[1 .. k], gs[k + 1])
      BY <2>1, <2>5 DEF Next1
    <3>2. ToSet(iter[1 .. k + 1]) = ToSet(iter[1 .. k]) \cup {gs[k + 1]}
      BY <2>2, <2>3, <3>1, ToSetAppend
    <3>3. QED
      BY <2>2, <2>3, <2>4, <2>5, <3>1, <3>2
  <2>6. CASE sclass'[gs[k + 1]] = "SNULL"
    <3>1. iter[1 .. k + 1] = iter[1 .. k]
      BY <2>1, <2>6 DEF Next1
    <3>2. QED
      BY <2>2, <2>4, <2>6, <3>1
  <2>7. QED
    BY <2>5, <2>6
<1> HIDE DEF S
<1>10. n \in S
  BY <1>1, <1>8, <1>9, SetInduction
<1>11. QED
  BY <1>1, <1>2, <1>10 DEF S, ToSet, n

(* inline_ref puts on the list what is not on it yet; the list keeps each  *)
(* element once.                                                           *)
LEMMA InsertIs ==
  ASSUME ipole \in Seq(Fun), IsInjective(ipole), NEW gs \in Seq(Fun)
  PROVE  /\ Insert(gs) \in Seq(Fun)
         /\ IsInjective(Insert(gs))
         /\ ToSet(Insert(gs)) = ToSet(ipole) \cup ToSet(gs)
<1> DEFINE T == Seq(Fun)
           n == Len(gs)
           Next1(x, t) == IF gs[x] \in ToSet(t) THEN t ELSE <<gs[x]>> \o t
           G == [p \in (1 .. n) \X T |-> Next1(p[1], p[2])]
           Is(h) == h = [s \in SUBSET (1 .. n) |->
                           IF s = {} THEN ipole ELSE Next1(Max(s), h[s \ {Max(s)}])]
           iter == CHOOSE h : Is(h)
<1>1. n \in Nat /\ DOMAIN gs = 1 .. n /\ \A k \in 1 .. n : gs[k] \in Fun
  OBVIOUS
<1>2. Insert(gs) = iter[1 .. n]
  BY <1>1 DEF Insert, FoldLeft, MapThenFoldSet
<1>3. /\ G \in [(1 .. n) \X T -> T]
      /\ \A k \in 1 .. n, t \in T : G[<<k, t>>] = Next1(k, t)
  <2>1. \A k \in 1 .. n, t \in T : Next1(k, t) \in T
    BY <1>1
  <2> HIDE DEF Next1
  <2>2. QED
    BY <2>1
<1> HIDE DEF G
<1>4. PICK h : Folded(h, T, ipole, G, n)
  BY <1>1, <1>3, FoldExists
<1>5. \A s \in SUBSET (1 .. n) : s # {} =>
         Max(s) \in 1 .. n /\ h[s \ {Max(s)}] \in T
  BY <1>1, <1>4, MaxIsIn DEF Folded
<1> HIDE DEF Next1, T, n
<1>6. Is(h)
  BY <1>3, <1>4, <1>5 DEF Folded
<1>7. Is(iter)
  BY <1>6
<1> HIDE DEF iter
<1> DEFINE S == {k \in Nat : k <= n =>
                   /\ iter[1 .. k] \in Seq(Fun)
                   /\ IsInjective(iter[1 .. k])
                   /\ ToSet(iter[1 .. k]) = ToSet(ipole) \cup {g \in Fun : \E j \in 1 .. k : g = gs[j]}}
<1>8. 0 \in S
  <2>1. 1 .. 0 = {} /\ {} \in SUBSET (1 .. n)
    OBVIOUS
  <2>2. iter[1 .. 0] = ipole
    BY <1>7, <2>1
  <2>3. {g \in Fun : \E j \in 1 .. 0 : g = gs[j]} = {}
    BY <2>1
  <2>4. QED
    BY <2>2, <2>3
<1>9. ASSUME NEW k \in Nat, k \in S PROVE k + 1 \in S
  <2> DEFINE t == iter[1 .. k]
             u == iter[1 .. k + 1]
  <2> SUFFICES ASSUME k + 1 <= n
               PROVE  /\ u \in Seq(Fun)
                      /\ IsInjective(u)
                      /\ ToSet(u) = ToSet(ipole) \cup {g \in Fun : \E j \in 1 .. k + 1 : g = gs[j]}
    OBVIOUS
  <2>1. u = Next1(k + 1, t)
    <3>1. /\ 1 .. k + 1 \in SUBSET (1 .. n) /\ 1 .. k + 1 # {}
          /\ Max(1 .. k + 1) = k + 1 /\ (1 .. k + 1) \ {k + 1} = 1 .. k
      BY <1>1, Initial
    <3>2. QED
      BY <1>7, <3>1
  <2>2. /\ t \in Seq(Fun)
        /\ IsInjective(t)
        /\ ToSet(t) = ToSet(ipole) \cup {g \in Fun : \E j \in 1 .. k : g = gs[j]}
    BY <1>1, <1>9
  <2>3. gs[k + 1] \in Fun
    BY <1>1
  <2>4. \A g : (\E j \in 1 .. k + 1 : g = gs[j]) <=> (\E j \in 1 .. k : g = gs[j]) \/ g = gs[k + 1]
    OBVIOUS
  <2> HIDE DEF t, u
  <2>5. CASE gs[k + 1] \notin ToSet(t)
    <3>1. u = <<gs[k + 1]>> \o t
      BY <2>1, <2>5 DEF Next1
    <3>2. ToSet(u) = ToSet(t) \cup {gs[k + 1]} /\ IsInjective(u)
      <4>1. ToSet(<<gs[k + 1]>> \o t) = ToSet(t) \cup {gs[k + 1]}
        BY <2>2, <2>3, ToSetCons
      <4>2. IsInjective(<<gs[k + 1]>> \o t)
        BY <2>2, <2>3, <2>5, InjectiveCons
      <4>3. QED
        BY <3>1, <4>1, <4>2
    <3>3. {g \in Fun : \E j \in 1 .. k + 1 : g = gs[j]} =
             {g \in Fun : \E j \in 1 .. k : g = gs[j]} \cup {gs[k + 1]}
      BY <2>3, <2>4
    <3>4. u \in Seq(Fun)
      BY <2>2, <2>3, <3>1
    <3>5. QED
      BY <2>2, <3>2, <3>3, <3>4
  <2>6. CASE gs[k + 1] \in ToSet(t)
    <3>1. u = t
      BY <2>1, <2>6 DEF Next1
    <3>2. QED
      BY <2>2, <2>4, <2>6, <3>1
  <2>7. QED
    BY <2>5, <2>6
<1> HIDE DEF S
<1>10. n \in S
  BY <1>1, <1>8, <1>9, SetInduction
<1>11. ToSet(gs) = {g \in Fun : \E j \in 1 .. n : g = gs[j]}
  BY <1>1 DEF ToSet
<1>12. QED
  BY <1>1, <1>2, <1>10, <1>11 DEF S

-----------------------------------------------------------------------------
(* The types of flags and body.                                            *)
Flags == SUBSET {"CANINL", "WRITTEN", "REFD"}
Body == [there : BOOLEAN, refs : Seq(Fun), names : SUBSET Fun, frame : BOOLEAN]

LEMMA MarkIs ==
  ASSUME NEW fl \in [Fun -> Flags], NEW gs
  PROVE  /\ Mark(fl, gs) \in [Fun -> Flags]
         /\ \A f \in Fun : Mark(fl, gs)[f] = IF f \in ToSet(gs) THEN fl[f] \cup {"REFD"} ELSE fl[f]
  BY DEF Mark, Flags

LEMMA ClearIs ==
  ASSUME NEW fl \in [Fun -> Flags], NEW list, NEW frame
  PROVE  /\ Clear(fl, list, frame) \in [Fun -> Flags]
         /\ \A f \in Fun : Clear(fl, list, frame)[f] \subseteq fl[f]
         /\ \A f \in Fun, m \in {"REFD", "WRITTEN"} : m \in fl[f] => m \in Clear(fl, list, frame)[f]
  BY DEF Clear, Flags

(* What Send does, in sets: RS are the functions of gs that are told of.   *)
IsTold(RS, gs, scl) == RS = {g \in ToSet(gs) : scl[g] # "SNULL"}

(* Code goes to the assembler: RS come on the list and are marked.         *)
Noted(RS, ip, fl, ip1, fl1) ==
  /\ ip1 \in Seq(Fun) /\ IsInjective(ip1) /\ ToSet(ip1) = ToSet(ip) \cup RS
  /\ fl1 \in [Fun -> Flags]
  /\ \A f \in RS : fl1[f] = fl[f] \cup {"REFD"}
  /\ \A f \in Fun \ RS : fl1[f] = fl[f]

(* Code goes to the body of f: no mark goes on or off, but for CANINL, ... *)
Kept(fl, fl1) ==
  /\ fl1 \in [Fun -> Flags]
  /\ \A f \in Fun : fl1[f] \subseteq fl[f]
  /\ \A f \in Fun, m \in {"REFD", "WRITTEN"} : m \in fl[f] => m \in fl1[f]

(* ... and the names and records come to what is saved.                    *)
Saved(f, RS, names, b, b1) ==
  /\ b1 \in [Fun -> Body]
  /\ \A g \in Fun \ {f} : b1[g] = b[g]
  /\ b1[f].there = b[f].there
  /\ ToSet(b1[f].refs) = ToSet(b[f].refs) \cup RS
  /\ b1[f].names = b[f].names \cup names

(* While a function is saved, Send writes nothing and adds to its body.    *)
LEMMA SendSaves ==
  ASSUME TypeOK, NEW gs \in Seq(Fun), NEW names \in SUBSET Fun, NEW frame \in BOOLEAN,
         Send(gs, names, frame), isinlining
  PROVE  \E RS \in SUBSET Fun :
           /\ IsTold(RS, gs, sclass')
           /\ UNCHANGED <<ipole, needs>>
           /\ Saved(cifun, RS, names, body, body')
           /\ Kept(flags, flags')
<1>1. /\ body' = [body EXCEPT ![cifun].refs = @ \o Referred(gs),
                              ![cifun].names = @ \cup names,
                              ![cifun].frame = @ \/ frame]
      /\ flags' = Clear(flags, ipole, frame)
      /\ UNCHANGED <<ipole, needs>>
  BY DEF Send
<1>2. cifun \in Fun /\ body \in [Fun -> Body] /\ flags \in [Fun -> Flags]
  BY DEF TypeOK, Body, Flags
<1>3. PICK RS : Referred(gs) \in Seq(Fun) /\ ToSet(Referred(gs)) = RS /\ RS \subseteq Fun /\ IsTold(RS, gs, sclass')
  <2>1. PICK RS : RS = {g \in ToSet(gs) : sclass'[g] # "SNULL"}
    OBVIOUS
  <2>2. RS \subseteq Fun /\ IsTold(RS, gs, sclass')
    BY <2>1 DEF IsTold, ToSet
  <2>3. QED
    BY <2>1, <2>2, ReferredIs
<1> DEFINE b == body[cifun]
           c == [there |-> b.there, refs |-> b.refs \o Referred(gs), names |-> b.names \cup names,
                 frame |-> b.frame \/ frame]
<1>4. b \in Body /\ b.refs \in Seq(Fun) /\ b.names \subseteq Fun /\ b.frame \in BOOLEAN /\ b.there \in BOOLEAN
  BY <1>2 DEF Body
<1>5. c \in Body
  BY <1>3, <1>4 DEF Body
<1>6. /\ DOMAIN body' = Fun /\ body' = [f \in Fun |-> body'[f]]
      /\ \A f \in Fun \ {cifun} : body'[f] = body[f]
      /\ body'[cifun] = c
  <2>1. /\ DOMAIN body' = Fun /\ body' = [f \in Fun |-> body'[f]]
        /\ \A f \in Fun \ {cifun} : body'[f] = body[f]
    BY <1>1, <1>2
  <2>2. body'[cifun] = [b EXCEPT !.refs = b.refs \o Referred(gs), !.names = b.names \cup names,
                                 !.frame = b.frame \/ frame]
    BY <1>1, <1>2 DEF Body
  <2>3. QED
    BY <1>4, <2>1, <2>2 DEF Body
<1>7. ToSet(b.refs \o Referred(gs)) = ToSet(b.refs) \cup RS
  BY <1>3, <1>4, ToSetConcat
<1>8. body' \in [Fun -> Body] /\ body'[cifun] = c /\ \A f \in Fun \ {cifun} : body'[f] = body[f]
  <2> HIDE DEF c
  <2>1. \A f \in Fun : body'[f] \in Body
    BY <1>2, <1>5, <1>6
  <2>2. QED
    BY <1>6, <2>1
<1>9. flags' \in [Fun -> Flags]
         /\ (\A f \in Fun : flags'[f] \subseteq flags[f])
         /\ \A f \in Fun, m \in {"REFD", "WRITTEN"} : m \in flags[f] => m \in flags'[f]
  BY <1>1, <1>2, ClearIs
<1>10. Saved(cifun, RS, names, body, body') /\ Kept(flags, flags')
  BY <1>7, <1>8, <1>9 DEF Saved, Kept
<1>11. QED
  BY <1>1, <1>3, <1>10

(* Otherwise Send marks what it comes across and puts it on the list.      *)
LEMMA SendWrites ==
  ASSUME TypeOK, NEW gs \in Seq(Fun), NEW names \in SUBSET Fun, NEW frame \in BOOLEAN,
         Send(gs, names, frame), ~ isinlining
  PROVE  \E RS \in SUBSET Fun :
           /\ IsTold(RS, gs, sclass')
           /\ body' = body
           /\ needs' = needs \cup names
           /\ Noted(RS, ipole, flags, ipole', flags')
<1>1. /\ flags' = Mark(flags, Referred(gs))
      /\ ipole' = Insert(Referred(gs))
      /\ needs' = needs \cup names
      /\ body' = body
  BY DEF Send
<1>2. PICK RS : Referred(gs) \in Seq(Fun) /\ ToSet(Referred(gs)) = RS /\ RS \subseteq Fun /\ IsTold(RS, gs, sclass')
  <2>1. PICK RS : RS = {g \in ToSet(gs) : sclass'[g] # "SNULL"}
    OBVIOUS
  <2>2. RS \subseteq Fun /\ IsTold(RS, gs, sclass')
    BY <2>1 DEF IsTold, ToSet
  <2>3. QED
    BY <2>1, <2>2, ReferredIs
<1>3. flags \in [Fun -> Flags] /\ ipole \in Seq(Fun) /\ IsInjective(ipole)
  BY DEF TypeOK, Flags
<1>4. /\ Insert(Referred(gs)) \in Seq(Fun)
      /\ IsInjective(Insert(Referred(gs)))
      /\ ToSet(Insert(Referred(gs))) = ToSet(ipole) \cup RS
  BY <1>2, <1>3, InsertIs
<1>5. /\ flags' \in [Fun -> Flags]
      /\ \A f \in RS : flags'[f] = flags[f] \cup {"REFD"}
      /\ \A f \in Fun \ RS : flags'[f] = flags[f]
  <2>1. PICK rs : rs = Referred(gs)
    OBVIOUS
  <2>2. flags' = Mark(flags, rs) /\ ToSet(rs) = RS
    BY <1>1, <1>2, <2>1
  <2>3. /\ Mark(flags, rs) \in [Fun -> Flags]
        /\ \A f \in Fun : Mark(flags, rs)[f] = IF f \in ToSet(rs) THEN flags[f] \cup {"REFD"} ELSE flags[f]
    BY <1>3, MarkIs
  <2>4. QED
    BY <1>2, <2>2, <2>3
<1>6. Noted(RS, ipole, flags, ipole', flags')
  BY <1>1, <1>4, <1>5 DEF Noted
<1>7. QED
  BY <1>1, <1>2, <1>6

(* TypeOK, in what Send may change and what it leaves alone.               *)
Classes == {"UNDEF", "SNULL", "STATIC", "USTATIC", "EXTERN", "EXTDEF"}

ListOK ==
  /\ ipole \in Seq(Fun) /\ IsInjective(ipole)
  /\ \A f \in Fun : flags[f] # {} \/ body[f].there => f \in ToSet(ipole)
  /\ flags \in [Fun -> Flags]
  /\ body \in [Fun -> Body]
  /\ needs \subseteq Fun

RestOK ==
  /\ xgnu89 \in Modes /\ xinline \in BOOLEAN
  /\ sclass \in [Fun -> Classes]
  /\ SINLINE \subseteq Fun
  /\ w \in Seq(Fun)
  /\ isinlining \in BOOLEAN /\ cifun \in Fun \cup {NoFun} /\ svclass \in Class
  /\ isinlining => cifun \in Fun
  /\ gotone \in BOOLEAN
  /\ pc \in {"file", "function", "prtout", "flushed"}
  /\ items \in Nat /\ stmts \in Nat
  /\ written \in [Fun -> Nat] /\ copiedframe \subseteq Fun

LEMMA TypeParts ==
  /\ TypeOK <=> ListOK /\ RestOK
  /\ TypeOK' <=> ListOK' /\ RestOK'
  BY DEF TypeOK, ListOK, RestOK, Classes, Flags, Body

(* Code is sent off with the list, marks and bodies in order.              *)
LEMMA SendTypes ==
  ASSUME TypeOK, NEW gs \in Seq(Fun), NEW names \in SUBSET Fun, NEW frame \in BOOLEAN,
         Send(gs, names, frame)
  PROVE  ListOK'
<1>1. ListOK /\ (isinlining => cifun \in Fun)
  BY TypeParts DEF RestOK
<1>2. CASE isinlining
  <2>1. PICK RS \in SUBSET Fun :
           /\ IsTold(RS, gs, sclass')
           /\ UNCHANGED <<ipole, needs>>
           /\ Saved(cifun, RS, names, body, body')
           /\ Kept(flags, flags')
    BY <1>2, SendSaves
  <2>2. QED
    BY <1>1, <1>2, <2>1 DEF ListOK, Saved, Kept
<1>3. CASE ~ isinlining
  <2>1. PICK RS \in SUBSET Fun :
           /\ IsTold(RS, gs, sclass')
           /\ body' = body
           /\ needs' = needs \cup names
           /\ Noted(RS, ipole, flags, ipole', flags')
    BY <1>3, SendWrites
  <2>2. \A f \in Fun : flags'[f] # {} \/ body'[f].there => f \in ToSet(ipole')
    BY <1>1, <2>1 DEF ListOK, Noted
  <2>3. QED
    BY <1>1, <2>1, <2>2 DEF ListOK, Noted
<1>4. QED
  BY <1>2, <1>3

(* A declaration or definition leaves one of the storage classes.          *)
LEMMA ClassTypes ==
  ASSUME NEW scl \in Classes, NEW c \in Class, NEW inline \in BOOLEAN
  PROVE  /\ Becomes(scl, uclass(c, inline)) \in Classes
         /\ Becomes(scl, IF c = "EXTERN" THEN "EXTDEF" ELSE c) \in Classes
         /\ c \in {"SNULL", "STATIC"} => Becomes(scl, IF c = "SNULL" THEN "EXTDEF" ELSE c) \in Classes
  BY DEF Becomes, uclass, Class, Classes

LEMMA InitTypes == Init => TypeOK
<1> HAVE Init
<1>1. ListOK
  BY DEF Init, ListOK, Empty, Flags, Body, IsInjective
<1>2. RestOK
  <2>1. sclass \in [Fun -> Classes] /\ written \in [Fun -> Nat]
    BY DEF Init, Classes
  <2>2. SINLINE \subseteq Fun /\ copiedframe \subseteq Fun /\ w \in Seq(Fun)
    BY DEF Init
  <2>3. svclass \in Class /\ pc \in {"file", "function", "prtout", "flushed"}
    BY DEF Init, Class
  <2>4. /\ xgnu89 \in Modes /\ xinline \in BOOLEAN /\ cifun \in Fun \cup {NoFun}
        /\ isinlining = FALSE /\ gotone \in BOOLEAN /\ items \in Nat /\ stmts \in Nat
    BY DEF Init
  <2>5. QED
    BY <2>1, <2>2, <2>3, <2>4 DEF RestOK
<1>3. QED
  BY <1>1, <1>2, TypeParts

(* One lemma for each action: the types stay.                              *)
LEMMA DeclareTypes ==
  ASSUME TypeOK, NEW f \in Fun, NEW c \in Class, NEW inline \in BOOLEAN, Declare(f, c, inline)
  PROVE  TypeOK'
<1>1. ListOK /\ RestOK
  BY TypeParts
<1>2. sclass' = [sclass EXCEPT ![f] = Becomes(sclass[f], uclass(c, inline))]
  BY DEF Declare
<1>3. sclass' \in [Fun -> Classes]
  <2>1. sclass[f] \in Classes
    BY <1>1 DEF RestOK
  <2>2. QED
    BY <1>1, <1>2, <2>1, ClassTypes DEF RestOK
<1>4. SINLINE' \subseteq Fun /\ items' \in Nat /\ pc' \in {"file", "function", "prtout", "flushed"}
  <2>1. SINLINE' \subseteq Fun
    <3>1. SINLINE' = SINLINE \/ SINLINE' = SINLINE \cup {f}
      BY DEF Declare
    <3>2. QED
      BY <1>1, <3>1 DEF RestOK
  <2>2. items' \in Nat
    BY <1>1 DEF Declare, RestOK
  <2>3. pc' = "file" \/ pc' = pc
    BY DEF Declare
  <2>4. QED
    BY <1>1, <2>1, <2>2, <2>3 DEF RestOK
<1>5. UNCHANGED <<xgnu89, xinline, isinlining, cifun, svclass, w, gotone, stmts, written, copiedframe>>
  BY DEF Declare, prtvars
<1>6. RestOK'
  BY <1>1, <1>3, <1>4, <1>5 DEF RestOK
<1>7. ListOK'
  <2>1. CASE Send(<<f>>, {}, FALSE)
    <3>1. <<f>> \in Seq(Fun) /\ {} \in SUBSET Fun /\ FALSE \in BOOLEAN
      OBVIOUS
    <3>2. QED
      BY <2>1, <3>1, SendTypes
  <2>2. CASE UNCHANGED <<ipole, flags, body, needs>>
    BY <1>1, <2>2 DEF ListOK
  <2>3. QED
    BY <2>1, <2>2 DEF Declare
<1>8. QED
  BY <1>6, <1>7, TypeParts

(* What inline_start and the prologue do to the list, bodies and marks.    *)
LEMMA DefineInlineDoes ==
  ASSUME TypeOK, NEW f \in Fun, NEW c \in Class, NEW simple \in BOOLEAN,
         NEW frame \in BOOLEAN, DefineInline(f, c, simple, frame)
  PROVE  /\ ipole' \in Seq(Fun) /\ IsInjective(ipole') /\ ToSet(ipole') = ToSet(ipole) \cup {f}
         /\ body' \in [Fun -> Body]
         /\ \A g \in Fun \ {f} : body'[g] = body[g]
         /\ body'[f].there /\ body'[f].names = {}
         /\ flags' \in [Fun -> Flags]
         /\ \A g \in Fun \ {f} : flags'[g] \subseteq flags[g]
         /\ \A g \in Fun, m \in {"REFD", "WRITTEN"} : m \in flags[g] => m \in flags'[g]
         /\ "WRITTEN" \in flags'[f] => "WRITTEN" \in flags[f]
<1>1. ListOK /\ RestOK
  BY TypeParts
<1>2. ipole' = Insert(<<f>>)
  BY DEF DefineInline
<1>3. ipole' \in Seq(Fun) /\ IsInjective(ipole') /\ ToSet(ipole') = ToSet(ipole) \cup {f}
  <2>1. <<f>> \in Seq(Fun) /\ ToSet(<<f>>) = {f}
    BY DEF ToSet
  <2>2. QED
    BY <1>1, <1>2, <2>1, InsertIs DEF ListOK
<1>4. PICK own : /\ own \in {<<f>>, <<>>}
                 /\ body' = [body EXCEPT ![f] =
                              [Empty EXCEPT !.there = TRUE, !.refs = own, !.frame = frame]]
  BY DEF DefineInline
<1>5. PICK u \in Body : u.there /\ u.names = {} /\ body' = [body EXCEPT ![f] = u]
  <2>1. own \in Seq(Fun)
    <3>1. <<f>> \in Seq(Fun) /\ <<>> \in Seq(Fun)
      OBVIOUS
    <3>2. QED
      BY <1>4, <3>1
  <2>2. PICK e : e = Empty
    OBVIOUS
  <2>3. e \in Body /\ e.names = {}
    BY <2>2 DEF Empty, Body
  <2>4. PICK u : u = [e EXCEPT !.there = TRUE, !.refs = own, !.frame = frame]
    OBVIOUS
  <2>5. u \in Body /\ u.there
    BY <2>1, <2>3, <2>4 DEF Body
  <2>6. u.names = {}
    BY <2>3, <2>4 DEF Body
  <2>7. body' = [body EXCEPT ![f] = u]
    BY <1>4, <2>2, <2>4
  <2>8. QED
    BY <2>5, <2>6, <2>7
<1>6. /\ body' \in [Fun -> Body]
      /\ \A g \in Fun \ {f} : body'[g] = body[g]
      /\ body'[f].there /\ body'[f].names = {}
  BY <1>1, <1>5 DEF ListOK
<1>7. PICK fl, list :
        /\ fl = IF simple THEN [flags EXCEPT ![f] = @ \cup {"CANINL"}] ELSE flags
        /\ flags' = Clear(fl, list, frame)
  BY Zenon DEF DefineInline
<1>8. /\ fl \in [Fun -> Flags]
      /\ \A g \in Fun \ {f} : fl[g] = flags[g]
      /\ fl[f] \in {flags[f], flags[f] \cup {"CANINL"}}
  BY <1>1, <1>7 DEF ListOK, Flags
<1>9. /\ flags' \in [Fun -> Flags]
      /\ \A g \in Fun : flags'[g] \subseteq fl[g]
      /\ \A g \in Fun, m \in {"REFD", "WRITTEN"} : m \in fl[g] => m \in flags'[g]
  <2>1. /\ Clear(fl, list, frame) \in [Fun -> Flags]
        /\ \A g \in Fun : Clear(fl, list, frame)[g] \subseteq fl[g]
        /\ \A g \in Fun, m \in {"REFD", "WRITTEN"} : m \in fl[g] => m \in Clear(fl, list, frame)[g]
    BY <1>8, ClearIs
  <2>2. QED
    BY <1>7, <2>1
<1>10. /\ \A g \in Fun \ {f} : flags'[g] \subseteq flags[g]
       /\ \A g \in Fun, m \in {"REFD", "WRITTEN"} : m \in flags[g] => m \in flags'[g]
       /\ "WRITTEN" \in flags'[f] => "WRITTEN" \in flags[f]
  <2>1. \A g \in Fun, m \in {"REFD", "WRITTEN"} : m \in flags[g] => m \in fl[g]
    BY <1>8
  <2>2. QED
    BY <1>8, <1>9, <2>1
<1>11. QED
  BY <1>3, <1>6, <1>9, <1>10

LEMMA DefineInlineTypes ==
  ASSUME TypeOK, NEW f \in Fun, NEW c \in Class, NEW simple \in BOOLEAN,
         NEW frame \in BOOLEAN, DefineInline(f, c, simple, frame)
  PROVE  TypeOK'
<1>1. ListOK /\ RestOK
  BY TypeParts
<1>2. /\ sclass' = [sclass EXCEPT ![f] = Becomes(sclass[f], IF c = "EXTERN" THEN "EXTDEF" ELSE c)]
      /\ SINLINE' = SINLINE \cup {f}
      /\ isinlining' = TRUE /\ cifun' = f /\ svclass' = c /\ pc' = "function" /\ items' = items + 1
      /\ UNCHANGED <<xgnu89, xinline, w, gotone, stmts, needs, written, copiedframe>>
  BY DEF DefineInline, prtvars, seen
<1>3. sclass' \in [Fun -> Classes]
  <2>1. sclass[f] \in Classes
    BY <1>1 DEF RestOK
  <2>2. QED
    BY <1>1, <1>2, <2>1, ClassTypes DEF RestOK
<1>4. RestOK'
  BY <1>1, <1>2, <1>3 DEF RestOK
<1>5. ListOK'
  <2>1. needs' \subseteq Fun
    BY <1>1, <1>2 DEF ListOK
  <2>2. QED
    BY <1>1, <2>1, DefineInlineDoes DEF ListOK
<1>6. QED
  BY <1>4, <1>5, TypeParts

LEMMA DefinePlainTypes ==
  ASSUME TypeOK, NEW f \in Fun \cup {NoFun}, NEW c \in Class, DefinePlain(f, c)
  PROVE  TypeOK'
<1>1. ListOK /\ RestOK
  BY TypeParts
<1>2. /\ pc' = "function" /\ items' = items + 1
      /\ UNCHANGED <<xgnu89, xinline, SINLINE, ipole, flags, body, isinlining, cifun, svclass,
                     w, gotone, stmts, needs, copiedframe>>
  BY DEF DefinePlain, inlvars, prtvars
<1>3. sclass' \in [Fun -> Classes] /\ written' \in [Fun -> Nat]
  <2>1. CASE f = NoFun
    BY <1>1, <2>1 DEF DefinePlain, RestOK
  <2>2. CASE f # NoFun
    <3>1. /\ c \in {"SNULL", "STATIC"}
          /\ sclass' = [sclass EXCEPT ![f] = Becomes(sclass[f], IF c = "SNULL" THEN "EXTDEF" ELSE c)]
          /\ written' = [written EXCEPT ![f] = @ + 1]
      BY <2>2 DEF DefinePlain
    <3>2. sclass[f] \in Classes
      BY <1>1, <2>2 DEF RestOK
    <3>3. Becomes(sclass[f], IF c = "SNULL" THEN "EXTDEF" ELSE c) \in Classes
      BY <3>1, <3>2, ClassTypes
    <3>4. QED
      BY <1>1, <2>2, <3>1, <3>3 DEF RestOK
  <2>3. QED
    BY <2>1, <2>2
<1>4. RestOK' /\ ListOK'
  BY <1>1, <1>2, <1>3 DEF RestOK, ListOK
<1>5. QED
  BY <1>4, TypeParts

LEMMA SayTypes ==
  ASSUME TypeOK, NEW gs \in Seq(Fun), NEW names \in SUBSET Fun, NEW frame \in BOOLEAN,
         Say(gs, names, frame), pc' \in {pc, "file"}, copiedframe' \subseteq Fun
  PROVE  TypeOK'
<1>1. ListOK /\ RestOK
  BY TypeParts
<1>2. ListOK'
  BY SendTypes DEF Say
<1>3. RestOK'
  BY <1>1 DEF Say, RestOK, symvars, prtvars
<1>4. QED
  BY <1>2, <1>3, TypeParts

LEMMA AddressTypes ==
  ASSUME TypeOK, NEW g \in Fun, Address(g)
  PROVE  TypeOK'
<1>1. PICK gs : gs = IF g \in SINLINE THEN <<g>> ELSE <<>>
  OBVIOUS
<1>2. gs \in Seq(Fun)
  BY <1>1
<1>3. Say(gs, {g}, FALSE) /\ pc' \in {pc, "file"} /\ copiedframe' \subseteq Fun
  BY <1>1, TypeParts DEF Address, RestOK
<1>4. QED
  BY <1>2, <1>3, SayTypes

LEMMA CallTypes ==
  ASSUME TypeOK, NEW g \in Fun, Call(g)
  PROVE  TypeOK'
<1>1. ListOK /\ RestOK
  BY TypeParts
<1>2. pc' = pc
  BY DEF Call
<1>3. CASE Copied(g)
  <2>1. Say(body[g].refs, body[g].names, body[g].frame) /\ copiedframe' \subseteq Fun
    BY <1>1, <1>3 DEF Call, RestOK
  <2>2. body[g].refs \in Seq(Fun) /\ body[g].names \in SUBSET Fun /\ body[g].frame \in BOOLEAN
    BY <1>1 DEF ListOK, Body
  <2>3. QED
    BY <1>2, <2>1, <2>2, SayTypes
<1>4. CASE ~ Copied(g)
  <2>1. PICK gs : gs = IF Told(g) THEN <<g>> ELSE <<>>
    OBVIOUS
  <2>2. gs \in Seq(Fun)
    BY <2>1
  <2>3. Say(gs, {g}, FALSE) /\ copiedframe' \subseteq Fun
    BY <1>1, <1>4, <2>1 DEF Call, RestOK
  <2>4. QED
    BY <1>2, <2>2, <2>3, SayTypes
<1>5. QED
  BY <1>3, <1>4

LEMMA ftnendTypes ==
  ASSUME TypeOK, ftnend, isinlining => body[cifun].there
  PROVE  TypeOK'
<1>1. ListOK /\ RestOK
  BY TypeParts
<1>2. /\ isinlining' = FALSE /\ w' = ipole /\ gotone' = FALSE /\ pc' = "prtout"
      /\ UNCHANGED <<xgnu89, xinline, SINLINE, ipole, body, cifun, svclass, items, stmts,
                     needs, written, copiedframe>>
  BY DEF ftnend, seen
<1>3. sclass' \in [Fun -> Classes]
  <2>1. CASE isinlining
    <3>1. ClassAtEnd \in Classes
      <4>1. sclass[cifun] \in Classes
        BY <1>1, <2>1 DEF RestOK
      <4>2. QED
        BY <4>1 DEF ClassAtEnd, Classes
    <3>2. QED
      BY <1>1, <2>1, <3>1 DEF ftnend, RestOK
  <2>2. CASE ~ isinlining
    BY <1>1, <2>2 DEF ftnend, RestOK
  <2>3. QED
    BY <2>1, <2>2
<1>4. flags' \in [Fun -> Flags] /\ \A f \in Fun : flags'[f] # {} => flags[f] # {} \/ body[f].there
  <2>1. CASE flags' = flags
    BY <1>1, <2>1 DEF ListOK
  <2>2. CASE isinlining /\ flags' = [flags EXCEPT ![cifun] = @ \cup {"REFD"}]
    BY <1>1, <2>2 DEF ListOK, RestOK, Flags
  <2>3. QED
    BY <2>1, <2>2 DEF ftnend
<1>5. ListOK'
  BY <1>1, <1>2, <1>4 DEF ListOK
<1>6. RestOK'
  BY <1>1, <1>2, <1>3 DEF RestOK, ListOK
<1>7. QED
  BY <1>5, <1>6, TypeParts

(* What puto does: the records of the body are told of while it is         *)
(* written.                                                                *)
LEMMA putoDoes ==
  ASSUME TypeOK, NEW f \in Fun, puto(f)
  PROVE  \E RS \in SUBSET Fun :
            /\ IsTold(RS, body[f].refs, sclass)
            /\ ipole' \in Seq(Fun) /\ IsInjective(ipole') /\ ToSet(ipole') = ToSet(ipole) \cup RS
            /\ flags' \in [Fun -> Flags]
            /\ \A g \in Fun : flags'[g] = flags[g] \cup (IF g \in RS THEN {"REFD"} ELSE {})
                                                   \cup (IF g = f THEN {"WRITTEN"} ELSE {})
            /\ needs' = needs \cup body[f].names /\ body[f].names \subseteq Fun
            /\ written' = [written EXCEPT ![f] = @ + 1]
            /\ sclass' = sclass
<1>1. ListOK /\ RestOK
  BY TypeParts
<1>2. body[f].refs \in Seq(Fun) /\ body[f].names \subseteq Fun
  BY <1>1 DEF ListOK, Body
<1>3. PICK rs, b : rs = Referred(b) /\ b = body[f].refs
  OBVIOUS
<1>4. PICK RS : /\ rs \in Seq(Fun) /\ ToSet(rs) = RS
                /\ RS = {g \in ToSet(b) : sclass'[g] # "SNULL"}
  BY <1>2, <1>3, ReferredIs
<1>5. /\ flags' = [Mark(flags, rs) EXCEPT ![f] = @ \cup {"WRITTEN"}]
      /\ ipole' = Insert(rs)
      /\ needs' = needs \cup body[f].names
      /\ written' = [written EXCEPT ![f] = @ + 1]
      /\ sclass' = sclass
  BY <1>3 DEF puto
<1>6. ipole' \in Seq(Fun) /\ IsInjective(ipole') /\ ToSet(ipole') = ToSet(ipole) \cup RS
  BY <1>1, <1>4, <1>5, InsertIs DEF ListOK
<1>7. /\ Mark(flags, rs) \in [Fun -> Flags]
      /\ \A g \in Fun : Mark(flags, rs)[g] = IF g \in ToSet(rs) THEN flags[g] \cup {"REFD"} ELSE flags[g]
  BY <1>1, MarkIs DEF ListOK
<1>8. /\ flags' \in [Fun -> Flags]
      /\ \A g \in Fun : flags'[g] = flags[g] \cup (IF g \in RS THEN {"REFD"} ELSE {})
                                             \cup (IF g = f THEN {"WRITTEN"} ELSE {})
  BY <1>4, <1>5, <1>7 DEF Flags
<1>9. RS \subseteq Fun /\ IsTold(RS, body[f].refs, sclass)
  BY <1>2, <1>3, <1>4, <1>5 DEF ToSet, IsTold
<1>10. QED
  BY <1>2, <1>4, <1>5, <1>6, <1>8, <1>9

LEMMA PrtoutTypes ==
  ASSUME TypeOK, inline_prtout
  PROVE  TypeOK'
<1>1. ListOK /\ RestOK
  BY TypeParts
<1>2. /\ w # <<>> /\ w' = Tail(w) /\ w \in Seq(Fun)
      /\ UNCHANGED <<xgnu89, xinline, SINLINE, body, isinlining, cifun, svclass, pc, items,
                     stmts, copiedframe>>
  BY <1>1 DEF inline_prtout, RestOK
<1>3. Head(w) \in Fun /\ w' \in Seq(Fun)
  BY <1>2
<1>4. CASE ToWrite(Head(w))
  <2>1. puto(Head(w)) /\ gotone' = TRUE
    BY <1>4 DEF inline_prtout
  <2>2. PICK f \in Fun : f = Head(w)
    BY <1>3
  <2>3. puto(f) /\ f \in ToSet(ipole)
    BY <1>1, <1>4, <2>1, <2>2 DEF ToWrite, ListOK
  <2>4. PICK RS : /\ RS \subseteq Fun
                  /\ ipole' \in Seq(Fun) /\ IsInjective(ipole') /\ ToSet(ipole') = ToSet(ipole) \cup RS
                  /\ flags' \in [Fun -> Flags]
                  /\ \A g \in Fun : flags'[g] = flags[g] \cup (IF g \in RS THEN {"REFD"} ELSE {})
                                                         \cup (IF g = f THEN {"WRITTEN"} ELSE {})
                  /\ needs' = needs \cup body[f].names /\ body[f].names \subseteq Fun
                  /\ written' = [written EXCEPT ![f] = @ + 1]
                  /\ sclass' = sclass
    BY <2>3, putoDoes
  <2>5. \A g \in Fun : flags'[g] # {} \/ body'[g].there => g \in ToSet(ipole')
    BY <1>1, <1>2, <2>3, <2>4 DEF ListOK
  <2>6. ListOK'
    BY <1>1, <1>2, <2>4, <2>5 DEF ListOK
  <2>7. written' \in [Fun -> Nat]
    BY <1>1, <2>4 DEF RestOK
  <2>8. RestOK'
    BY <1>1, <1>2, <1>3, <2>1, <2>4, <2>7 DEF RestOK
  <2>9. QED
    BY <2>6, <2>8, TypeParts
<1>5. CASE ~ ToWrite(Head(w))
  <2>1. UNCHANGED <<sclass, flags, ipole, needs, written, gotone>>
    BY <1>5 DEF inline_prtout
  <2>2. ListOK' /\ RestOK'
    BY <1>1, <1>2, <1>3, <2>1 DEF ListOK, RestOK
  <2>3. QED
    BY <2>2, TypeParts
<1>6. QED
  BY <1>4, <1>5

(* A body is open only inside a function, and it was begun.  Without it    *)
(* ftnend could mark a function that is not on the list.                   *)
BodyOpen == isinlining => pc = "function" /\ body[cifun].there

(* What is said in a function takes no body away.                          *)
Stays(b, b1) == \A f \in Fun : b[f].there => b1[f].there

LEMMA SayStays ==
  ASSUME TypeOK, NEW gs \in Seq(Fun), NEW names \in SUBSET Fun, NEW frame \in BOOLEAN,
         Say(gs, names, frame)
  PROVE  Stays(body, body')
<1>1. Send(gs, names, frame)
  BY DEF Say
<1>2. CASE isinlining
  <2>1. PICK RS \in SUBSET Fun :
           /\ IsTold(RS, gs, sclass')
           /\ UNCHANGED <<ipole, needs>>
           /\ Saved(cifun, RS, names, body, body')
           /\ Kept(flags, flags')
    BY <1>1, <1>2, SendSaves
  <2>2. QED
    BY <2>1 DEF Saved, Stays
<1>3. CASE ~ isinlining
  BY <1>1, <1>3 DEF Send, Stays
<1>4. QED
  BY <1>2, <1>3

LEMMA AddressStays ==
  ASSUME TypeOK, NEW g \in Fun, Address(g)
  PROVE  Stays(body, body')
<1>1. PICK gs : gs = IF g \in SINLINE THEN <<g>> ELSE <<>>
  OBVIOUS
<1>2. gs \in Seq(Fun)
  BY <1>1
<1>3. Say(gs, {g}, FALSE)
  BY <1>1 DEF Address
<1>4. QED
  BY <1>2, <1>3, SayStays

LEMMA CallStays ==
  ASSUME TypeOK, NEW g \in Fun, Call(g)
  PROVE  Stays(body, body')
<1>1. CASE Copied(g)
  <2>1. Say(body[g].refs, body[g].names, body[g].frame)
    BY <1>1 DEF Call
  <2>2. body[g].refs \in Seq(Fun) /\ body[g].names \in SUBSET Fun /\ body[g].frame \in BOOLEAN
    BY TypeParts DEF ListOK, Body
  <2>3. QED
    BY <2>1, <2>2, SayStays
<1>2. CASE ~ Copied(g)
  <2>1. PICK gs : gs = IF Told(g) THEN <<g>> ELSE <<>>
    OBVIOUS
  <2>2. gs \in Seq(Fun)
    BY <2>1
  <2>3. Say(gs, {g}, FALSE)
    BY <1>2, <2>1 DEF Call
  <2>4. QED
    BY <2>2, <2>3, SayStays
<1>3. QED
  BY <1>1, <1>2

(* The types hold, the list has each function once and holds every         *)
(* function with a mark or a body, and the names in code are functions of  *)
(* the file, whatever is declared, defined and called in whatever order    *)
(* (inline.c 60-389, pftn.c 540-622).                                      *)
THEOREM TypeCorrect == Spec => []TypeOK
<1>1. Init => TypeOK /\ BodyOpen
  BY InitTypes DEF Init, BodyOpen
<1>2. TypeOK /\ BodyOpen /\ [Next]_vars => TypeOK' /\ BodyOpen'
  <2> SUFFICES ASSUME TypeOK, BodyOpen, [Next]_vars PROVE TypeOK' /\ BodyOpen'
    OBVIOUS
  <2> USE DEF AtFileScope
  <2>1. ASSUME NEW f \in Fun, NEW c \in Class, NEW inline \in BOOLEAN, Declare(f, c, inline)
        PROVE  TypeOK' /\ BodyOpen'
    <3>1. pc # "function" /\ isinlining' = isinlining
      BY <2>1 DEF Declare
    <3>2. QED
      BY <2>1, <3>1, DeclareTypes DEF BodyOpen
  <2>2. ASSUME NEW f \in Fun, NEW c \in Class, NEW simple \in BOOLEAN, NEW frame \in Frames,
               DefineInline(f, c, simple, frame)
        PROVE  TypeOK' /\ BodyOpen'
    <3>1. frame \in BOOLEAN
      BY InlineAssumption
    <3>2. pc' = "function" /\ cifun' = f
      BY <2>2 DEF DefineInline
    <3>3. body'[f].there
      BY <2>2, <3>1, DefineInlineDoes
    <3>4. TypeOK'
      BY <2>2, <3>1, DefineInlineTypes
    <3>5. QED
      BY <3>2, <3>3, <3>4 DEF BodyOpen
  <2>3. ASSUME NEW f \in Fun \cup {NoFun}, NEW c \in Class, DefinePlain(f, c)
        PROVE  TypeOK' /\ BodyOpen'
    <3>1. pc # "function" /\ isinlining' = isinlining
      BY <2>3 DEF DefinePlain, inlvars
    <3>2. QED
      BY <2>3, <3>1, DefinePlainTypes DEF BodyOpen
  <2>4. ASSUME NEW g \in Fun, Address(g) PROVE TypeOK' /\ BodyOpen'
    <3>1. isinlining' = isinlining /\ cifun' = cifun /\ (pc = "function" => pc' = pc)
      BY <2>4 DEF Address, Say
    <3>2. isinlining => cifun \in Fun
      BY DEF TypeOK
    <3>3. isinlining => body'[cifun].there
      <4>1. Stays(body, body')
        BY <2>4, AddressStays
      <4>2. QED
        BY <3>2, <4>1 DEF BodyOpen, Stays
    <3>4. QED
      BY <2>4, <3>1, <3>3, AddressTypes DEF BodyOpen
  <2>5. ASSUME NEW g \in Fun, Call(g) PROVE TypeOK' /\ BodyOpen'
    <3>1. isinlining' = isinlining /\ cifun' = cifun /\ pc' = pc
      BY <2>5 DEF Call, Say
    <3>2. isinlining => cifun \in Fun
      BY DEF TypeOK
    <3>3. isinlining => body'[cifun].there
      <4>1. Stays(body, body')
        BY <2>5, CallStays
      <4>2. QED
        BY <3>2, <4>1 DEF BodyOpen, Stays
    <3>4. QED
      BY <2>5, <3>1, <3>3, CallTypes DEF BodyOpen
  <2>6. CASE ftnend
    <3>1. isinlining' = FALSE
      BY <2>6 DEF ftnend
    <3>2. QED
      BY <2>6, <3>1, ftnendTypes DEF BodyOpen
  <2>7. CASE inline_prtout
    <3>1. pc # "function" /\ isinlining' = isinlining
      BY <2>7 DEF inline_prtout
    <3>2. QED
      BY <2>7, <3>1, PrtoutTypes DEF BodyOpen
  <2>8. CASE Round
    BY <2>8, TypeParts DEF Round, BodyOpen, ListOK, RestOK, symvars, inlvars, seen
  <2>9. CASE UNCHANGED vars
    BY <2>9, TypeParts DEF BodyOpen, ListOK, RestOK, vars, symvars, inlvars, prtvars, seen
  <2>10. QED
    BY <2>1, <2>2, <2>3, <2>4, <2>5, <2>6, <2>7, <2>8, <2>9 DEF Next, EndOfFile
<1>3. QED
  BY <1>1, <1>2, PTL DEF Spec

-----------------------------------------------------------------------------
(* The inductive invariant of what is written out.  Marks, bodies and the  *)
(* list tell the truth: WRITTEN is set when a function was written, an     *)
(* inline function was declared, and what is on the list is there for a    *)
(* reason; ...                                                             *)
Filed ==
  /\ \A f \in Fun : "WRITTEN" \in flags[f] => written[f] > 0
  /\ \A f \in SINLINE : sclass[f] # "UNDEF"
  /\ \A f \in Fun : body[f].there => f \in SINLINE
  /\ \A f \in Fun : body[f].names # {} => body[f].there
  /\ \A f \in ToSet(ipole) : "REFD" \in flags[f] \/ body[f].there

(* ... what is named was declared; ...                                     *)
Declared ==
  /\ \A g \in needs : sclass[g] # "UNDEF"
  /\ \A f \in Fun : \A g \in body[f].names : sclass[g] # "UNDEF"

(* ... a function is due, once it is named, if it is or may yet become one *)
(* that must be written because it is named: static, or extern without a   *)
(* body, which a definition can make static; ...                           *)
Due(g) ==
  /\ g \in SINLINE
  /\ sclass[g] \in {"STATIC", "USTATIC"} \/ (sclass[g] = "EXTERN" /\ ~ body[g].there)

InHand(g) == "REFD" \in flags[g] \/ written[g] > 0

(* ... what code that was written names is in hand if it is due; ...       *)
NeedsMarked == \A g \in needs : Due(g) => InHand(g)

(* ... what saved code names and is due has its record there, or is in     *)
(* hand already; ...                                                       *)
NamesKept ==
  \A f \in Fun : \A g \in body[f].names : Due(g) => g \in ToSet(body[f].refs) \/ InHand(g)

(* ... a function with an external definition is in hand when its body is  *)
(* complete; ...                                                           *)
ExternMarked ==
  \A f \in Fun : body[f].there /\ sclass[f] = "EXTDEF" /\ ~ (isinlining /\ f = cifun) => InHand(f)

(* ... and while inline_prtout has found nothing, all there is to write is *)
(* in the rest of the list; after it there is nothing.                     *)
NoneLeft ==
  /\ pc = "prtout" /\ ~ gotone => \A f \in Fun : ToWrite(f) => f \in ToSet(w)
  /\ pc = "flushed" => \A f \in Fun : ~ ToWrite(f)

Promise == BodyOpen /\ Filed /\ Declared /\ NeedsMarked /\ NamesKept /\ ExternMarked /\ NoneLeft

(* A step leaves declared what was declared and in hand what was in hand,  *)
(* and makes nothing due that was not, unless it is in hand.               *)
Steady ==
  \A g \in Fun :
    /\ InHand(g) => InHand(g)'
    /\ sclass[g] # "UNDEF" => sclass'[g] # "UNDEF" /\ (Due(g)' => Due(g) \/ InHand(g)')

(* Then only what the step itself names has to be looked at.               *)
LEMMA NamesTold ==
  ASSUME TypeOK, Declared, NeedsMarked, NamesKept, TypeOK',
         Steady,
         \A g \in needs' : g \in needs \/ (sclass'[g] # "UNDEF" /\ (Due(g)' => InHand(g)')),
         \A f \in Fun : \A g \in body'[f].names :
            \/ g \in body[f].names /\ (g \in ToSet(body[f].refs) => g \in ToSet(body'[f].refs))
            \/ sclass'[g] # "UNDEF" /\ (Due(g)' => g \in ToSet(body'[f].refs) \/ InHand(g)')
  PROVE  Declared' /\ NeedsMarked' /\ NamesKept'
<1>1. needs \subseteq Fun /\ needs' \subseteq Fun
  BY DEF TypeOK
<1>2. \A f \in Fun : body[f].names \subseteq Fun /\ body'[f].names \subseteq Fun
  BY TypeParts DEF ListOK, Body
<1>3. ASSUME NEW g \in needs'
      PROVE  sclass'[g] # "UNDEF" /\ (Due(g)' => InHand(g)')
  BY <1>1, <1>3 DEF Steady, Declared, NeedsMarked
<1>4. ASSUME NEW f \in Fun, NEW g \in body'[f].names
      PROVE  sclass'[g] # "UNDEF" /\ (Due(g)' => g \in ToSet(body'[f].refs) \/ InHand(g)')
  <2>1. g \in Fun
    BY <1>2
  <2>2. CASE g \in body[f].names /\ (g \in ToSet(body[f].refs) => g \in ToSet(body'[f].refs))
    BY <2>1, <2>2 DEF Steady, Declared, NamesKept
  <2>3. QED
    BY <2>2
<1>5. QED
  BY <1>3, <1>4 DEF Declared, NeedsMarked, NamesKept

(* What is said keeps the promises if each function it names is among      *)
(* those it tells of, or in hand, or not due.                              *)
LEMMA SayPromise ==
  ASSUME TypeOK, TypeOK', Promise, NEW gs \in Seq(Fun), NEW names \in SUBSET Fun, NEW frame \in BOOLEAN,
         Say(gs, names, frame),
         IF pc = "function" THEN pc' = pc ELSE pc' = "file",
         \A g \in names : sclass[g] # "UNDEF" /\ (Due(g) => g \in ToSet(gs) \/ InHand(g))
  PROVE  Promise'
<1>1. /\ Send(gs, names, frame)
      /\ UNCHANGED <<sclass, SINLINE, isinlining, cifun, written>>
  BY DEF Say, symvars
<1>2. ListOK /\ ListOK'
  BY TypeParts
<1>3. NoneLeft'
  <2>1. pc' \notin {"prtout", "flushed"}
    OBVIOUS
  <2>2. QED
    BY <2>1 DEF NoneLeft
<1>4. CASE isinlining
  <2>1. PICK RS \in SUBSET Fun :
           /\ IsTold(RS, gs, sclass')
           /\ UNCHANGED <<ipole, needs>>
           /\ Saved(cifun, RS, names, body, body')
           /\ Kept(flags, flags')
    BY <1>1, <1>4, SendSaves
  <2>2. cifun \in Fun /\ pc = "function" /\ body[cifun].there
    BY <1>4 DEF TypeOK, Promise, BodyOpen
  <2>3. \A f \in Fun : body'[f].there = body[f].there
    BY <2>1 DEF Saved
  <2>4. BodyOpen'
    BY <1>1, <2>2, <2>3 DEF BodyOpen
  <2>5. Filed'
    <3>1. \A f \in Fun : "WRITTEN" \in flags'[f] => written'[f] > 0
      BY <1>1, <2>1 DEF Promise, Filed, Kept
    <3>2. \A f \in Fun : body'[f].names # {} => body'[f].there
      BY <2>1, <2>2, <2>3 DEF Promise, Filed, Saved
    <3>3. \A f \in ToSet(ipole') : "REFD" \in flags'[f] \/ body'[f].there
      <4>1. ToSet(ipole') \subseteq Fun
        BY <1>2 DEF ListOK, ToSet
      <4>2. QED
        BY <2>1, <2>3, <4>1 DEF Promise, Filed, Kept
    <3>4. QED
      BY <1>1, <2>3, <3>1, <3>2, <3>3 DEF Promise, Filed
  <2>6. ExternMarked'
    BY <1>1, <2>1, <2>3 DEF Promise, ExternMarked, InHand, Kept
  <2>7. Steady
    BY <1>1, <2>1, <2>3 DEF Steady, InHand, Due, Kept
  <2>8. ASSUME NEW f \in Fun, NEW g \in body'[f].names
        PROVE  \/ g \in body[f].names /\ (g \in ToSet(body[f].refs) => g \in ToSet(body'[f].refs))
               \/ sclass'[g] # "UNDEF" /\ (Due(g)' => g \in ToSet(body'[f].refs) \/ InHand(g)')
    <3>1. CASE f # cifun
      BY <2>1, <3>1 DEF Saved
    <3>2. CASE f = cifun
      <4>1. /\ ToSet(body'[f].refs) = ToSet(body[f].refs) \cup RS
            /\ body'[f].names = body[f].names \cup names
        BY <2>1, <3>2 DEF Saved
      <4>2. CASE g \in body[f].names
        BY <4>1, <4>2
      <4>3. CASE g \in names
        <5>1. sclass[g] # "UNDEF" /\ (Due(g) => g \in ToSet(gs) \/ InHand(g))
          BY <4>3
        <5>2. g \in Fun /\ (Due(g)' => Due(g)) /\ (InHand(g) => InHand(g)')
          BY <1>1, <2>1, <2>3, <4>3 DEF Due, InHand, Kept
        <5>3. Due(g)' /\ g \in ToSet(gs) => g \in RS
          BY <1>1, <2>1 DEF Due, IsTold
        <5>4. QED
          BY <1>1, <4>1, <5>1, <5>2, <5>3
      <4>4. QED
        BY <4>1, <4>2, <4>3
    <3>3. QED
      BY <3>1, <3>2
  <2>9. Declared' /\ NeedsMarked' /\ NamesKept'
    BY <2>1, <2>7, <2>8, NamesTold DEF Promise
  <2>10. QED
    BY <1>3, <2>4, <2>5, <2>6, <2>9 DEF Promise
<1>5. CASE ~ isinlining
  <2>1. PICK RS \in SUBSET Fun :
           /\ IsTold(RS, gs, sclass')
           /\ body' = body
           /\ needs' = needs \cup names
           /\ Noted(RS, ipole, flags, ipole', flags')
    BY <1>1, <1>5, SendWrites
  <2>2. \A f \in Fun : /\ "REFD" \in flags[f] => "REFD" \in flags'[f]
                       /\ "WRITTEN" \in flags'[f] <=> "WRITTEN" \in flags[f]
    BY <2>1 DEF Noted
  <2>3. BodyOpen'
    BY <1>1, <1>5 DEF BodyOpen
  <2>4. Filed'
    <3>1. \A f \in ToSet(ipole') : "REFD" \in flags'[f] \/ body'[f].there
      <4>1. ToSet(ipole') = ToSet(ipole) \cup RS /\ ToSet(ipole) \subseteq Fun
        <5>1. ToSet(ipole') = ToSet(ipole) \cup RS
          BY <2>1 DEF Noted
        <5>2. ToSet(ipole) \subseteq Fun
          BY <1>2 DEF ListOK, ToSet
        <5>3. QED
          BY <5>1, <5>2
      <4>2. \A f \in RS : "REFD" \in flags'[f]
        BY <2>1 DEF Noted
      <4>3. QED
        BY <2>1, <2>2, <4>1, <4>2 DEF Promise, Filed
    <3>2. QED
      BY <1>1, <2>1, <2>2, <3>1 DEF Promise, Filed
  <2>5. ExternMarked'
    BY <1>1, <2>1, <2>2 DEF Promise, ExternMarked, InHand
  <2>6. Steady
    BY <1>1, <2>1, <2>2 DEF Steady, InHand, Due
  <2>7. ASSUME NEW g \in needs'
        PROVE  g \in needs \/ (sclass'[g] # "UNDEF" /\ (Due(g)' => InHand(g)'))
    <3>1. CASE g \in names
      <4>1. sclass[g] # "UNDEF" /\ (Due(g) => g \in ToSet(gs) \/ InHand(g))
        BY <3>1
      <4>2. g \in Fun /\ (Due(g)' => Due(g)) /\ (InHand(g) => InHand(g)')
        BY <1>1, <2>1, <2>2, <3>1 DEF Due, InHand
      <4>3. Due(g)' /\ g \in ToSet(gs) => g \in RS
        BY <1>1, <2>1 DEF Due, IsTold
      <4>4. g \in RS => InHand(g)'
        BY <2>1 DEF Noted, InHand
      <4>5. QED
        BY <1>1, <4>1, <4>2, <4>3, <4>4
    <3>2. QED
      BY <2>1, <3>1
  <2>8. Declared' /\ NeedsMarked' /\ NamesKept'
    BY <2>1, <2>6, <2>7, NamesTold DEF Promise
  <2>9. QED
    BY <1>3, <2>3, <2>4, <2>5, <2>8 DEF Promise
<1>6. QED
  BY <1>4, <1>5

LEMMA AddressPromise ==
  ASSUME TypeOK, TypeOK', Promise, NEW g \in Fun, Address(g)
  PROVE  Promise'
<1>1. PICK gs : gs = IF g \in SINLINE THEN <<g>> ELSE <<>>
  OBVIOUS
<1>2. gs \in Seq(Fun) /\ (g \in SINLINE => g \in ToSet(gs))
  BY <1>1 DEF ToSet
<1>3. /\ Say(gs, {g}, FALSE)
      /\ IF pc = "function" THEN pc' = pc ELSE pc' = "file"
      /\ sclass[g] # "UNDEF"
  BY <1>1 DEF Address, AtFileScope
<1>4. PICK names \in SUBSET Fun : names = {g}
  OBVIOUS
<1>5. \A h \in names : sclass[h] # "UNDEF" /\ (Due(h) => h \in ToSet(gs) \/ InHand(h))
  BY <1>2, <1>3, <1>4 DEF Due
<1>6. Say(gs, names, FALSE)
  BY <1>3, <1>4
<1>7. QED
  BY <1>2, <1>3, <1>5, <1>6, SayPromise

(* A call names the function, or what its body names.  If it does not tell *)
(* of the function, that is neither static nor off the list, so it is in   *)
(* hand.                                                                   *)
LEMMA CallPromise ==
  ASSUME TypeOK, TypeOK', Promise, NEW g \in Fun, Call(g)
  PROVE  Promise'
<1>1. pc = "function" /\ pc' = pc /\ sclass[g] # "UNDEF"
  BY DEF Call
<1>2. CASE Copied(g)
  <2>1. Say(body[g].refs, body[g].names, body[g].frame)
    BY <1>2 DEF Call
  <2>2. body[g].refs \in Seq(Fun) /\ body[g].names \in SUBSET Fun /\ body[g].frame \in BOOLEAN
    BY TypeParts DEF ListOK, Body
  <2>3. \A h \in body[g].names : sclass[h] # "UNDEF" /\ (Due(h) => h \in ToSet(body[g].refs) \/ InHand(h))
    BY DEF Promise, Declared, NamesKept
  <2>4. QED
    BY <1>1, <2>1, <2>2, <2>3, SayPromise
<1>3. CASE ~ Copied(g)
  <2>1. PICK gs : gs = IF Told(g) THEN <<g>> ELSE <<>>
    OBVIOUS
  <2>2. gs \in Seq(Fun) /\ (Told(g) => g \in ToSet(gs))
    BY <2>1 DEF ToSet
  <2>3. Say(gs, {g}, FALSE)
    BY <1>3, <2>1 DEF Call
  <2>4. Due(g) => Told(g) \/ InHand(g)
    BY DEF Due, Told, InHand, Promise, Filed
  <2>5. PICK names \in SUBSET Fun : names = {g}
    OBVIOUS
  <2>6. \A h \in names : sclass[h] # "UNDEF" /\ (Due(h) => h \in ToSet(gs) \/ InHand(h))
    BY <1>1, <2>2, <2>4, <2>5
  <2>7. Say(gs, names, FALSE)
    BY <2>3, <2>5
  <2>8. QED
    BY <1>1, <2>2, <2>6, <2>7, SayPromise
<1>4. QED
  BY <1>2, <1>3

(* A declaration makes no function static that was not, and gives an       *)
(* external definition only where inline_ref is told (Promoted).           *)
LEMMA DeclaredAgain ==
  ASSUME NEW scl \in Classes, scl # "UNDEF", NEW c \in Class, NEW inline \in BOOLEAN,
         NEW class, class = uclass(c, inline), ~ Mismatch(scl, class),
         NEW new, new = Becomes(scl, class)
  PROVE  /\ new # "UNDEF"
         /\ new \in {"STATIC", "USTATIC"} => scl \in {"STATIC", "USTATIC"}
         /\ new = "EXTERN" => scl = "EXTERN"
         /\ new = "EXTDEF" => scl = "EXTDEF" \/ Promoted(scl, class)
         /\ Promoted(scl, class) => new = "EXTDEF"
<1>1. class \in {"SNULL", "EXTERN", "USTATIC"}
  BY DEF uclass, Class
<1>2. QED
  BY <1>1 DEF Mismatch, Becomes, Promoted, Classes

(* A definition may make an extern function static, which it may not when  *)
(* it is merely declared.                                                  *)
LEMMA DefinedAfter ==
  ASSUME NEW scl \in Classes, scl # "UNDEF", NEW class \in {"SNULL", "STATIC", "EXTDEF"},
         ~ Mismatch(scl, class), NEW new, new = Becomes(scl, class)
  PROVE  /\ new # "UNDEF"
         /\ new \in {"STATIC", "USTATIC"} => scl \in {"STATIC", "USTATIC", "EXTERN"}
         /\ new = "EXTERN" => scl = "EXTERN"
  BY DEF Mismatch, Becomes, Promoted, Classes

LEMMA FirstDeclared ==
  ASSUME NEW c \in Class, NEW inline \in BOOLEAN
  PROVE  /\ Becomes("UNDEF", uclass(c, inline)) # "UNDEF"
         /\ Becomes("UNDEF", IF c = "EXTERN" THEN "EXTDEF" ELSE c) # "UNDEF"
         /\ ~ Promoted("UNDEF", uclass(c, inline))
<1>1. uclass(c, inline) \in {"SNULL", "EXTERN", "USTATIC"}
  BY DEF uclass, Class
<1>2. (IF c = "EXTERN" THEN "EXTDEF" ELSE c) \in {"SNULL", "STATIC", "EXTDEF"}
  BY DEF Class
<1>3. \A class : Becomes("UNDEF", class) = class /\ ~ Promoted("UNDEF", class)
  BY DEF Becomes, Promoted
<1>4. QED
  BY <1>1, <1>2, <1>3

LEMMA DeclarePromise ==
  ASSUME ~ Unannounced, TypeOK, TypeOK', Promise,
         NEW f \in Fun, NEW c \in Class, NEW inline \in BOOLEAN, Declare(f, c, inline)
  PROVE  Promise'
<1>1. PICK class : class = uclass(c, inline)
  OBVIOUS
<1>2. /\ AtFileScope
      /\ inline => sclass[f] = "UNDEF" \/ f \in SINLINE
      /\ SINLINE' = IF inline THEN SINLINE \cup {f} ELSE SINLINE
      /\ sclass[f] # "UNDEF" => ~ Mismatch(sclass[f], class)
      /\ sclass' = [sclass EXCEPT ![f] = Becomes(sclass[f], class)]
      /\ IF Promoted(sclass[f], class) THEN Send(<<f>>, {}, FALSE) /\ pc' = "file"
         ELSE UNCHANGED <<ipole, flags, body, needs, pc>>
      /\ UNCHANGED <<isinlining, cifun, written>>
  BY <1>1 DEF Declare
<1>3. RestOK /\ ListOK /\ RestOK' /\ ListOK'
  BY TypeParts
<1>4. ~ isinlining /\ ~ isinlining' /\ pc # "prtout"
  BY <1>2 DEF Promise, BodyOpen, AtFileScope
<1>5. /\ sclass[f] \in Classes
      /\ sclass'[f] = Becomes(sclass[f], class)
      /\ \A g \in Fun \ {f} : sclass'[g] = sclass[g]
      /\ f \in SINLINE' => f \in SINLINE \/ sclass[f] = "UNDEF"
      /\ SINLINE' \ {f} = SINLINE \ {f} /\ SINLINE \subseteq SINLINE'
  BY <1>2, <1>3 DEF RestOK
<1>6. sclass[f] # "UNDEF" =>
         /\ sclass'[f] # "UNDEF"
         /\ sclass'[f] \in {"STATIC", "USTATIC"} => sclass[f] \in {"STATIC", "USTATIC"}
         /\ sclass'[f] = "EXTERN" => sclass[f] = "EXTERN"
         /\ sclass'[f] = "EXTDEF" => sclass[f] = "EXTDEF" \/ Promoted(sclass[f], class)
         /\ Promoted(sclass[f], class) => sclass'[f] = "EXTDEF"
  BY <1>1, <1>2, <1>5, DeclaredAgain
<1>7. sclass'[f] # "UNDEF" /\ (sclass[f] = "UNDEF" => ~ Promoted(sclass[f], class))
  BY <1>1, <1>5, <1>6, FirstDeclared
<1>8. /\ body' = body /\ needs' = needs
      /\ \A g \in Fun : /\ "REFD" \in flags[g] => "REFD" \in flags'[g]
                        /\ "WRITTEN" \in flags'[g] => "WRITTEN" \in flags[g]
      /\ \A g \in ToSet(ipole') : "REFD" \in flags'[g] \/ g \in ToSet(ipole)
      /\ Promoted(sclass[f], class) => "REFD" \in flags'[f]
      /\ IF Promoted(sclass[f], class) THEN pc' = "file" ELSE UNCHANGED <<flags, body, pc>>
  <2>1. CASE Promoted(sclass[f], class)
    <3>1. PICK gs, names : gs = <<f>> /\ names = {}
      OBVIOUS
    <3>2. gs \in Seq(Fun) /\ f \in ToSet(gs) /\ names \in SUBSET Fun
      BY <3>1 DEF ToSet
    <3>3. Send(gs, names, FALSE)
      BY <1>2, <2>1, <3>1
    <3>4. PICK RS \in SUBSET Fun :
             /\ IsTold(RS, gs, sclass')
             /\ body' = body
             /\ needs' = needs \cup names
             /\ Noted(RS, ipole, flags, ipole', flags')
      BY <1>4, <3>2, <3>3, SendWrites
    <3>5. f \in RS
      BY <1>6, <1>7, <2>1, <3>2, <3>4 DEF IsTold
    <3>6. needs' = needs
      BY <3>1, <3>4
    <3>7. ToSet(ipole') = ToSet(ipole) \cup RS
      BY <3>4 DEF Noted
    <3>8. QED
      BY <1>2, <2>1, <3>4, <3>5, <3>6, <3>7 DEF Noted
  <2>2. CASE ~ Promoted(sclass[f], class)
    BY <1>2, <2>2
  <2>3. QED
    BY <2>1, <2>2
<1>9. BodyOpen'
  BY <1>4 DEF BodyOpen
<1>10. Filed'
  <2>1. \A g \in SINLINE' : sclass'[g] # "UNDEF"
    BY <1>3, <1>5, <1>7 DEF Promise, Filed, RestOK
  <2>2. \A g \in ToSet(ipole') : "REFD" \in flags'[g] \/ body'[g].there
    <3>1. ToSet(ipole) \subseteq Fun
      BY <1>3 DEF ListOK, ToSet
    <3>2. QED
      BY <1>8, <3>1 DEF Promise, Filed
  <2>3. \A g \in Fun : "WRITTEN" \in flags'[g] => written'[g] > 0
    BY <1>2, <1>8 DEF Promise, Filed
  <2>4. QED
    BY <1>5, <1>8, <2>1, <2>2, <2>3 DEF Promise, Filed
<1>11. \A g \in Fun : InHand(g) => InHand(g)'
  BY <1>2, <1>8 DEF InHand
<1>12. Steady
  BY <1>5, <1>6, <1>8, <1>11 DEF Steady, Due
<1>13. Declared' /\ NeedsMarked' /\ NamesKept'
  BY <1>8, <1>12, NamesTold DEF Promise
<1>14. ExternMarked'
  <2>1. ASSUME NEW g \in Fun, body'[g].there, sclass'[g] = "EXTDEF"
        PROVE  InHand(g)'
    <3>1. CASE g # f
      BY <1>4, <1>5, <1>8, <1>11, <2>1, <3>1 DEF Promise, ExternMarked
    <3>2. CASE g = f
      <4>1. sclass[f] # "UNDEF"
        BY <1>8, <2>1, <3>2 DEF Promise, Filed
      <4>2. CASE sclass[f] = "EXTDEF"
        BY <1>4, <1>8, <1>11, <2>1, <3>2, <4>2 DEF Promise, ExternMarked
      <4>3. CASE Promoted(sclass[f], class)
        BY <1>8, <3>2, <4>3 DEF InHand
      <4>4. QED
        BY <1>6, <2>1, <3>2, <4>1, <4>2, <4>3
    <3>3. QED
      BY <3>1, <3>2
  <2>2. QED
    BY <2>1 DEF ExternMarked
<1>15. NoneLeft'
  <2>1. CASE pc' = "file"
    BY <2>1 DEF NoneLeft
  <2>2. CASE UNCHANGED <<flags, body, pc>>
    BY <1>4, <2>2 DEF Promise, NoneLeft, ToWrite, DLIST_ISEMPTY
  <2>3. QED
    BY <1>8, <2>1, <2>2
<1>16. QED
  BY <1>9, <1>10, <1>13, <1>14, <1>15 DEF Promise

LEMMA DefineInlinePromise ==
  ASSUME ~ Unannounced, TypeOK, TypeOK', Promise,
         NEW f \in Fun, NEW c \in Class, NEW simple \in BOOLEAN,
         NEW frame \in BOOLEAN, DefineInline(f, c, simple, frame)
  PROVE  Promise'
<1>1. PICK class : class = IF c = "EXTERN" THEN "EXTDEF" ELSE c
  OBVIOUS
<1>2. /\ AtFileScope
      /\ DLIST_ISEMPTY(f)
      /\ sclass[f] = "UNDEF" \/ f \in SINLINE
      /\ sclass[f] # "UNDEF" => ~ Mismatch(sclass[f], class)
      /\ SINLINE' = SINLINE \cup {f}
      /\ sclass' = [sclass EXCEPT ![f] = Becomes(sclass[f], class)]
      /\ isinlining' = TRUE /\ cifun' = f /\ pc' = "function"
      /\ UNCHANGED <<needs, written>>
  BY <1>1 DEF DefineInline, seen
<1>3. RestOK /\ ListOK /\ RestOK' /\ ListOK'
  BY TypeParts
<1>4. ~ isinlining
  BY <1>2 DEF Promise, BodyOpen, AtFileScope
<1>5. /\ ToSet(ipole') = ToSet(ipole) \cup {f}
      /\ \A g \in Fun \ {f} : body'[g] = body[g]
      /\ body'[f].there /\ body'[f].names = {}
      /\ \A g \in Fun \ {f} : flags'[g] \subseteq flags[g]
      /\ \A g \in Fun, m \in {"REFD", "WRITTEN"} : m \in flags[g] => m \in flags'[g]
      /\ "WRITTEN" \in flags'[f] => "WRITTEN" \in flags[f]
  BY DefineInlineDoes
<1>6. /\ sclass[f] \in Classes
      /\ sclass'[f] = Becomes(sclass[f], class)
      /\ \A g \in Fun \ {f} : sclass'[g] = sclass[g]
      /\ class \in {"SNULL", "STATIC", "EXTDEF"}
  BY <1>1, <1>2, <1>3 DEF RestOK, Class
<1>7. sclass[f] # "UNDEF" =>
         /\ sclass'[f] # "UNDEF"
         /\ sclass'[f] \in {"STATIC", "USTATIC"} => sclass[f] \in {"STATIC", "USTATIC", "EXTERN"}
         /\ sclass'[f] = "EXTERN" => sclass[f] = "EXTERN"
  BY <1>2, <1>6, DefinedAfter
<1>8. sclass'[f] # "UNDEF"
  BY <1>1, <1>6, <1>7, FirstDeclared
<1>9. BodyOpen'
  BY <1>2, <1>5 DEF BodyOpen
<1>10. Filed'
  <2>1. \A g \in SINLINE' : sclass'[g] # "UNDEF"
    BY <1>2, <1>3, <1>6, <1>8 DEF Promise, Filed, RestOK
  <2>2. \A g \in ToSet(ipole') : "REFD" \in flags'[g] \/ body'[g].there
    <3>1. ToSet(ipole) \subseteq Fun
      BY <1>3 DEF ListOK, ToSet
    <3>2. ASSUME NEW g \in ToSet(ipole) \ {f}
          PROVE  "REFD" \in flags'[g] \/ body'[g].there
      BY <1>5, <3>1 DEF Promise, Filed
    <3>3. QED
      BY <1>5, <3>2
  <2>3. \A g \in Fun : "WRITTEN" \in flags'[g] => written'[g] > 0
    BY <1>2, <1>5 DEF Promise, Filed
  <2>4. /\ \A g \in Fun : body'[g].there => g \in SINLINE'
        /\ \A g \in Fun : body'[g].names # {} => body'[g].there
    BY <1>2, <1>5 DEF Promise, Filed
  <2>5. QED
    BY <2>1, <2>2, <2>3, <2>4 DEF Filed
<1>11. \A g \in Fun : InHand(g) => InHand(g)'
  BY <1>2, <1>5 DEF InHand
<1>12. Steady
  <2>1. ~ body[f].there
    BY <1>2 DEF DLIST_ISEMPTY
  <2>2. ASSUME NEW g \in Fun \ {f}
        PROVE  /\ sclass[g] # "UNDEF" => sclass'[g] # "UNDEF"
               /\ Due(g)' => Due(g)
    BY <1>2, <1>5, <1>6 DEF Due
  <2>3. ASSUME sclass[f] # "UNDEF", Due(f)'
        PROVE  Due(f)
    BY <1>2, <1>5, <1>7, <2>1, <2>3 DEF Due
  <2>4. QED
    BY <1>8, <1>11, <2>2, <2>3 DEF Steady
<1>13. Declared' /\ NeedsMarked' /\ NamesKept'
  <2>1. \A g \in Fun : \A h \in body'[g].names :
           h \in body[g].names /\ (h \in ToSet(body[g].refs) => h \in ToSet(body'[g].refs))
    BY <1>5
  <2>2. \A h \in needs' : h \in needs
    BY <1>2
  <2>3. QED
    BY <1>12, <2>1, <2>2, NamesTold DEF Promise
<1>14. ExternMarked'
  BY <1>2, <1>4, <1>5, <1>6, <1>11 DEF Promise, ExternMarked
<1>15. NoneLeft'
  BY <1>2 DEF NoneLeft
<1>16. QED
  BY <1>9, <1>10, <1>13, <1>14, <1>15 DEF Promise

LEMMA DefinePlainPromise ==
  ASSUME TypeOK, TypeOK', Promise, NEW f \in Fun \cup {NoFun}, NEW c \in Class, DefinePlain(f, c)
  PROVE  Promise'
<1>1. /\ AtFileScope /\ pc' = "function"
      /\ UNCHANGED <<SINLINE, ipole, flags, body, isinlining, cifun, needs>>
  BY DEF DefinePlain, inlvars
<1>2. ~ isinlining
  BY <1>1 DEF Promise, BodyOpen, AtFileScope
<1>3. RestOK /\ ListOK
  BY TypeParts
<1>4. /\ \A g \in Fun : written'[g] = written[g] \/ written'[g] > 0
      /\ \A g \in Fun :
           \/ sclass'[g] = sclass[g]
           \/ /\ written'[g] > 0 /\ sclass'[g] # "UNDEF"
  <2>1. CASE f = NoFun
    BY <1>3, <2>1 DEF DefinePlain
  <2>2. CASE f # NoFun
    <3>1. PICK class \in {"STATIC", "EXTDEF"} :
            /\ sclass[f] # "UNDEF" => ~ Mismatch(sclass[f], class)
            /\ sclass' = [sclass EXCEPT ![f] = Becomes(sclass[f], class)]
            /\ written' = [written EXCEPT ![f] = @ + 1]
      BY <2>2 DEF DefinePlain
    <3>2. f \in Fun /\ sclass[f] \in Classes /\ written[f] \in Nat
      BY <1>3, <2>2 DEF RestOK
    <3>3. Becomes(sclass[f], class) # "UNDEF"
      BY <3>2 DEF Becomes, Classes
    <3>4. QED
      BY <1>3, <3>1, <3>2, <3>3 DEF RestOK
  <2>3. QED
    BY <2>1, <2>2
<1>5. BodyOpen' /\ NoneLeft'
  BY <1>1, <1>2 DEF BodyOpen, NoneLeft
<1>6. Filed'
  BY <1>1, <1>3, <1>4 DEF Promise, Filed, RestOK
<1>7. Steady
  BY <1>1, <1>4 DEF Steady, InHand, Due
<1>8. Declared' /\ NeedsMarked' /\ NamesKept'
  BY <1>1, <1>7, NamesTold DEF Promise
<1>9. ExternMarked'
  BY <1>1, <1>2, <1>4 DEF Promise, ExternMarked, InHand
<1>10. QED
  BY <1>5, <1>6, <1>8, <1>9 DEF Promise

(* A function that inline_end leaves EXTDEF is marked at once.             *)
LEMMA ftnendPromise ==
  ASSUME TypeOK, TypeOK', Promise, ftnend
  PROVE  Promise'
<1>1. /\ isinlining' = FALSE /\ w' = ipole /\ gotone' = FALSE /\ pc' = "prtout"
      /\ UNCHANGED <<SINLINE, ipole, body, cifun, needs, written>>
  BY DEF ftnend, seen
<1>2. RestOK /\ ListOK /\ RestOK' /\ ListOK'
  BY TypeParts
<1>3. PICK n : n = ClassAtEnd
  OBVIOUS
<1>4. CASE isinlining
  <2>1. /\ sclass' = [sclass EXCEPT ![cifun] = n]
        /\ flags' = IF n = "EXTDEF" THEN [flags EXCEPT ![cifun] = @ \cup {"REFD"}] ELSE flags
    BY <1>3, <1>4 DEF ftnend
  <2>2. cifun \in Fun /\ body[cifun].there /\ sclass[cifun] # "UNDEF"
    BY <1>2, <1>4 DEF RestOK, Promise, BodyOpen, Filed
  <2>3. /\ n # "UNDEF"
        /\ n \in {"STATIC", "USTATIC"} => sclass[cifun] \in {"STATIC", "USTATIC"}
    BY <1>3, <2>2 DEF ClassAtEnd
  <2>4. /\ sclass'[cifun] = n
        /\ \A g \in Fun \ {cifun} : sclass'[g] = sclass[g]
        /\ \A g \in Fun : flags[g] \subseteq flags'[g] /\ ("WRITTEN" \in flags'[g] => "WRITTEN" \in flags[g])
        /\ n = "EXTDEF" => "REFD" \in flags'[cifun]
    BY <1>2, <2>1, <2>2 DEF ListOK, RestOK
  <2>5. Filed'
    <3>1. ToSet(ipole) \subseteq Fun /\ SINLINE \subseteq Fun
      BY <1>2 DEF ListOK, RestOK, ToSet
    <3>2. \A g \in Fun : "WRITTEN" \in flags'[g] => written'[g] > 0
      BY <1>1, <2>4 DEF Promise, Filed
    <3>3. \A g \in SINLINE' : sclass'[g] # "UNDEF"
      BY <1>1, <2>3, <2>4, <3>1 DEF Promise, Filed
    <3>4. \A g \in ToSet(ipole') : "REFD" \in flags'[g] \/ body'[g].there
      BY <1>1, <2>4, <3>1 DEF Promise, Filed
    <3>5. QED
      BY <1>1, <3>2, <3>3, <3>4 DEF Promise, Filed
  <2>6. Steady
    BY <1>1, <2>2, <2>3, <2>4 DEF Steady, InHand, Due
  <2>7. Declared' /\ NeedsMarked' /\ NamesKept'
    BY <1>1, <2>6, NamesTold DEF Promise
  <2>8. ExternMarked'
    BY <1>1, <2>4 DEF Promise, ExternMarked, InHand
  <2>9. BodyOpen'
    BY <1>1 DEF BodyOpen
  <2>10. NoneLeft'
    BY <1>1, <1>2 DEF NoneLeft, ToWrite, ListOK
  <2>11. QED
    BY <2>5, <2>7, <2>8, <2>9, <2>10 DEF Promise
<1>5. CASE ~ isinlining
  <2>1. UNCHANGED <<sclass, flags>>
    BY <1>5 DEF ftnend
  <2>2. Filed' /\ Declared' /\ NeedsMarked' /\ NamesKept' /\ ExternMarked'
    BY <1>1, <1>5, <2>1
       DEF Promise, Filed, Declared, NeedsMarked, NamesKept, ExternMarked, InHand, Due
  <2>3. BodyOpen'
    BY <1>1 DEF BodyOpen
  <2>4. NoneLeft'
    BY <1>1, <1>2 DEF NoneLeft, ToWrite, ListOK
  <2>5. QED
    BY <2>2, <2>3, <2>4 DEF Promise
<1>6. QED
  BY <1>4, <1>5

(* Writing f makes its names needed and tells of its records, so NamesKept *)
(* of f becomes NeedsMarked.                                               *)
LEMMA PrtoutPromise ==
  ASSUME TypeOK, TypeOK', Promise, inline_prtout
  PROVE  Promise'
<1>1. /\ pc = "prtout" /\ w # <<>> /\ w' = Tail(w)
      /\ UNCHANGED <<SINLINE, body, isinlining, cifun, pc>>
  BY DEF inline_prtout
<1>2. RestOK /\ ListOK
  BY TypeParts
<1>3. ~ isinlining
  BY <1>1 DEF Promise, BodyOpen
<1>4. PICK f \in Fun : f = Head(w)
  BY <1>1, <1>2 DEF RestOK
<1>5. BodyOpen'
  BY <1>1, <1>3 DEF BodyOpen
<1>6. CASE ToWrite(f)
  <2>1. puto(f) /\ gotone' = TRUE
    BY <1>4, <1>6 DEF inline_prtout
  <2>2. PICK RS \in SUBSET Fun :
            /\ IsTold(RS, body[f].refs, sclass)
            /\ ipole' \in Seq(Fun) /\ IsInjective(ipole') /\ ToSet(ipole') = ToSet(ipole) \cup RS
            /\ flags' \in [Fun -> Flags]
            /\ \A g \in Fun : flags'[g] = flags[g] \cup (IF g \in RS THEN {"REFD"} ELSE {})
                                                   \cup (IF g = f THEN {"WRITTEN"} ELSE {})
            /\ needs' = needs \cup body[f].names /\ body[f].names \subseteq Fun
            /\ written' = [written EXCEPT ![f] = @ + 1]
            /\ sclass' = sclass
    BY <2>1, putoDoes
  <2>3. /\ \A g \in Fun : "REFD" \in flags[g] \/ g \in RS => "REFD" \in flags'[g]
        /\ \A g \in Fun : "WRITTEN" \in flags'[g] => "WRITTEN" \in flags[g] \/ g = f
        /\ \A g \in Fun : written[g] > 0 \/ g = f => written'[g] > 0
    BY <1>2, <2>2 DEF RestOK
  <2>4. \A g \in Fun : InHand(g) => InHand(g)'
    BY <2>3 DEF InHand
  <2>5. Filed'
    <3>1. ToSet(ipole) \subseteq Fun
      BY <1>2 DEF ListOK, ToSet
    <3>2. \A g \in ToSet(ipole') : "REFD" \in flags'[g] \/ body'[g].there
      BY <1>1, <2>2, <2>3, <3>1 DEF Promise, Filed
    <3>3. \A g \in Fun : "WRITTEN" \in flags'[g] => written'[g] > 0
      BY <2>3 DEF Promise, Filed
    <3>4. QED
      BY <1>1, <2>2, <3>2, <3>3 DEF Promise, Filed
  <2>6. Steady
    BY <1>1, <2>2, <2>4 DEF Steady, Due
  <2>7. ASSUME NEW g \in needs'
        PROVE  g \in needs \/ (sclass'[g] # "UNDEF" /\ (Due(g)' => InHand(g)'))
    <3>1. SUFFICES ASSUME g \in body[f].names
                   PROVE  sclass'[g] # "UNDEF" /\ (Due(g)' => InHand(g)')
      BY <2>2
    <3>2. /\ g \in Fun /\ sclass[g] # "UNDEF"
          /\ Due(g) => g \in ToSet(body[f].refs) \/ InHand(g)
      BY <2>2, <3>1 DEF Promise, Declared, NamesKept
    <3>3. Due(g)' => Due(g) /\ sclass[g] # "SNULL"
      BY <1>1, <2>2 DEF Due
    <3>4. g \in ToSet(body[f].refs) /\ sclass[g] # "SNULL" => g \in RS
      BY <2>2 DEF IsTold
    <3>5. g \in RS => InHand(g)'
      BY <2>3, <3>2 DEF InHand
    <3>6. QED
      BY <2>2, <2>4, <3>2, <3>3, <3>4, <3>5
  <2>8. Declared' /\ NeedsMarked' /\ NamesKept'
    BY <1>1, <2>6, <2>7, NamesTold DEF Promise
  <2>9. ExternMarked'
    BY <1>1, <1>3, <2>2, <2>4 DEF Promise, ExternMarked
  <2>10. NoneLeft'
    BY <1>1, <2>1 DEF NoneLeft
  <2>11. QED
    BY <1>5, <2>5, <2>8, <2>9, <2>10 DEF Promise
<1>7. CASE ~ ToWrite(f)
  <2>1. UNCHANGED <<sclass, flags, ipole, needs, written, gotone>>
    BY <1>4, <1>7 DEF inline_prtout
  <2>2. Filed' /\ Declared' /\ NeedsMarked' /\ NamesKept' /\ ExternMarked'
    BY <1>1, <2>1 DEF Promise, Filed, Declared, NeedsMarked, NamesKept, ExternMarked, InHand, Due
  <2>3. NoneLeft'
    <3>1. \A g \in ToSet(w) : g # f => g \in ToSet(Tail(w))
      BY <1>1, <1>2, <1>4, ToSetTail DEF RestOK
    <3>2. \A g \in Fun : ToWrite(g)' => ToWrite(g)
      BY <1>1, <2>1 DEF ToWrite, DLIST_ISEMPTY
    <3>3. QED
      BY <1>1, <1>7, <2>1, <3>1, <3>2 DEF Promise, NoneLeft
  <2>4. QED
    BY <1>5, <2>2, <2>3 DEF Promise
<1>8. QED
  BY <1>6, <1>7

(* A round that wrote nothing has seen the whole list.                     *)
LEMMA RoundPromise ==
  ASSUME TypeOK, Promise, Round
  PROVE  Promise'
<1>1. /\ pc = "prtout" /\ w = <<>>
      /\ w' = IF gotone THEN ipole ELSE <<>>
      /\ pc' = IF gotone THEN "prtout" ELSE "flushed"
      /\ gotone' = FALSE
      /\ UNCHANGED <<sclass, SINLINE, ipole, flags, body, isinlining, cifun, needs, written>>
  BY DEF Round, symvars, inlvars, seen
<1>2. BodyOpen'
  BY <1>1 DEF Promise, BodyOpen
<1>3. Filed' /\ Declared' /\ NeedsMarked' /\ NamesKept' /\ ExternMarked'
  BY <1>1 DEF Promise, Filed, Declared, NeedsMarked, NamesKept, ExternMarked, InHand, Due
<1>4. NoneLeft'
  <2>1. \A f \in Fun : ToWrite(f)' <=> ToWrite(f)
    BY <1>1 DEF ToWrite, DLIST_ISEMPTY
  <2>2. CASE gotone
    <3>1. \A f \in Fun : ToWrite(f) => f \in ToSet(ipole)
      BY TypeParts DEF ToWrite, ListOK
    <3>2. QED
      BY <1>1, <2>1, <2>2, <3>1 DEF NoneLeft
  <2>3. CASE ~ gotone
    <3>1. ToSet(w) = {}
      BY <1>1 DEF ToSet
    <3>2. QED
      BY <1>1, <2>1, <2>3, <3>1 DEF Promise, NoneLeft
  <2>4. QED
    BY <2>2, <2>3
<1>5. QED
  BY <1>2, <1>3, <1>4 DEF Promise

(* When inline_prtout has ended, every function with external linkage and  *)
(* every static one that is named by what was written has been written, if *)
(* the first declaration of an inline function says so (inline.c 60-389).  *)
THEOREM NothingLeftOut ==
  ASSUME ~ Unannounced
  PROVE  Spec => []NothingDangling
<1>1. Init => Promise
  <2> HAVE Init
  <2>1. ToSet(ipole) = {}
    BY DEF Init, ToSet
  <2>2. BodyOpen /\ Filed /\ Declared /\ NeedsMarked /\ NamesKept
    BY <2>1 DEF Init, BodyOpen, Filed, Declared, NeedsMarked, NamesKept, Empty
  <2>3. ExternMarked /\ NoneLeft
    BY DEF Init, ExternMarked, NoneLeft, ToWrite, Empty
  <2>4. QED
    BY <2>2, <2>3 DEF Promise
<1>2. TypeOK /\ TypeOK' /\ Promise /\ [Next]_vars => Promise'
  <2> SUFFICES ASSUME TypeOK, TypeOK', Promise, [Next]_vars PROVE Promise'
    OBVIOUS
  <2>1. ASSUME NEW f \in Fun, NEW c \in Class, NEW inline \in BOOLEAN, Declare(f, c, inline)
        PROVE  Promise'
    BY <2>1, DeclarePromise
  <2>2. ASSUME NEW f \in Fun, NEW c \in Class, NEW simple \in BOOLEAN, NEW frame \in Frames,
               DefineInline(f, c, simple, frame)
        PROVE  Promise'
    BY <2>2, DefineInlinePromise, InlineAssumption
  <2>3. ASSUME NEW f \in Fun \cup {NoFun}, NEW c \in Class, DefinePlain(f, c)
        PROVE  Promise'
    BY <2>3, DefinePlainPromise
  <2>4. ASSUME NEW g \in Fun, Address(g) PROVE Promise'
    BY <2>4, AddressPromise
  <2>5. ASSUME NEW g \in Fun, Call(g) PROVE Promise'
    BY <2>5, CallPromise
  <2>6. CASE ftnend
    BY <2>6, ftnendPromise
  <2>7. CASE inline_prtout
    BY <2>7, PrtoutPromise
  <2>8. CASE Round
    BY <2>8, RoundPromise
  <2>9. CASE UNCHANGED vars
    BY <2>9 DEF vars, symvars, inlvars, prtvars, seen, Promise, BodyOpen, Filed, Declared,
                NeedsMarked, NamesKept, ExternMarked, NoneLeft, InHand, Due, ToWrite, DLIST_ISEMPTY
  <2>10. QED
    BY <2>1, <2>2, <2>3, <2>4, <2>5, <2>6, <2>7, <2>8, <2>9 DEF Next, EndOfFile
<1>3. TypeOK /\ Promise => NothingDangling
  <2> SUFFICES ASSUME TypeOK, Promise, pc = "flushed", NEW f \in Fun, MustBeWritten(f)
               PROVE  written[f] > 0
    BY DEF NothingDangling
  <2>1. ~ isinlining /\ body[f].there /\ f \in SINLINE
    BY DEF Promise, BodyOpen, Filed, MustBeWritten
  <2>2. InHand(f)
    BY <2>1 DEF Promise, ExternMarked, NeedsMarked, MustBeWritten, Due
  <2>3. ~ ToWrite(f) /\ ~ DLIST_ISEMPTY(f)
    BY <2>1 DEF Promise, NoneLeft, DLIST_ISEMPTY
  <2>4. "REFD" \in flags[f] => "WRITTEN" \in flags[f]
    BY <2>3 DEF ToWrite
  <2>5. QED
    BY <2>2, <2>4 DEF InHand, Promise, Filed
<1>4. QED
  BY <1>1, <1>2, <1>3, TypeCorrect, PTL DEF Spec

-----------------------------------------------------------------------------
(* An element of the list that is written is one more function written.    *)
LEMMA WritingAdvances ==
  ASSUME TypeOK, inline_prtout, ToWrite(Head(w))
  PROVE  Unwritten' \subseteq Unwritten /\ Unwritten' # Unwritten
<1>1. w \in Seq(Fun) /\ w # <<>> /\ DOMAIN flags = Fun
  BY DEF TypeOK, inline_prtout
<1>2. PICK f \in Fun : f = Head(w)
  BY <1>1
<1>3. puto(f) /\ "WRITTEN" \notin flags[f]
  BY <1>2 DEF inline_prtout, ToWrite
<1>4. PICK told : flags' = [Mark(flags, told) EXCEPT ![f] = @ \cup {"WRITTEN"}]
  BY <1>3 DEF puto
<1>5. \A g \in Fun : "WRITTEN" \in flags'[g] <=> g = f \/ "WRITTEN" \in flags[g]
  BY <1>4, MarkKeeps
<1>6. QED
  BY <1>3, <1>5 DEF Unwritten

(* However long the list grows while it is run over, and whatever the      *)
(* functions written name, a step of inline_prtout writes a function that  *)
(* was not written, or ends a round, or leaves fewer elements of it: it    *)
(* starts over at most once for every inline function of the file.         *)
THEOREM RoundsAreFew == Spec => PrtoutAdvances
<1>1. ASSUME TypeOK, Next, pc = "prtout", pc' = "prtout", ~ UNCHANGED vars
      PROVE  \/ Unwritten' \subseteq Unwritten /\ Unwritten' # Unwritten
             \/ Unwritten' = Unwritten /\ gotone /\ ~ gotone'
             \/ UNCHANGED <<Unwritten, gotone>> /\ Len(w') < Len(w)
  <2>1. inline_prtout \/ Round
    BY <1>1 DEF Next, AtFileScope, Declare, DefineInline, DefinePlain, Address, Call,
                ftnend, EndOfFile
  <2>2. CASE Round
    <3>1. gotone /\ ~ gotone' /\ flags' = flags
      BY <1>1, <2>2 DEF Round, inlvars
    <3>2. QED
      BY <3>1 DEF Unwritten
  <2>3. CASE inline_prtout /\ ToWrite(Head(w))
    BY <1>1, <2>3, WritingAdvances
  <2>4. CASE inline_prtout /\ ~ ToWrite(Head(w))
    <3>1. flags' = flags /\ gotone' = gotone /\ w' = Tail(w)
      BY <2>4 DEF inline_prtout
    <3>2. w \in Seq(Fun) /\ w # <<>>
      BY <1>1, <2>4 DEF TypeOK, inline_prtout
    <3>3. Len(w') < Len(w)
      BY <3>1, <3>2
    <3>4. QED
      BY <3>1, <3>3 DEF Unwritten
  <2>5. QED
    BY <2>1, <2>2, <2>3, <2>4
<1>2. QED
  BY <1>1, TypeCorrect, PTL DEF Spec, PrtoutAdvances


=============================================================================
