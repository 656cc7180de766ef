---------------------------- MODULE CppCondProofs ----------------------------
(***************************************************************************)
(* Proofs about the conditional counters of the preprocessor, for every    *)
(* nesting depth and every include limit.                                  *)
(***************************************************************************)
EXTENDS CppCond, SequenceTheorems, TLAPS

CInv == TypeOK /\ CountersMatchGroups

-----------------------------------------------------------------------------
(* Facts about the stack of groups.                                        *)

LEMMA LengthMinusOne ==
  \A n \in Nat \ {0} : (IF 1 <= n - 1 THEN n - 1 - 1 + 1 ELSE 0) = n - 1
  OBVIOUS

LEMMA OuterFacts ==
  ASSUME NEW g \in Seq(Group), g # <<>>
  PROVE  /\ Len(g) \in Nat \ {0}
         /\ Inner(g) \in Group
         /\ Outer(g) \in Seq(Group)
         /\ Len(Outer(g)) = Len(g) - 1
         /\ \A i \in 1 .. Len(g) - 1 : Outer(g)[i] = g[i]
<1>1. Len(g) \in Nat \ {0}
  BY EmptySeq
<1>2. \A i \in 1 .. Len(g) : g[i] \in Group
  BY ElementOfSeq
<1>3. Inner(g) \in Group
  BY <1>1, <1>2 DEF Inner
<1>4. \A i \in 1 .. Len(g) - 1 : g[i] \in Group
  BY <1>1, <1>2
<1>5. /\ Outer(g) \in Seq(Group)
      /\ Len(Outer(g)) = IF 1 <= Len(g) - 1 THEN Len(g) - 1 - 1 + 1 ELSE 0
      /\ \A i \in 1 .. Len(g) - 1 - 1 + 1 : Outer(g)[i] = g[1 + i - 1]
  BY <1>1, <1>4, SubSeqProperties DEF Outer
<1>6. Len(Outer(g)) = Len(g) - 1
  BY <1>1, <1>5, LengthMinusOne
<1>7. \A i \in 1 .. Len(g) - 1 : i \in 1 .. Len(g) - 1 - 1 + 1 /\ 1 + i - 1 = i
  BY <1>1
<1>8. \A i \in 1 .. Len(g) - 1 : Outer(g)[i] = g[i]
  BY <1>5, <1>7
<1>9. QED
  BY <1>1, <1>3, <1>5, <1>6, <1>8

LEMMA AppendFacts ==
  ASSUME NEW g \in Seq(Group), NEW r \in Group
  PROVE  /\ Append(g, r) \in Seq(Group)
         /\ Len(Append(g, r)) = Len(g) + 1
         /\ \A i \in 1 .. Len(g) : Append(g, r)[i] = g[i]
         /\ Append(g, r)[Len(g) + 1] = r
  OBVIOUS

LEMMA GroupFields ==
  ASSUME NEW p \in BOOLEAN, NEW q \in BOOLEAN, NEW e \in Nat, NEW r,
         r = [on |-> p, taken |-> q, els |-> e]
  PROVE  /\ r \in Group
         /\ r.on <=> p
         /\ r.taken <=> q
         /\ r.els = e
  BY DEF Group

LEMMA OpenedFacts ==
  ASSUME NEW g \in Seq(Group), NEW c \in BOOLEAN
  PROVE  /\ Opened(g, c) \in Seq(Group)
         /\ Len(Opened(g, c)) = Len(g) + 1
         /\ \A i \in 1 .. Len(g) : Opened(g, c)[i] = g[i]
         /\ Opened(g, c)[Len(g) + 1].on <=> (AllOn(g) /\ c)
         /\ Opened(g, c)[Len(g) + 1].taken <=> (~ AllOn(g) \/ c)
         /\ Opened(g, c)[Len(g) + 1].els = 0
<1> DEFINE p == AllOn(g) /\ c
           q == ~ AllOn(g) \/ c
           r == [on |-> p, taken |-> q, els |-> 0]
<1>1. p \in BOOLEAN /\ q \in BOOLEAN
  OBVIOUS
<1>2. Opened(g, c) = Append(g, r)
  BY DEF Opened
<1> HIDE DEF p, q
<1>3. r \in Group /\ (r.on <=> p) /\ (r.taken <=> q) /\ r.els = 0
  BY <1>1, GroupFields
<1> HIDE DEF r
<1>4. /\ Opened(g, c) \in Seq(Group)
      /\ Len(Opened(g, c)) = Len(g) + 1
      /\ \A i \in 1 .. Len(g) : Opened(g, c)[i] = g[i]
      /\ Opened(g, c)[Len(g) + 1] = r
  BY <1>2, <1>3, AppendFacts
<1>5. QED
  BY <1>3, <1>4 DEF p, q

LEMMA SwitchedFacts ==
  ASSUME NEW g \in Seq(Group), g # <<>>, NEW c \in BOOLEAN, NEW e \in Nat
  PROVE  /\ Switched(g, c, e) \in Seq(Group)
         /\ Len(Switched(g, c, e)) = Len(g)
         /\ \A i \in 1 .. Len(g) - 1 : Switched(g, c, e)[i] = g[i]
         /\ Switched(g, c, e)[Len(g)].on <=> (~ g[Len(g)].taken /\ c)
         /\ Switched(g, c, e)[Len(g)].taken <=> (g[Len(g)].taken \/ c)
         /\ Switched(g, c, e)[Len(g)].els = g[Len(g)].els + e
<1> DEFINE b == g[Len(g)].taken
           p == ~ b /\ c
           q == b \/ c
           k == g[Len(g)].els + e
           r == [on |-> p, taken |-> q, els |-> k]
<1>1. b \in BOOLEAN /\ p \in BOOLEAN /\ q \in BOOLEAN /\ k \in Nat
  BY OuterFacts DEF Group, Inner
<1>2. Switched(g, c, e) = Append(Outer(g), r)
  BY DEF Switched, Inner
<1> HIDE DEF p, q, k
<1>3. r \in Group /\ (r.on <=> p) /\ (r.taken <=> q) /\ r.els = k
  BY <1>1, GroupFields
<1> HIDE DEF r
<1>4. /\ Switched(g, c, e) \in Seq(Group)
      /\ Len(Switched(g, c, e)) = Len(Outer(g)) + 1
      /\ \A i \in 1 .. Len(Outer(g)) : Switched(g, c, e)[i] = Outer(g)[i]
      /\ Switched(g, c, e)[Len(Outer(g)) + 1] = r
  BY <1>2, <1>3, OuterFacts, AppendFacts
<1>5. Len(g) \in Nat \ {0} /\ Len(Outer(g)) = Len(g) - 1
  BY OuterFacts
<1>6. \A i \in 1 .. Len(g) - 1 : Outer(g)[i] = g[i]
  BY OuterFacts
<1>7. /\ Len(Switched(g, c, e)) = Len(g)
      /\ \A i \in 1 .. Len(g) - 1 : Switched(g, c, e)[i] = g[i]
      /\ Switched(g, c, e)[Len(g)] = r
  BY <1>4, <1>5, <1>6
<1>8. QED
  BY <1>3, <1>4, <1>7 DEF p, q, k

LEMMA FrontFacts ==
  ASSUME NEW s \in Seq(Nat), Len(s) > 0
  PROVE  /\ Front(s) \in Seq(Nat)
         /\ Len(Front(s)) = Len(s) - 1
<1>1. Len(s) \in Nat \ {0}
  BY LenProperties
<1>2. \A i \in 1 .. Len(s) - 1 : s[i] \in Nat
  BY <1>1, ElementOfSeq
<1>3. /\ Front(s) \in Seq(Nat)
      /\ Len(Front(s)) = IF 1 <= Len(s) - 1 THEN Len(s) - 1 - 1 + 1 ELSE 0
  BY <1>1, <1>2, SubSeqProperties DEF Front
<1>4. Len(Front(s)) = Len(s) - 1
  BY <1>1, <1>3, LengthMinusOne
<1>5. QED
  BY <1>3, <1>4

-----------------------------------------------------------------------------
(* The counters follow the stack: one lemma per operation on the stack.    *)

LEMMA LevelsShown ==
  ASSUME NEW g \in Seq(Group), NEW t \in Nat, NEW f \in Nat, Levels(g, t, f)
  PROVE  AllOn(g) <=> f = 0
<1>1. CASE f = 0
  BY <1>1 DEF Levels, AllOn
<1>2. CASE f # 0
  <2>1. t + 1 \in 1 .. Len(g) /\ t + 1 \in t + 1 .. Len(g)
    BY <1>2 DEF Levels
  <2>2. ~ g[t + 1].on
    BY <2>1 DEF Levels
  <2>3. QED
    BY <1>2, <2>1, <2>2 DEF AllOn
<1>3. QED
  BY <1>1, <1>2

LEMMA OpenedLevels ==
  ASSUME NEW g \in Seq(Group), NEW t \in Nat, NEW f \in Nat, NEW c \in BOOLEAN,
         NEW elf \in Nat, NEW els \in Nat,
         Levels(g, t, f), ElifMark(g, t, f, elf), ElseMark(g, els)
  PROVE  LET h == Opened(g, c) IN
         /\ f = 0 /\ c => Levels(h, t + 1, 0) /\ ElifMark(h, t + 1, 0, elf)
         /\ ~ (f = 0 /\ c) => Levels(h, t, f + 1) /\ ElifMark(h, t, f + 1, elf)
         /\ ElseMark(h, els)
<1> DEFINE h == Opened(g, c)
           n == Len(g)
<1>1. AllOn(g) <=> f = 0
  BY LevelsShown
<1>2. /\ h \in Seq(Group)
      /\ Len(h) = n + 1
      /\ \A i \in 1 .. n : h[i] = g[i]
      /\ h[n + 1].on <=> (f = 0 /\ c)
      /\ h[n + 1].taken <=> (f # 0 \/ c)
      /\ h[n + 1].els = 0
  <2>1. /\ h[n + 1].on <=> (AllOn(g) /\ c)
        /\ h[n + 1].taken <=> (~ AllOn(g) \/ c)
    BY OpenedFacts
  <2>2. /\ h[n + 1].on <=> (f = 0 /\ c)
        /\ h[n + 1].taken <=> (f # 0 \/ c)
    BY <1>1, <2>1, Zenon
  <2>3. QED
    BY <2>2, OpenedFacts
<1>3. n \in Nat /\ n = t + f
  BY DEF Levels
<1> HIDE DEF h, n
<1>4. \A i \in 1 .. t : h[i].on /\ h[i].taken
  BY <1>2, <1>3 DEF Levels, n
<1>5. ASSUME f = 0, c
      PROVE  Levels(h, t + 1, 0) /\ ElifMark(h, t + 1, 0, elf)
  BY <1>2, <1>3, <1>4, <1>5 DEF Levels, ElifMark
<1>6. ASSUME f = 0, ~ c
      PROVE  Levels(h, t, f + 1) /\ ElifMark(h, t, f + 1, elf)
  BY <1>2, <1>3, <1>4, <1>6 DEF Levels, ElifMark
<1>7. ASSUME f # 0
      PROVE  Levels(h, t, f + 1) /\ ElifMark(h, t, f + 1, elf)
  <2>1. h[t + 1] = g[t + 1]
    BY <1>2, <1>3, <1>7
  <2>2. ElifMark(h, t, f + 1, elf)
    BY <1>7, <2>1 DEF ElifMark
  <2>3. \A i \in t + 1 .. n : ~ h[i].on
    BY <1>2, <1>3, <1>7 DEF Levels, n
  <2>4. \A i \in t + 2 .. n : h[i].taken
    BY <1>2, <1>3, <1>7 DEF Levels, n
  <2>5. ~ h[n + 1].on /\ h[n + 1].taken
    BY <1>2, <1>7
  <2>6. \A i \in t + 1 .. n + 1 : ~ h[i].on
    BY <1>3, <2>3, <2>5
  <2>7. \A i \in t + 2 .. n + 1 : h[i].taken
    BY <1>3, <2>4, <2>5
  <2>8. Len(h) = n + 1 /\ n + 1 = t + (f + 1)
    BY <1>2, <1>3
  <2>9. QED
    BY <1>4, <2>2, <2>6, <2>7, <2>8 DEF Levels
<1>8. ElseMark(h, els)
  BY <1>2, <1>3 DEF ElseMark, n
<1>9. QED
  BY <1>5, <1>6, <1>7, <1>8 DEF h

(* #elif (e = 0) and #else (e = 1): t1 and f1 are what switch makes of t    *)
(* and f, elf1 what becomes of elflvl.                                      *)
LEMMA SwitchedLevels ==
  ASSUME NEW g \in Seq(Group), g # <<>>, NEW t \in Nat, NEW f \in Nat,
         NEW c \in BOOLEAN, NEW e \in Nat, NEW elf \in Nat, NEW elf1 \in Nat,
         Levels(g, t, f), ElifMark(g, t, f, elf), Inner(g).els = 0,
         IF f = 0 THEN e > 0 \/ elf1 = t ELSE elf1 = elf
  PROVE  LET h == Switched(g, c, e) IN
         /\ f = 0 => t > 0 /\ Levels(h, t - 1, 1) /\ ElifMark(h, t - 1, 1, elf1)
         /\ elf <= t /\ f = 1 /\ c =>
              Levels(h, t + 1, 0) /\ ElifMark(h, t + 1, 0, elf1)
         /\ f > 0 /\ ~ (elf <= t /\ f = 1 /\ c) =>
              Levels(h, t, f) /\ ElifMark(h, t, f, elf1)
<1> DEFINE h == Switched(g, c, e)
           n == Len(g)
<1>1. /\ h \in Seq(Group)
      /\ Len(h) = n
      /\ \A i \in 1 .. n - 1 : h[i] = g[i]
      /\ h[n].on <=> (~ g[n].taken /\ c)
      /\ h[n].taken <=> (g[n].taken \/ c)
      /\ h[n].els = e
  <2>1. g[n].els = 0
    BY DEF Inner
  <2>2. h[n].els = g[n].els + e
    BY SwitchedFacts
  <2>3. h[n].els = e
    BY <2>1, <2>2
  <2>4. QED
    BY <2>3, SwitchedFacts
<1>2. n \in Nat \ {0} /\ n = t + f /\ g[n].els = 0
  BY OuterFacts DEF Levels, Inner
<1> HIDE DEF h, n
<1>3. ASSUME f = 0
      PROVE  t > 0 /\ Levels(h, t - 1, 1) /\ ElifMark(h, t - 1, 1, elf1)
  <2>1. t = n /\ t > 0 /\ g[n].on /\ g[n].taken
    BY <1>2, <1>3 DEF Levels
  <2>2. ~ h[n].on /\ h[n].taken
    BY <1>1, <2>1
  <2>3. \A i \in 1 .. t - 1 : h[i].on /\ h[i].taken
    BY <1>1, <1>2, <2>1 DEF Levels
  <2>4. Levels(h, t - 1, 1)
    BY <1>1, <1>2, <2>1, <2>2, <2>3 DEF Levels
  <2>5. ElifMark(h, t - 1, 1, elf1)
    BY <1>1, <1>2, <1>3, <2>1, <2>2 DEF ElifMark
  <2>6. QED
    BY <2>1, <2>4, <2>5
<1>4. ASSUME elf <= t, f = 1, c
      PROVE  Levels(h, t + 1, 0) /\ ElifMark(h, t + 1, 0, elf1)
  <2>1. n = t + 1 /\ ~ g[n].taken
    BY <1>2, <1>4 DEF ElifMark
  <2>2. elf1 = 0
    BY <1>4, <2>1 DEF ElifMark
  <2>3. h[n].on /\ h[n].taken
    BY <1>1, <1>4, <2>1
  <2>4. \A i \in 1 .. t : h[i].on /\ h[i].taken
    BY <1>1, <2>1 DEF Levels
  <2>5. \A i \in 1 .. t + 1 : h[i].on /\ h[i].taken
    BY <2>1, <2>3, <2>4
  <2>6. QED
    BY <1>1, <2>1, <2>2, <2>5 DEF Levels, ElifMark
<1>5. ASSUME f = 1, ~ (elf <= t /\ c)
      PROVE  Levels(h, t, f) /\ ElifMark(h, t, f, elf1)
  <2>1. n = t + 1
    BY <1>2, <1>5
  <2>2. \A i \in 1 .. t : h[i].on /\ h[i].taken
    BY <1>1, <2>1 DEF Levels
  <2>3. g[n].taken \/ ~ c
    BY <1>5, <2>1 DEF ElifMark
  <2>4. ~ h[n].on /\ (h[n].taken <=> g[n].taken)
    BY <1>1, <2>3
  <2>5. Levels(h, t, f)
    BY <1>1, <1>5, <2>1, <2>2, <2>4 DEF Levels
  <2>6. ElifMark(h, t, f, elf1)
    BY <1>2, <1>5, <2>1, <2>4 DEF ElifMark
  <2>7. QED
    BY <2>5, <2>6
<1>6. ASSUME f > 1
      PROVE  Levels(h, t, f) /\ ElifMark(h, t, f, elf1)
  <2>1. n > t + 1 /\ n \in t + 2 .. n
    BY <1>2, <1>6
  <2>2. g[n].taken
    BY <1>2, <2>1 DEF Levels, n
  <2>3. ~ h[n].on /\ h[n].taken
    BY <1>1, <2>2
  <2>4. \A i \in 1 .. t : h[i].on /\ h[i].taken
    BY <1>1, <2>1 DEF Levels
  <2>5. \A i \in t + 1 .. n - 1 : ~ h[i].on
    BY <1>1, <1>2 DEF Levels, n
  <2>6. \A i \in t + 2 .. n - 1 : h[i].taken
    BY <1>1, <1>2 DEF Levels, n
  <2>7. \A i \in t + 1 .. n : ~ h[i].on
    BY <1>2, <2>3, <2>5
  <2>8. \A i \in t + 2 .. n : h[i].taken
    BY <1>2, <2>3, <2>6
  <2>9. Levels(h, t, f)
    BY <1>1, <1>2, <2>4, <2>7, <2>8 DEF Levels
  <2>10. h[t + 1] = g[t + 1]
    BY <1>1, <1>2, <2>1
  <2>11. ElifMark(h, t, f, elf1)
    BY <1>6, <2>10 DEF ElifMark
  <2>12. QED
    BY <2>9, <2>11
<1>7. f = 0 \/ f = 1 \/ f > 1
  OBVIOUS
<1>8. QED
  BY <1>3, <1>4, <1>5, <1>6, <1>7 DEF h

LEMMA OuterLevels ==
  ASSUME NEW g \in Seq(Group), g # <<>>, NEW t \in Nat, NEW f \in Nat,
         NEW elf \in Nat, Levels(g, t, f), ElifMark(g, t, f, elf)
  PROVE  LET h == Outer(g) IN
         /\ f = 0 => t > 0 /\ Levels(h, t - 1, 0) /\ ElifMark(h, t - 1, 0, 0)
         /\ f > 0 => Levels(h, t, f - 1)
         /\ f = 1 => ElifMark(h, t, 0, 0)
         /\ f > 1 => ElifMark(h, t, f - 1, elf)
<1> DEFINE h == Outer(g)
           n == Len(g)
<1>1. /\ h \in Seq(Group)
      /\ Len(h) = n - 1
      /\ \A i \in 1 .. n - 1 : h[i] = g[i]
  BY OuterFacts
<1>2. n \in Nat \ {0} /\ n = t + f
  BY OuterFacts DEF Levels
<1> HIDE DEF h, n
<1>3. ASSUME f = 0
      PROVE  t > 0 /\ Levels(h, t - 1, 0) /\ ElifMark(h, t - 1, 0, 0)
  BY <1>1, <1>2, <1>3 DEF Levels, ElifMark
<1>4. ASSUME f > 0
      PROVE  Levels(h, t, f - 1)
  BY <1>1, <1>2, <1>4 DEF Levels, n
<1>5. ElifMark(h, t, 0, 0)
  BY DEF ElifMark
<1>6. ASSUME f > 1
      PROVE  ElifMark(h, t, f - 1, elf)
  <2>1. h[t + 1] = g[t + 1]
    BY <1>1, <1>2, <1>6
  <2>2. QED
    BY <1>6, <2>1 DEF ElifMark
<1>7. QED
  BY <1>3, <1>4, <1>5, <1>6 DEF h

-----------------------------------------------------------------------------
(* One lemma per directive: it keeps the invariant, and it does to the     *)
(* stack what the standard asks.                                           *)

LEMMA RunningFacts ==
  ASSUME CInv, Running
  PROVE  /\ groups \in Seq(Group) /\ trulvl \in Nat /\ flslvl \in Nat
         /\ elflvl \in Nat /\ elslvl \in Nat /\ saved \in Seq(Nat)
         /\ Levels(groups, trulvl, flslvl)
         /\ ElifMark(groups, trulvl, flslvl, elflvl)
         /\ ElseMark(groups, elslvl)
         /\ Len(saved) > 0
         /\ Len(groups) = trulvl + flslvl
         /\ groups = <<>> <=> flslvl = 0 /\ trulvl = 0
         /\ AllOn(groups) <=> flslvl = 0
<1>1. /\ groups \in Seq(Group) /\ trulvl \in Nat /\ flslvl \in Nat
      /\ elflvl \in Nat /\ elslvl \in Nat /\ saved \in Seq(Nat)
      /\ Levels(groups, trulvl, flslvl)
      /\ ElifMark(groups, trulvl, flslvl, elflvl)
      /\ ElseMark(groups, elslvl)
      /\ Len(saved) > 0
  BY DEF CInv, TypeOK, CountersMatchGroups, Running
<1>2. Len(groups) = trulvl + flslvl
  BY <1>1 DEF Levels
<1>3. groups = <<>> <=> Len(groups) = 0
  BY <1>1, EmptySeq
<1>4. groups = <<>> <=> flslvl = 0 /\ trulvl = 0
  BY <1>1, <1>2, <1>3
<1>5. AllOn(groups) <=> flslvl = 0
  BY <1>1, LevelsShown
<1>6. QED
  BY <1>1, <1>2, <1>4, <1>5

(* The instance has its own copies of the operators on stacks. *)
LEMMA StdOperators ==
  ASSUME NEW g, NEW c, NEW e
  PROVE  /\ Std!AllOn(g) = AllOn(g)
         /\ Std!Inner(g) = Inner(g)
         /\ Std!Outer(g) = Outer(g)
         /\ Std!Opened(g, c) = Opened(g, c)
         /\ Std!Switched(g, c, e) = Switched(g, c, e)
         /\ Std!MayContinue(g) = MayContinue(g)
         /\ Std!Front(g) = Front(g)
  BY DEF AllOn, Inner, Outer, Opened, Switched, MayContinue, Front, Std!AllOn,
         Std!Inner, Std!Outer, Std!Opened, Std!Switched, Std!MayContinue,
         Std!Front

LEMMA StdStep ==
  ASSUME Running, status' = status, saved' = saved,
         AllOn(groups') <=> flslvl' = 0
  PROVE  Std!Step(groups')
<1>1. Std!AllOn(groups') <=> flslvl' = 0
  BY StdOperators
<1>2. Std!AllOn(groups') = (flslvl' = 0)
  BY <1>1 DEF Std!AllOn
<1>3. QED
  BY <1>2 DEF Std!Step, Running

LEMMA IfStep ==
  ASSUME CInv, NEW c \in BOOLEAN, ifstmt(c)
  PROVE  CInv' /\ Std!If(c)
<1> DEFINE h == Opened(groups, c)
<1>1. Running /\ groups' = h /\ status' = "ok"
  BY DEF ifstmt, Running
<1>2. /\ Levels(h, trulvl', flslvl')
      /\ ElifMark(h, trulvl', flslvl', elflvl')
      /\ ElseMark(h, elslvl')
      /\ trulvl' \in Nat /\ flslvl' \in Nat
  <2>1. /\ flslvl = 0 /\ c => Levels(h, trulvl + 1, 0) /\ ElifMark(h, trulvl + 1, 0, elflvl)
        /\ ~ (flslvl = 0 /\ c) => /\ Levels(h, trulvl, flslvl + 1)
                                  /\ ElifMark(h, trulvl, flslvl + 1, elflvl)
        /\ ElseMark(h, elslvl)
    BY <1>1, RunningFacts, OpenedLevels
  <2>2. trulvl \in Nat /\ flslvl \in Nat
    BY <1>1, RunningFacts
  <2> HIDE DEF h
  <2>3. CASE flslvl = 0 /\ c
    BY <2>1, <2>2, <2>3 DEF ifstmt
  <2>4. CASE ~ (flslvl = 0 /\ c)
    BY <2>1, <2>2, <2>4 DEF ifstmt
  <2>5. QED
    BY <2>3, <2>4
<1>3. h \in Seq(Group)
  BY <1>1, RunningFacts, OpenedFacts
<1>4. AllOn(h) <=> flslvl' = 0
  BY <1>2, <1>3, LevelsShown
<1>5. UNCHANGED <<elflvl, elslvl, saved>>
  BY DEF ifstmt
<1> HIDE DEF h
<1>6. CInv'
  BY <1>1, <1>2, <1>3, <1>5, RunningFacts DEF CInv, TypeOK, CountersMatchGroups
<1>7. Std!If(c)
  BY <1>1, <1>4, <1>5, StdOperators, StdStep DEF Std!If, h, Running
<1>8. QED
  BY <1>6, <1>7

(* The mark of the last #else never hides a #elif or #else that is legal. *)
LEMMA NoElseYet ==
  ASSUME CInv, Running, WellFormed, MayContinue(groups), groups # <<>>
  PROVE  /\ Inner(groups).els = 0
         /\ elslvl # Len(groups)
         /\ \A c \in BOOLEAN, e \in Nat : ElseMark(Switched(groups, c, e), elslvl)
<1>1. Inner(groups).els = 0
  BY DEF MayContinue
<1>2. groups \in Seq(Group) /\ elslvl \in Nat /\ ElseMark(groups, elslvl)
  BY RunningFacts
<1>3. Len(groups) \in Nat \ {0}
  BY <1>2, OuterFacts
<1>4. elslvl # Len(groups)
  BY <1>1, <1>2, <1>3 DEF Inner, ElseMark
<1>5. ASSUME NEW c \in BOOLEAN, NEW e \in Nat
      PROVE  ElseMark(Switched(groups, c, e), elslvl)
  BY <1>2, <1>3, <1>4, SwitchedFacts DEF ElseMark
<1>6. QED
  BY <1>1, <1>4, <1>5

LEMMA StrayStep ==
  ASSUME CInv, Running, flslvl = 0, trulvl = 0, error, elflvl' \in Nat,
         UNCHANGED <<trulvl, flslvl, elslvl, saved, groups>>
  PROVE  CInv' /\ Std!Stray
<1>1. groups = <<>>
  BY RunningFacts
<1>2. CInv'
  BY DEF CInv, TypeOK, CountersMatchGroups, error
<1>3. Std!Stray
  BY <1>1 DEF Std!Stray, error, Running
<1>4. QED
  BY <1>2, <1>3

LEMMA SwitchLevels ==
  ASSUME CInv, Running, groups # <<>>, Inner(groups).els = 0,
         NEW c \in BOOLEAN, NEW e \in Nat, switch(c, elflvl), elflvl' \in Nat,
         IF flslvl = 0 THEN e > 0 \/ elflvl' = trulvl ELSE elflvl' = elflvl
  PROVE  LET h == Switched(groups, c, e) IN
         /\ Levels(h, trulvl', flslvl')
         /\ ElifMark(h, trulvl', flslvl', elflvl')
         /\ trulvl' \in Nat /\ flslvl' \in Nat
         /\ trulvl' + flslvl' = Len(groups)
<1> DEFINE h == Switched(groups, c, e)
<1>1. /\ flslvl = 0 => /\ trulvl > 0
                       /\ Levels(h, trulvl - 1, 1)
                       /\ ElifMark(h, trulvl - 1, 1, elflvl')
      /\ elflvl <= trulvl /\ flslvl = 1 /\ c =>
           Levels(h, trulvl + 1, 0) /\ ElifMark(h, trulvl + 1, 0, elflvl')
      /\ flslvl > 0 /\ ~ (elflvl <= trulvl /\ flslvl = 1 /\ c) =>
           Levels(h, trulvl, flslvl) /\ ElifMark(h, trulvl, flslvl, elflvl')
  BY RunningFacts, SwitchedLevels
<1> SUFFICES /\ Levels(h, trulvl', flslvl')
             /\ ElifMark(h, trulvl', flslvl', elflvl')
             /\ trulvl' \in Nat /\ flslvl' \in Nat
             /\ trulvl' + flslvl' = Len(groups)
  OBVIOUS
<1>2. trulvl \in Nat /\ flslvl \in Nat /\ Len(groups) = trulvl + flslvl
  BY RunningFacts
<1> HIDE DEF h
<1>3. CASE flslvl = 0
  BY <1>1, <1>2, <1>3 DEF switch
<1>4. CASE elflvl <= trulvl /\ flslvl = 1 /\ c
  BY <1>1, <1>2, <1>4 DEF switch
<1>5. CASE flslvl > 0 /\ ~ (elflvl <= trulvl /\ flslvl = 1 /\ c)
  BY <1>1, <1>2, <1>5 DEF switch
<1>6. QED
  BY <1>2, <1>3, <1>4, <1>5

LEMMA ElifStep ==
  ASSUME CInv, WellFormed, NEW c \in BOOLEAN, elifcommon(c)
  PROVE  CInv' /\ (Std!Elif(c) \/ Std!Stray)
<1>1. Running /\ MayContinue(groups)
  BY DEF elifcommon
<1>2. elflvl' \in Nat
  BY <1>1, RunningFacts DEF elifcommon
<1>3. CASE flslvl = 0 /\ trulvl = 0
  BY <1>1, <1>2, <1>3, StrayStep DEF elifcommon
<1>4. CASE ~ (flslvl = 0 /\ trulvl = 0)
  <2> DEFINE h == Switched(groups, c, 0)
  <2>1. groups # <<>>
    BY <1>1, <1>4, RunningFacts
  <2>2. /\ Inner(groups).els = 0
        /\ ElseMark(h, elslvl)
    BY <1>1, <2>1, NoElseYet
  <2>3. /\ switch(c, elflvl) /\ groups' = h /\ status' = status
        /\ elslvl' = elslvl /\ saved' = saved
        /\ elflvl' = IF flslvl = 0 THEN trulvl ELSE elflvl
    BY <1>4 DEF elifcommon
  <2>4. /\ Levels(h, trulvl', flslvl')
        /\ ElifMark(h, trulvl', flslvl', elflvl')
        /\ trulvl' \in Nat /\ flslvl' \in Nat
    BY <1>1, <1>2, <2>1, <2>2, <2>3, SwitchLevels
  <2>5. h \in Seq(Group)
    BY <1>1, <2>1, RunningFacts, SwitchedFacts
  <2>6. AllOn(h) <=> flslvl' = 0
    BY <2>4, <2>5, LevelsShown
  <2> HIDE DEF h
  <2>7. CInv'
    BY <1>1, <1>2, <2>2, <2>3, <2>4, <2>5, RunningFacts
       DEF CInv, TypeOK, CountersMatchGroups, Running
  <2>8. Std!Elif(c)
    BY <1>1, <2>1, <2>3, <2>6, StdOperators, StdStep DEF Std!Elif, h
  <2>9. QED
    BY <2>7, <2>8
<1>5. QED
  BY <1>3, <1>4

LEMMA ElseStep ==
  ASSUME CInv, WellFormed, elsestmt
  PROVE  CInv' /\ (Std!Else \/ Std!Stray)
<1>1. Running /\ MayContinue(groups) /\ elflvl' = elflvl /\ saved' = saved
  BY DEF elsestmt
<1>2. elflvl' \in Nat
  BY <1>1, RunningFacts
<1>3. CASE flslvl = 0 /\ trulvl = 0
  BY <1>1, <1>2, <1>3, StrayStep DEF elsestmt
<1>4. CASE ~ (flslvl = 0 /\ trulvl = 0)
  <2> DEFINE yes == TRUE
             h == Switched(groups, yes, 1)
  <2>1. groups # <<>>
    BY <1>1, <1>4, RunningFacts
  <2>2. Inner(groups).els = 0 /\ elslvl # Len(groups)
    BY <1>1, <2>1, NoElseYet
  <2>3. /\ yes \in BOOLEAN /\ switch(yes, elflvl) /\ groups' = h
        /\ elslvl' = trulvl' + flslvl'
        /\ status' = IF elslvl = trulvl' + flslvl' THEN "error" ELSE "ok"
    BY <1>4 DEF elsestmt
  <2> HIDE DEF yes
  <2>4. /\ Levels(h, trulvl', flslvl')
        /\ ElifMark(h, trulvl', flslvl', elflvl')
        /\ trulvl' \in Nat /\ flslvl' \in Nat
        /\ elslvl' = Len(groups)
    BY <1>1, <1>2, <2>1, <2>2, <2>3, SwitchLevels
  <2>5. /\ h \in Seq(Group) /\ Len(h) = Len(groups)
        /\ h[Len(groups)].els = 1
        /\ Len(groups) \in Nat \ {0}
    <3>1. groups \in Seq(Group) /\ groups[Len(groups)].els = 0
      BY <1>1, <2>2, RunningFacts DEF Inner
    <3>2. h[Len(groups)].els = groups[Len(groups)].els + 1
      BY <2>1, <2>3, <3>1, SwitchedFacts
    <3>3. QED
      BY <2>1, <2>3, <3>1, <3>2, SwitchedFacts, OuterFacts
  <2>6. AllOn(h) <=> flslvl' = 0
    BY <2>4, <2>5, LevelsShown
  <2>7. ElseMark(h, elslvl')
    <3>1. elslvl' = Len(groups) /\ Len(h) = Len(groups) /\ h[elslvl'].els = 1
      BY <2>4, <2>5
    <3> HIDE DEF h
    <3>2. QED
      BY <2>5, <3>1 DEF ElseMark
  <2>8. status' = "ok"
    BY <2>2, <2>3, <2>4
  <2> HIDE DEF h
  <2>9. CInv'
    BY <1>1, <1>2, <2>3, <2>4, <2>5, <2>7, <2>8, RunningFacts
       DEF CInv, TypeOK, CountersMatchGroups
  <2>10. Std!Else
    BY <1>1, <2>1, <2>3, <2>6, <2>8, StdOperators, StdStep
       DEF yes, Std!Else, h, Running
  <2>11. QED
    BY <2>9, <2>10
<1>5. QED
  BY <1>3, <1>4

LEMMA EndifStep ==
  ASSUME CInv, endifstmt
  PROVE  CInv' /\ (Std!Endif \/ Std!Stray)
<1>1. Running /\ saved' = saved
  BY DEF endifstmt
<1>2. CASE flslvl = 0 /\ trulvl = 0
  BY <1>1, <1>2, RunningFacts, StrayStep DEF endifstmt
<1>3. CASE ~ (flslvl = 0 /\ trulvl = 0)
  <2> DEFINE h == Outer(groups)
  <2>1. groups # <<>>
    BY <1>1, <1>3, RunningFacts
  <2>2. /\ IF flslvl > 0 THEN flslvl' = flslvl - 1 /\ trulvl' = trulvl
                         ELSE trulvl' = trulvl - 1 /\ flslvl' = flslvl
        /\ elflvl' = IF flslvl' = 0 THEN 0 ELSE elflvl
        /\ elslvl' = 0
        /\ groups' = h
        /\ status' = status
    BY <1>3 DEF endifstmt
  <2>3. /\ flslvl = 0 => /\ trulvl > 0
                         /\ Levels(h, trulvl - 1, 0)
                         /\ ElifMark(h, trulvl - 1, 0, 0)
        /\ flslvl > 0 => Levels(h, trulvl, flslvl - 1)
        /\ flslvl = 1 => ElifMark(h, trulvl, 0, 0)
        /\ flslvl > 1 => ElifMark(h, trulvl, flslvl - 1, elflvl)
    BY <1>1, <2>1, RunningFacts, OuterLevels
  <2>4. h \in Seq(Group)
    BY <1>1, <2>1, RunningFacts, OuterFacts
  <2> HIDE DEF h
  <2>5. trulvl \in Nat /\ flslvl \in Nat /\ elflvl \in Nat
    BY <1>1, RunningFacts
  <2>6. /\ Levels(h, trulvl', flslvl')
        /\ ElifMark(h, trulvl', flslvl', elflvl')
        /\ trulvl' \in Nat /\ flslvl' \in Nat /\ elflvl' \in Nat
    <3>1. CASE flslvl = 0
      BY <2>2, <2>3, <2>5, <3>1
    <3>2. CASE flslvl = 1
      BY <2>2, <2>3, <2>5, <3>2
    <3>3. CASE flslvl > 1
      BY <2>2, <2>3, <2>5, <3>3
    <3>4. QED
      BY <2>5, <3>1, <3>2, <3>3
  <2>7. AllOn(h) <=> flslvl' = 0
    BY <2>4, <2>6, LevelsShown
  <2>8. ElseMark(h, elslvl')
    BY <2>2 DEF ElseMark
  <2>9. CInv'
    BY <1>1, <2>2, <2>4, <2>6, <2>8, RunningFacts
       DEF CInv, TypeOK, CountersMatchGroups, Running
  <2>10. Std!Endif
    BY <1>1, <2>1, <2>2, <2>7, StdOperators, StdStep DEF Std!Endif, h
  <2>11. QED
    BY <2>9, <2>10
<1>4. QED
  BY <1>2, <1>3

LEMMA PushStep ==
  ASSUME CInv, pushfile
  PROVE  CInv' /\ (Std!Include \/ Std!TooDeep)
<1>1. Running /\ flslvl = 0
      /\ UNCHANGED <<trulvl, flslvl, elflvl, elslvl, groups>>
  BY DEF pushfile
<1>2. trulvl = Len(groups) /\ trulvl \in Nat /\ saved \in Seq(Nat) /\ Len(saved) \in Nat
  BY <1>1, RunningFacts
<1>3. CASE Len(saved) > MaxInclevel
  <2>1. status' = "error" /\ saved' = saved
    BY <1>3 DEF pushfile, error
  <2>2. CInv'
    BY <1>1, <2>1 DEF CInv, TypeOK, CountersMatchGroups
  <2>3. Std!TooDeep
    BY <1>1, <1>3, <2>1 DEF Std!TooDeep, Running
  <2>4. QED
    BY <2>2, <2>3
<1>4. CASE ~ (Len(saved) > MaxInclevel)
  <2>1. status' = status /\ saved' = Append(saved, trulvl)
    BY <1>4 DEF pushfile
  <2>2. saved' \in Seq(Nat) /\ Len(saved') > 0
    BY <1>2, <2>1
  <2>3. CInv'
    BY <1>1, <2>1, <2>2 DEF CInv, TypeOK, CountersMatchGroups
  <2>4. Len(saved) <= MaxInclevel
    BY <1>2, <1>4, CondAssumption
  <2>5. Std!Include
    BY <1>1, <1>2, <2>1, <2>4 DEF Std!Include, Running
  <2>6. QED
    BY <2>3, <2>5
<1>5. QED
  BY <1>3, <1>4

LEMMA PopStep ==
  ASSUME CInv, popfile
  PROVE  CInv' /\ Std!EndOfFile
<1>1. Running /\ UNCHANGED <<trulvl, flslvl, elflvl, elslvl, groups>>
  BY DEF popfile
<1>2. /\ saved \in Seq(Nat) /\ Len(saved) \in Nat /\ Len(saved) > 0
      /\ trulvl \in Nat /\ flslvl \in Nat /\ Len(groups) = trulvl + flslvl
  BY <1>1, RunningFacts
<1>3. CASE saved[Len(saved)] # trulvl \/ flslvl # 0
  <2>1. status' = "error" /\ saved' = saved
    BY <1>3 DEF popfile, error
  <2>2. CInv'
    BY <1>1, <2>1 DEF CInv, TypeOK, CountersMatchGroups
  <2>3. ~ (flslvl = 0 /\ Len(groups) = saved[Len(saved)])
    BY <1>2, <1>3
  <2>4. Std!EndOfFile
    BY <1>1, <2>1, <2>3 DEF Std!EndOfFile, Running
  <2>5. QED
    BY <2>2, <2>4
<1>4. CASE ~ (saved[Len(saved)] # trulvl \/ flslvl # 0)
  <2>1. /\ saved' = Front(saved)
        /\ status' = IF Len(saved) = 1 THEN "end" ELSE "ok"
    BY <1>4 DEF popfile
  <2>2. saved' \in Seq(Nat) /\ Len(saved') = Len(saved) - 1
    BY <1>2, <2>1, FrontFacts
  <2>3. CInv'
    BY <1>1, <1>2, <2>1, <2>2, RunningFacts DEF CInv, TypeOK, CountersMatchGroups
  <2>4. flslvl = 0 /\ Len(groups) = saved[Len(saved)]
    BY <1>2, <1>4
  <2>5. Std!EndOfFile
    BY <1>1, <2>1, <2>4, StdOperators DEF Std!EndOfFile, Running
  <2>6. QED
    BY <2>3, <2>5
<1>5. QED
  BY <1>3, <1>4

-----------------------------------------------------------------------------
LEMMA InitCInv == Init => CInv /\ Std!Init
<1> SUFFICES ASSUME Init PROVE CInv /\ Std!Init
  OBVIOUS
<1>1. TypeOK
  BY DEF Init, TypeOK
<1>2. Len(groups) = 0 /\ AllOn(groups)
  BY DEF Init, AllOn
<1>3. CountersMatchGroups
  BY <1>2 DEF Init, CountersMatchGroups, Levels, ElifMark, ElseMark
<1>4. Std!Init
  BY DEF Init, Std!Init
<1>5. QED
  BY <1>1, <1>3, <1>4 DEF CInv

LEMMA StepCInv ==
  ASSUME WellFormed, CInv, [Next]_vars
  PROVE  CInv' /\ [Std!Next]_(Std!gvars)
<1>1. ASSUME NEW c \in BOOLEAN, ifstmt(c)
      PROVE  CInv' /\ Std!Next
  BY <1>1, IfStep DEF Std!Next
<1>2. ASSUME NEW c \in BOOLEAN, elifcommon(c)
      PROVE  CInv' /\ Std!Next
  BY <1>2, ElifStep DEF Std!Next
<1>3. CASE elsestmt
  BY <1>3, ElseStep DEF Std!Next
<1>4. CASE endifstmt
  BY <1>4, EndifStep DEF Std!Next
<1>5. CASE pushfile
  BY <1>5, PushStep DEF Std!Next
<1>6. CASE popfile
  BY <1>6, PopStep DEF Std!Next
<1>7. CASE Stopped \/ UNCHANGED vars
  BY <1>7 DEF Stopped, vars, CInv, TypeOK, CountersMatchGroups, Std!gvars
<1>8. QED
  BY <1>1, <1>2, <1>3, <1>4, <1>5, <1>6, <1>7 DEF Next

(* The four counters always stand for the stack of groups of the text. *)
THEOREM CountersCorrect ==
  ASSUME WellFormed
  PROVE  Spec => [](TypeOK /\ CountersMatchGroups)
<1>1. Init => CInv
  BY InitCInv
<1>2. CInv /\ [Next]_vars => CInv'
  BY StepCInv
<1>3. CInv => TypeOK /\ CountersMatchGroups
  BY DEF CInv
<1>4. QED
  BY <1>1, <1>2, <1>3, PTL DEF Spec

(* token.c's counters implement the standard's conditional inclusion. *)
THEOREM CountersImplementStd ==
  ASSUME WellFormed
  PROVE  Spec => ImplementsStd
<1>1. Init => CInv /\ Std!Init
  BY InitCInv
<1>2. CInv /\ [Next]_vars => CInv' /\ [Std!Next]_(Std!gvars)
  BY StepCInv
<1>3. QED
  BY <1>1, <1>2, PTL DEF Spec, ImplementsStd, Std!Spec

-----------------------------------------------------------------------------
(* Types alone, for the texts WellFormed leaves out as well: all they rest *)
(* on is that together trulvl and flslvl are the number of open groups.    *)
Depths == Running => Len(groups) = trulvl + flslvl /\ Len(saved) > 0

LEMMA OpenGroups ==
  ASSUME TypeOK, Depths, Running
  PROVE  groups = <<>> <=> flslvl = 0 /\ trulvl = 0
<1>1. groups = <<>> <=> Len(groups) = 0
  BY EmptySeq DEF TypeOK
<1>2. QED
  BY <1>1 DEF TypeOK, Depths

LEMMA SumInNat ==
  ASSUME NEW a \in Nat, NEW b \in Nat
  PROVE  a + b \in Nat
  OBVIOUS

LEMMA StepTypes ==
  ASSUME TypeOK, Depths, [Next]_vars
  PROVE  TypeOK' /\ Depths'
<1>0. trulvl \in Nat /\ flslvl \in Nat
  BY DEF TypeOK
<1>1. ASSUME NEW c \in BOOLEAN, ifstmt(c) PROVE TypeOK' /\ Depths'
  <2>1. /\ groups' = Opened(groups, c)
        /\ UNCHANGED <<elflvl, elslvl, saved, status>>
        /\ trulvl' \in Nat /\ flslvl' \in Nat /\ trulvl' + flslvl' = trulvl + flslvl + 1
    BY <1>1 DEF TypeOK, Depths, Running, ifstmt
  <2>2. groups' \in Seq(Group) /\ Len(groups') = Len(groups) + 1
    BY <2>1, OpenedFacts DEF TypeOK, Depths, Running
  <2>3. QED
    BY <1>1, <2>1, <2>2 DEF TypeOK, Depths, Running, ifstmt
<1>2. ASSUME NEW c \in BOOLEAN, NEW e \in Nat, groups # <<>>, Running,
             switch(c, elflvl), groups' = Switched(groups, c, e)
      PROVE  /\ groups' \in Seq(Group) /\ Len(groups') = Len(groups)
             /\ trulvl' \in Nat /\ flslvl' \in Nat
             /\ trulvl' + flslvl' = trulvl + flslvl
  <2>1. groups' \in Seq(Group) /\ Len(groups') = Len(groups)
    BY <1>2, SwitchedFacts DEF TypeOK, Depths, Running
  <2>2. ~ (flslvl = 0 /\ trulvl = 0)
    BY <1>2, OpenGroups DEF TypeOK, Depths, Running
  <2>3. trulvl' \in Nat /\ flslvl' \in Nat /\ trulvl' + flslvl' = trulvl + flslvl
    <3>2. CASE flslvl = 0
      BY <1>2, <1>0, <2>2, <3>2 DEF switch
    <3>3. CASE elflvl <= trulvl /\ flslvl = 1 /\ c
      BY <1>2, <1>0, <3>3 DEF switch
    <3>4. CASE flslvl # 0 /\ ~ (elflvl <= trulvl /\ flslvl = 1 /\ c)
      BY <1>2, <1>0, <3>4 DEF switch
    <3>5. QED
      BY <3>2, <3>3, <3>4
  <2>4. QED
    BY <2>1, <2>3
<1>3. ASSUME NEW c \in BOOLEAN, elifcommon(c) PROVE TypeOK' /\ Depths'
  <2>1. Running /\ elflvl' \in Nat /\ elslvl' = elslvl /\ saved' = saved
    BY <1>3 DEF TypeOK, Depths, Running, elifcommon
  <2>2. CASE flslvl = 0 /\ trulvl = 0
    BY <1>3, <2>1, <2>2 DEF TypeOK, Depths, Running, elifcommon, error
  <2>3. CASE ~ (flslvl = 0 /\ trulvl = 0)
    <3>1. groups # <<>> /\ switch(c, elflvl) /\ groups' = Switched(groups, c, 0)
          /\ status' = status
      BY <1>3, <2>1, <2>3, OpenGroups DEF TypeOK, Depths, Running, elifcommon
    <3>2. QED
      BY <1>2, <2>1, <3>1 DEF TypeOK, Depths, Running
  <2>4. QED
    BY <2>2, <2>3
<1>4. CASE elsestmt
  <2>1. Running /\ elflvl' = elflvl /\ saved' = saved
    BY <1>4 DEF TypeOK, Depths, Running, elsestmt
  <2>2. CASE flslvl = 0 /\ trulvl = 0
    BY <1>4, <2>1, <2>2 DEF TypeOK, Depths, Running, elsestmt, error
  <2>3. CASE ~ (flslvl = 0 /\ trulvl = 0)
    <3>1. groups # <<>> /\ switch(TRUE, elflvl) /\ groups' = Switched(groups, TRUE, 1)
          /\ elslvl' = trulvl' + flslvl' /\ status' \in {"ok", "error"}
      BY <1>4, <2>1, <2>3, OpenGroups DEF TypeOK, Depths, Running, elsestmt
    <3>2. PICK c \in BOOLEAN : c = TRUE
      OBVIOUS
    <3>3. /\ groups' \in Seq(Group) /\ Len(groups') = Len(groups)
          /\ trulvl' \in Nat /\ flslvl' \in Nat
          /\ trulvl' + flslvl' = trulvl + flslvl
      BY <1>2, <2>1, <3>1, <3>2
    <3>4. elslvl' \in Nat
      <4>1. elslvl' = trulvl' + flslvl'
        BY <3>1
      <4>2. trulvl' \in Nat /\ flslvl' \in Nat
        BY <3>3
      <4>3. QED
        BY <4>1, <4>2, SumInNat
    <3>5. QED
      BY <2>1, <3>1, <3>3, <3>4 DEF TypeOK, Depths, Running
  <2>4. QED
    BY <2>2, <2>3
<1>5. CASE endifstmt
  <2>1. CASE flslvl = 0 /\ trulvl = 0
    BY <1>5, <2>1 DEF TypeOK, Depths, Running, endifstmt, error
  <2>2. CASE ~ (flslvl = 0 /\ trulvl = 0)
    <3>1. /\ groups # <<>> /\ groups' = Outer(groups)
          /\ elslvl' \in Nat /\ status' = status /\ saved' = saved
      BY <1>5, <2>2, OpenGroups DEF TypeOK, Depths, Running, endifstmt
    <3>2. groups' \in Seq(Group) /\ Len(groups') = Len(groups) - 1
      BY <3>1, OuterFacts DEF TypeOK
    <3>3. Running /\ Len(groups) = trulvl + flslvl
      BY <1>5 DEF Depths, endifstmt
    <3>4. /\ trulvl' \in Nat /\ flslvl' \in Nat /\ elflvl' \in Nat
          /\ Len(groups') = trulvl' + flslvl'
      <4>1. CASE flslvl > 0
        BY <1>0, <1>5, <2>2, <3>2, <3>3, <4>1 DEF TypeOK, endifstmt
      <4>2. CASE flslvl = 0
        BY <1>0, <1>5, <2>2, <3>2, <3>3, <4>2 DEF TypeOK, endifstmt
      <4>3. QED
        BY <1>0, <4>1, <4>2
    <3>5. QED
      BY <3>1, <3>2, <3>3, <3>4 DEF TypeOK, Depths, Running
  <2>3. QED
    BY <2>1, <2>2
<1>6. CASE pushfile
  BY <1>6 DEF TypeOK, Depths, Running, pushfile, error
<1>7. CASE popfile
  <2>1. Front(saved) \in Seq(Nat) /\ Len(Front(saved)) = Len(saved) - 1
    BY <1>7, FrontFacts DEF TypeOK, Depths, Running, popfile
  <2>2. Len(saved) \in Nat
    BY DEF TypeOK
  <2>3. QED
    BY <1>7, <2>1, <2>2 DEF TypeOK, Depths, Running, popfile, error
<1>8. CASE Stopped \/ UNCHANGED vars
  BY <1>8 DEF TypeOK, Depths, Running, Stopped, vars
<1>9. QED
  BY <1>1, <1>3, <1>4, <1>5, <1>6, <1>7, <1>8 DEF TypeOK, Depths, Running, Next

(* On any text, legal or not, no counter becomes negative: #endif, #elif   *)
(* and #else are only followed where a conditional is open (token.c        *)
(* 1257-1389), and the end of a file only where a file is.                 *)
THEOREM TypeCorrect == Spec => []TypeOK
<1>1. Init => TypeOK /\ Depths
  BY DEF Init, TypeOK, Depths
<1>2. TypeOK /\ Depths /\ [Next]_vars => TypeOK' /\ Depths'
  BY StepTypes
<1>3. QED
  BY <1>1, <1>2, PTL DEF Spec

=============================================================================
