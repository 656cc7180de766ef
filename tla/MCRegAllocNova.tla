--------------------------- MODULE MCRegAllocNova ---------------------------
(* The register file of the Nova target (arch/nova): three single          *)
(* registers AC0-AC2 (class A), and the pair LC0 (class B) that overlaps   *)
(* AC0 and AC1; and of the PDP-11 target (arch/pdp11): R0-R4 and the       *)
(* pairs R01, R12, R23, R34.                                               *)
EXTENDS RegAlloc

CONSTANTS t1, t2, t3, p1, A, B

Both(pairs) == pairs \cup {<<p[2], p[1]>> : p \in pairs}

-----------------------------------------------------------------------------
NovaTemp == {t1, t2, t3, p1}
NovaReg == {0, 1, 2, 4}
Novacls == [n \in NovaTemp \cup NovaReg |-> IF n \in {p1, 4} THEN B ELSE A]
NovaOverlap == Both({<<0, 4>>, <<1, 4>>})
NovaColormap(c, n) == c = A /\ n[B] * 2 + n[A] < 3

-----------------------------------------------------------------------------
Pdp11Temp == {t1, t2, p1}
Pdp11Reg == 0 .. 4 \cup 8 .. 11
Pdp11cls == [n \in Pdp11Temp \cup Pdp11Reg |-> IF n = p1 \/ n \in 8 .. 11 THEN B ELSE A]
Pdp11Overlap ==
  Both({<<0, 8>>, <<1, 8>>, <<1, 9>>, <<2, 9>>, <<2, 10>>, <<3, 10>>,
        <<3, 11>>, <<4, 11>>, <<8, 9>>, <<9, 10>>, <<10, 11>>})
Pdp11Colormap(c, n) ==
  IF c = A THEN n[B] * 2 + n[A] < 5
  ELSE /\ n[B] <= 1
       /\ ~ (n[B] = 1 /\ n[A] > 0)
       /\ n[A] <= 2

-----------------------------------------------------------------------------
(* The Nova's COLORMAP is one the theorems on the worklists and spills     *)
(* hold for; the PDP-11's accepts neighbours that can take every pair.     *)
ASSUME Reg = NovaReg => Monotone /\ Honest
ASSUME Reg = Pdp11Reg => Monotone /\ ~ Honest

=============================================================================
