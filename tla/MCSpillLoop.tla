---------------------------- MODULE MCSpillLoop ----------------------------
EXTENDS SpillLoop

(* Three callee-saved registers and two scratch registers.                 *)
MCReg == 1 .. 5
MCpermregs == [p \in Perm |-> p]

(* arch/sparc64: register number 0 (%g1) is the first callee-saved one.    *)
G1Reg == {0, 1, 7}
G1permregs == [p \in Perm |-> p - 1]

(* The theorem on the callee-saved registers holds for the first register  *)
(* file only.                                                              *)
ASSUME Reg = MCReg => NoRegisterZero
ASSUME Reg = G1Reg => ~ NoRegisterZero

=============================================================================
