----------------------------- MODULE MCLiveness -----------------------------
EXTENDS Liveness

CONSTANTS v, x, p

S(d, u, e) == [def |-> d, use |-> u, eff |-> e]

Assign  == S(v, {}, FALSE)
Read    == S(NoVar, {v}, TRUE)
Copy    == S(x, {v}, FALSE)
CallFor == S(x, {v}, TRUE)
Back    == S(v, {x}, FALSE)

MCBodies == {<<>>, <<Assign>>, <<Read>>, <<Copy>>, <<Assign, CallFor>>, <<Copy, Back>>}

J(k, t, u) == [kind |-> k, to |-> t, use |-> u]

MCJumps == {J("fall", 1, {}), J("goto", 1, {}), J("cbranch", 1, {x})}
             \cup {J("cbranch", t, {}) : t \in 2 .. NBlocks}

(* A program whose second block is only "x = v".                           *)
ShortBodies == {<<>>, <<Assign>>, <<Read>>, <<Copy>>}
ShortJumps == {J("fall", 1, {}), J("cbranch", 1, {}), J("cbranch", 3, {})}

=============================================================================
