------------------------------ MODULE MCMacro ------------------------------
(* Two function-like macros f and g, of one argument and of one or two, an *)
(* object-like macro x, and ## making f out of x and y, and x out of f and *)
(* g.  In the texts calls nest, stand in arguments, are completed by what  *)
(* follows or are never completed; the last two make ## produce f, in      *)
(* front of a parenthesis, and x.                                          *)
EXTENDS Macro

W(words) == [i \in DOMAIN words |-> <<words[i]>>]

Obj(body) == [fun |-> FALSE, narg |-> 0, body |-> body]
Fun(n, body) == [fun |-> TRUE, narg |-> n, body |-> body]

Pieces == {<<"a">>, <<"y">>, <<"g">>, <<"x">>,
           <<"f", "(", "a", ")">>, <<"a", "(", "x", ")">>}

FMacros == {Fun(1, W(p)) : p \in Pieces} \cup {Fun(1, W(p \o q)) : p, q \in Pieces}

GMacros ==
    { Fun(1, W(<<"f">>)), Fun(1, W(<<"a", "f">>)),
      Fun(1, W(<<"f", "(", "a", ")">>)), Fun(1, W(<<"a", "(", "a", ")", "x">>)),
      Fun(1, << <<"a", "y">>, <<"(">>, <<"y">>, <<")">> >>),
      Fun(2, << <<"b", "a">>, <<"a">> >>),
      Fun(2, W(<<"b", "(", "a", ")">>)) }

XMacros ==
    { Obj(W(<<"x">>)), Obj(W(<<"f">>)), Obj(W(<<"y", "g">>)),
      Obj(W(<<"f", "(", "g", ")">>)), Obj(W(<<"g", "(", "f", ",", "x", ")">>)) }

MCTables == {[f |-> p, g |-> q, x |-> r] : p \in FMacros, q \in GMacros, r \in XMacros}

MCTexts ==
    { <<"x", "(", "y", ")", "(", "f", ")">>,
      <<"f", "(", "f", "(", "g", ")", "(", "y", ")", ")">>,
      <<"f", "(", "g", ")", "(", "g", ",", "x", ")", "(", "y", ")">>,
      <<"g", "(", "f", "(", "x", ")", ",", "f", ")", "(", "f">>,
      <<"g", "(", "x", ")", "(", "f", ")">>,
      <<"g", "(", "g", ",", "f", ")", "(", "f", ",", "y", ")">> }

MCPaste ==
    [p \in {"f", "g", "x", "y"} \X {"f", "g", "x", "y"} |->
       IF p = <<"x", "y">> THEN "f" ELSE IF p = <<"f", "g">> THEN "x" ELSE "z"]
=============
