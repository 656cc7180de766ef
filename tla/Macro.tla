------------------------------- MODULE Macro -------------------------------
(***************************************************************************)
(* Macro expansion of the preprocessor (cc/cpp): fastscan copies a text    *)
(* and calls kfind for every macro name it meets; yylex does the same for  *)
(* the line of an #if.  kfind, submac, exparg, subarg, readargs and        *)
(* loopover of cpp.c are one recursive operator each; they hand one        *)
(* another buffers (`ib', `ob') and read on in the input (`rest') when a   *)
(* call is not complete in the buffer.                                     *)
(*                                                                         *)
(* A token of a buffer is its text `t' and the names `b' it is blocked     *)
(* for: the BLKID bytes in front of an identifier, and the block list they *)
(* stand for, which the code only searches.  Tokens are separated by       *)
(* blanks; # and the variadic macros are left out, ## joins two elements   *)
(* of a replacement list.                                                  *)
(*                                                                         *)
(* StdExpand is the expansion of the C standard, by hide sets.             *)
(***************************************************************************)
EXTENDS Naturals, Integers, Sequences, FiniteSets, SequencesExt

CONSTANTS
    Tables,     \* the sets of macro definitions that are tried
    Texts,      \* the texts, as sequences of words
    Modes,      \* "text", "if": where the text stands
    Paste,      \* the word that two words make when joined by ##
    Recursive   \* whether the names of an #if may lead back to themselves

Params == <<"a", "b">>
None == "none"

VARIABLES
    defs,       \* the macros: name -> [fun, narg, body], body a sequence of
                \* groups of words joined by ##
    mode,
    text,       \* the text as it was at the start
    input,      \* what has not been read of it
    lb,         \* #if: the buffer that yylex reads before the input
    output,     \* what fastscan has written, or yylex has returned
    pc          \* "start", "run", "error" (error() has been called), "done"

vars == <<defs, mode, text, input, lb, output, pc>>

Macros == DOMAIN defs

Unblocked(words) == [i \in DOMAIN words |-> [t |-> words[i], b |-> {}]]

Words(tokens) == [i \in DOMAIN tokens |-> tokens[i].t]

macrepbuf(sp) == Unblocked(FlattenSeq(defs[sp].body))

Opens(tokens) == tokens # <<>> /\ Head(tokens).t = "("

-----------------------------------------------------------------------------
(* readargs: the arguments of a call, from behind its parenthesis; at the  *)
(* end of the buffer it reads on in the input.                             *)

Depth(s, i) == Cardinality({j \in 1..i : s[j].t = "("})
               - Cardinality({j \in 1..i : s[j].t = ")"})

Commas(s) == {i \in DOMAIN s : s[i].t = "," /\ Depth(s, i) = 0}

NoCall == [bad |-> TRUE]

Arguments(sp, ib, rest, end) ==
    LET s    == SubSeq(ib \o rest, 1, end)
        cuts == SetToSortSeq({0, end} \cup Commas(s), <)
    IN IF Cardinality(Commas(s)) + 1 # defs[sp].narg THEN NoCall
       ELSE [bad  |-> FALSE,
             args |-> [k \in 1..defs[sp].narg |->
                         SubSeq(s, cuts[k] + 1, cuts[k + 1] - 1)],
             ib   |-> SubSeq(ib, end + 1, Len(ib)),
             rest |-> SubSeq(rest, Max({1, end - Len(ib) + 1}), Len(rest)),
             last |-> s[end].b]

readargs(sp, ib, rest) ==
    LET s    == ib \o rest
        ends == {i \in DOMAIN s : s[i].t = ")" /\ Depth(s, i) < 0}
    IN IF ends = {} THEN NoCall ELSE Arguments(sp, ib, rest, Min(ends))

(* What an element of a replacement list stands for before any expansion:  *)
(* storeblk puts the block list in front of a macro name.                  *)
Element(word, args, l) ==
    IF \E k \in DOMAIN args : Params[k] = word
    THEN args[CHOOSE k \in DOMAIN args : Params[k] = word]
    ELSE <<[t |-> word, b |-> IF word \in Macros THEN l ELSE {}]>>

IsName(word) == word \notin {"(", ")", ","}

(* ##: the last word of p and the first of q become one; it keeps the      *)
(* blocks of the first.                                                    *)
Conc(p, q) ==
    IF /\ p # <<>> /\ q # <<>>
       /\ IsName(p[Len(p)].t) /\ IsName(Head(q).t)
    THEN SubSeq(p, 1, Len(p) - 1)
         \o <<[p[Len(p)] EXCEPT !.t = Paste[p[Len(p)].t, Head(q).t]]>>
         \o Tail(q)
    ELSE p \o q

Joined(group, args, l) ==
    FoldLeft(LAMBDA p, w : Conc(p, Element(w, args, l)), <<>>, group)

IsParam(group, sp) ==
    Len(group) = 1 /\ \E k \in 1..defs[sp].narg : Params[k] = group[1]

(* What a function returns: the buffer it has made, what it has left of    *)
(* the buffer and of the input it reads, whether it has expanded anything, *)
(* whether error() has been called, and for loopover the macro at the end. *)
Result(ob, ib, rest) ==
    [ob |-> ob, ib |-> ib, rest |-> rest, ok |-> FALSE, bad |-> FALSE, sp |-> None]

Error == [Result(<<>>, <<>>, <<>>) EXCEPT !.ok = TRUE, !.bad = TRUE]

Joining(x, y) ==
    [y EXCEPT !.ob = x.ob \o @, !.ok = x.ok \/ @, !.bad = x.bad \/ @]

Replacing(x, y) == Joining([x EXCEPT !.ob = <<>>], y)

(* A macro name that may not be expanded, or whose call is not here, keeps *)
(* the block list and its own blocks.                                      *)
Blocked(nl, l) == [nl EXCEPT !.b = IF nl.t \in Macros THEN l \cup @ ELSE {}]

RECURSIVE exparg(_, _, _), submac(_, _, _, _), Prescan(_, _, _)

Onward(one, l) == Joining(one, exparg(one.ib, l, one.rest))

(* exparg: one pass over a buffer under the block list l.                  *)
exparg(ib, l, rest) ==
    IF ib = <<>> THEN Result(<<>>, <<>>, rest)
    ELSE Onward(IF Head(ib).t \in Macros \ (l \cup Head(ib).b)
                THEN submac(Head(ib), Tail(ib), l, rest)
                ELSE Result(<<Blocked(Head(ib), l)>>, Tail(ib), rest), l)

(* Mutant: one pass over an argument.                                      *)
PrescanOnce(bp, lw, rest) == exparg(bp, lw, rest)

(* An argument is expanded until nothing of it expands any more.           *)
Further(nb, lw) == IF nb.ok /\ ~nb.bad THEN Prescan(nb.ob, lw, nb.rest) ELSE nb

Prescan(bp, lw, rest) == Further(exparg(bp, lw, rest), lw)

(* subarg: the replacement list with its arguments, which are expanded     *)
(* under the block list lw of the place of the call.                       *)
subarg(sp, args, l, lw, rest) ==
    FoldLeft(LAMBDA done, group :
               Joining(done,
                       IF IsParam(group, sp)
                       THEN Prescan(Element(group[1], args, l), lw, done.rest)
                       ELSE Result(Joined(group, args, l), <<>>, done.rest)),
             Result(<<>>, <<>>, rest), defs[sp].body)

(* The replacement list is scanned; ib is where the buffer is read on.     *)
Scanned(sub, l, ib) ==
    [Replacing(sub, exparg(sub.ob, l, sub.rest)) EXCEPT !.ok = TRUE, !.ib = ib]

(* The expansion of a call with the arguments ab, and of one whose         *)
(* parenthesis has been read, under the block list l.                      *)
CallWith(sp, l, ab) ==
    IF ab.bad THEN Error
    ELSE Scanned(subarg(sp, ab.args, l \cup {sp}, l, ab.rest), l \cup {sp}, ab.ib)

Call(sp, ib, l, rest) == CallWith(sp, l, readargs(sp, ib, rest))

(* submac: the expansion of nl, which has been read from ib.               *)
submac(nl, ib, l, rest) ==
    IF ~defs[nl.t].fun
    THEN Scanned(Result(macrepbuf(nl.t), ib, rest), l \cup {nl.t}, ib)
    ELSE IF Opens(ib) THEN Call(nl.t, Tail(ib), l, rest)
    ELSE Result(<<Blocked(nl, l)>>, ib, rest)

RECURSIVE loopover(_, _), newmac(_, _, _)

Looping(one) == Joining(one, loopover(one.ib, one.rest))

(* loopover: the last scan, which drops the blocks.  A function-like macro *)
(* at the end of the buffer is returned as `sp'.                           *)
loopover(ib, rest) ==
    IF ib = <<>> THEN Result(<<>>, <<>>, rest)
    ELSE IF Head(ib).t \notin Macros \ Head(ib).b
    THEN Looping(Result(<<Head(ib).t>>, Tail(ib), rest))
    ELSE IF defs[Head(ib).t].fun /\ Tail(ib) = <<>>
    THEN [Result(<<>>, <<>>, rest) EXCEPT !.sp = Head(ib).t]
    ELSE Looping(newmac(Head(ib).t, Tail(ib), rest))

Ending(loop, ib) ==
    IF loop.sp = None THEN [loop EXCEPT !.ib = ib]
    ELSE Joining(loop, newmac(loop.sp, ib, loop.rest))

Made(xob) ==
    IF xob.ok THEN Ending(Replacing(xob, loopover(xob.ob, xob.rest)), xob.ib)
    ELSE [xob EXCEPT !.ob = Words(@)]

newmac(sp, ib, rest) == Made(submac([t |-> sp, b |-> {}], ib, {}, rest))

RECURSIVE Again(_)

(* Mutant: a macro name at the end is given back without looking further.  *)
AgainNot(x) ==
    LET loop == loopover(x.ob, x.rest)
    IN [Replacing(x, loop) EXCEPT
          !.ob = IF loop.sp = None THEN @ ELSE Append(@, loop.sp)]

(* kfind: the expansion of the macro sp that has been read from the input, *)
(* and of what its end makes together with the input (`again').            *)
Before(loop) ==
    IF loop.sp = None \/ loop.bad THEN loop
    ELSE IF Opens(loop.rest)
    THEN Joining(loop, Again(Call(loop.sp, <<>>, {}, Tail(loop.rest))))
    ELSE [loop EXCEPT !.ob = Append(@, loop.sp)]

Again(x) == Before(Replacing(x, loopover(x.ob, x.rest)))

kfind(sp, rest) ==
    IF defs[sp].fun /\ ~Opens(rest) THEN Result(<<sp>>, <<>>, rest)
    ELSE Again(IF defs[sp].fun THEN Call(sp, <<>>, {}, Tail(rest))
               ELSE submac([t |-> sp, b |-> {}], <<>>, {}, rest))

-----------------------------------------------------------------------------
(* The C standard: a token carries the names it is hidden from, `b'.  The  *)
(* words of a call get those that its name and its closing parenthesis     *)
(* share, and the name of the macro.                                       *)

Hide(tokens, names) == [i \in DOMAIN tokens |-> [tokens[i] EXCEPT !.b = @ \cup names]]

StdJoined(group, args) ==
    FoldLeft(LAMBDA p, w :
               LET q == Element(w, args, {})
                   c == Conc(p, q)
               IN IF Len(c) < Len(p) + Len(q)
                  THEN [c EXCEPT ![Len(p)].b = @ \cap Head(q).b] ELSE c,
             <<>>, group)

RECURSIVE StdExpand(_)

StdBody(sp, call, parts) ==
    IF \E i \in DOMAIN parts : parts[i].bad THEN Error
    ELSE StdExpand(Hide(FlattenSeq([i \in DOMAIN parts |-> parts[i].ob]),
                        (sp.b \cap call.last) \cup {sp.t}) \o call.rest)

StdCall(sp, call) ==
    IF call.bad THEN Error
    ELSE StdBody(sp, call,
                 [i \in DOMAIN defs[sp.t].body |->
                    LET group == defs[sp.t].body[i]
                    IN IF IsParam(group, sp.t)
                       THEN StdExpand(Element(group[1], call.args, {}))
                       ELSE Result(StdJoined(group, call.args), <<>>, <<>>)])

StdExpand(tokens) ==
    LET sp   == Head(tokens)
        rest == Tail(tokens)
    IN IF tokens = <<>> THEN Result(<<>>, <<>>, <<>>)
       ELSE IF sp.t \notin Macros \ sp.b \/ (defs[sp.t].fun /\ ~Opens(rest))
       THEN [StdExpand(rest) EXCEPT !.ob = <<sp>> \o @]
       ELSE IF defs[sp.t].fun THEN StdCall(sp, readargs(sp.t, <<>>, Tail(rest)))
       ELSE StdExpand(Hide(macrepbuf(sp.t), sp.b \cup {sp.t}) \o rest)

Std == StdExpand(Unblocked(text))

-----------------------------------------------------------------------------
(* The texts that are tried.  kfind scans what it has expanded once more   *)
(* (loopover), without the blocks of the call it finds: a call that only   *)
(* appears in that scan, though no macro name was followed by a parenthesis*)
(* before, is expanded against the standard.  Tame texts have none: a      *)
(* parenthesis follows the name it belongs to, or two words joined by ##,  *)
(* and no replacement list or argument is empty or starts with one.  Every *)
(* text is to be tame under every set of definitions.                      *)

Starts(words) == words # <<>> /\ IsName(Head(words))

Nonempty(words) ==
    \A i \in 1..(Len(words) - 1) : words[i] \in {"(", ","} => IsName(words[i + 1])

Callable(d, group) ==
    \/ Len(group) > 1
    \/ group[1] \in {"a", "b"}
    \/ group[1] \in DOMAIN d /\ d[group[1]].fun

Tame(d, words) ==
    /\ Nonempty(words)
    /\ \A sp \in DOMAIN d :
         LET body == d[sp].body
         IN /\ Starts(FlattenSeq(body)) /\ Nonempty(FlattenSeq(body))
            /\ \A i \in 2..Len(body) : body[i] = <<"(">> => Callable(d, body[i - 1])

ASSUME MacroAssumption == \A d \in Tables, words \in Texts : Tame(d, words)

(* A macro name stays because it is part of its own expansion.             *)
Painted(words) == \E i \in DOMAIN words : words[i].t \in Macros \cap words[i].b

Init ==
    /\ defs \in Tables
    /\ mode \in Modes
    /\ text \in Texts
    /\ input = Unblocked(text)
    /\ lb = <<>>
    /\ output = <<>>
    /\ pc = "start"

(* Unless Recursive, the #if of a text with a painted name is left out.    *)
Begin ==
    /\ pc = "start"
    /\ pc' = IF mode = "if" /\ ~Recursive /\ Painted(Std.ob) THEN "left out" ELSE "run"
    /\ UNCHANGED <<defs, mode, text, input, lb, output>>

(* A macro name that fastscan reads.                                       *)
Write(ob) ==
    /\ output' = output \o ob.ob
    /\ input' = ob.rest
    /\ pc' = IF ob.bad THEN "error" ELSE "run"

Expand ==
    /\ mode = "text" /\ input # <<>>
    /\ Head(input).t \in Macros
    /\ Write(kfind(Head(input).t, Tail(input)))
    /\ UNCHANGED lb

(* Anything else is copied.                                                *)
Copy ==
    /\ mode = "text" /\ input # <<>>
    /\ Head(input).t \notin Macros
    /\ output' = Append(output, Head(input).t)
    /\ input' = Tail(input)
    /\ UNCHANGED <<lb, pc>>

Value(word) == IF IsName(word) /\ word # "EOF" THEN "0" ELSE word

(* The line of an #if.  What kfind makes of a name becomes the buffer that *)
(* is read next.  If the name was in a buffer itself, what follows there   *)
(* is kept in lpbeg, linp and lif in place of the line: behind it yylex    *)
(* finds the end of the file.                                              *)
Push(ob) ==
    /\ output' = output
    /\ lb' = IF ob.bad THEN <<>> ELSE Unblocked(ob.ob)
    /\ input' = IF Len(lb) > 1 /\ Len(ob.rest) >= Len(input)
                THEN SubSeq(ob.rest, 1, Len(ob.rest) - Len(input))
                     \o Unblocked(<<"EOF">>)
                ELSE ob.rest
    /\ pc' = IF ob.bad THEN "error" ELSE "run"

yylex ==
    LET stream == lb \o input
        word   == Head(stream).t
        rest   == Tail(stream)
    IN /\ mode = "if" /\ stream # <<>>
       /\ IF word \in Macros /\ (defs[word].fun => Opens(rest))
          THEN Push(kfind(word, rest))
          ELSE /\ output' = Append(output, Value(word))
               /\ lb' = IF lb = <<>> THEN lb ELSE Tail(lb)
               /\ input' = IF lb = <<>> THEN rest ELSE input
               /\ pc' = IF word = "EOF" THEN "error" ELSE "run"

End ==
    /\ lb = <<>> /\ input = <<>>
    /\ pc' = "done"
    /\ UNCHANGED <<lb, input, output>>

Step == pc = "run" /\ (Expand \/ Copy \/ yylex \/ End) /\ UNCHANGED <<defs, mode, text>>

Finished == pc \notin {"start", "run"} /\ UNCHANGED vars

Next == Begin \/ Step \/ Finished

Spec == Init /\ [][Next]_vars

-----------------------------------------------------------------------------
As(std) ==
    /\ pc = "error" => std.bad
    /\ pc = "done" =>
         /\ ~std.bad
         /\ output = IF mode = "text" THEN Words(std.ob)
                     ELSE [i \in DOMAIN std.ob |-> Value(std.ob[i].t)]

(* What fastscan has written, and the words the #if evaluator has been     *)
(* given, are the expansion the standard defines, and error() is called    *)
(* for the calls the standard rejects: through nested calls, arguments     *)
(* that are calls, names that come to stand before a parenthesis only      *)
(* after an expansion, and names inside their own expansion (cpp.c         *)
(* 1645-2335, token.c 853 and 1000).                                       *)
ExpandsAsStd == pc \in {"error", "done"} => As(Std)

(* What kfind returns to yylex has no macro call left.  The buffer has no  *)
(* blocks, so a name that was left in it because it is part of its own     *)
(* expansion would be expanded again, for ever (token.c 992-1010).         *)
NothingLeft ==
    \A i \in DOMAIN lb : lb[i].t \in Macros =>
        defs[lb[i].t].fun /\ ~Opens(SubSeq(lb, i + 1, Len(lb)) \o input)
=============================================================================
