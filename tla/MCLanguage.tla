----------------------------- MODULE MCLanguage -----------------------------
(* Model-checking instances of the reader, the evaluator and the printer,    *)
(* side by side: part says which of them a behaviour is of.                  *)
EXTENDS Grammar, Printer

CONSTANTS Depth, MaxRequests
VARIABLES part, program, world, meaning

lvars == <<program, world, meaning>>

S(n) == [k |-> "sym", n |-> n]
P(x, y) == [k |-> "pair", a |-> x, d |-> y]
RECURSIVE L(_)
L(seq) == IF seq = << >> THEN [k |-> "nil"] ELSE P(Head(seq), L(Tail(seq)))
TT == S("t")

\* Expressions: what they are made of, bodies of functions and macros, the
\* definitions of yls/base.yl that the others use, definitions, uses.
Q(e) == L(<<S("quote"), e>>)
F(n, args) == P(S(n), L(args))
X == S("x")
Y == S("y")
A == Q(S("a"))
AB == Q(L(<<S("a"), S("b")>>))
x1 == <<X>>

Mlambda(ps, body) == F("mlambda", <<L(ps), body>>)
Append_(f) == Mlambda(<< >>, F("apply", <<S(f)>>))
MCBase == <<
  F("f-mset", <<Q(S("mset")), Q(Append_("f-mset")), Q(S("d"))>>),
  F("mset", <<S("defun"),
     Mlambda(<<S("nAME"), S("aRG"), S("dESC"), S("bODY")>>,
       F("mset", <<S("nAME"), F("flabel", <<S("nAME"), S("aRG"), S("bODY")>>), S("dESC")>>)), S("d")>>),
  F("mset", <<S("defmacro"),
     Mlambda(<<S("nAME"), S("aRG"), S("dESC"), S("bODY")>>,
       F("mset", <<S("nAME"), F("mlambda", <<S("aRG"), S("bODY")>>), S("dESC")>>)), S("d")>>),
  F("mset", <<S("cond"), Append_("f-cond")>>) >>

Defun(f, body) == F("defun", <<S(f), L(x1), S("d"), body>>)
Defmacro(f, body) == F("mset", <<S(f), Mlambda(x1, body)>>)
Cond2(c, e1, e2) == F("cond", <<L(<<c, e1>>), L(<<Q(TT), e2>>)>>)

Body == {F("cons", <<X, Y>>),
  F("progn", <<F("set", <<Q(X), F("cons", <<X, X>>)>>), X>>),
  Cond2(F("null", <<X>>), A, F("f", <<F("cdr", <<X>>)>>)),
  F("f-let", <<L(<<L(<<Y, X>>), L(<<X, Y>>)>>), F("cons", <<X, Y>>)>>),
  F("m", <<X>>), F("set", <<Q(Y), X>>),
  F("progn", <<F("setcar", <<Y, Q(S("c"))>>), Y>>),
  F("f-case", <<X, L(<<Y, A>>), L(<<L(<<S("1"), Y>>), X>>), L(<<S("otherwise"), Y>>)>>),
  F("f-and", <<X, F("f-or", <<Y, X>>)>>),
  F("f-while", <<X, F("set", <<Q(X), F("cdr", <<X>>)>>)>>),
  X, F("list", <<F("f", <<Y>>), X>>)}

MCDefine == {Defun("f", b) : b \in Body} \cup {Defmacro("m", b) : b \in Body} \cup {F("mset", <<S("m"), AB>>)}
  \cup {F("mset", <<S("m"), F("label", <<S("m"), F("lambda", <<L(x1), b>>)>>)>>) : b \in {F("cons", <<X, Y>>), F("f", <<X>>)}}
MCCalls == {F("set", <<Q(Y), AB>>), F("tset", <<Q(Y), S("1")>>), F("mset", <<Y, AB>>),
  F("f", <<A>>), F("f", <<AB>>), F("f", <<Y>>), F("m", <<Y>>), F("m", <<AB>>), F("m", <<F("f", <<A>>)>>),
  F("f", <<F("m", <<Y>>)>>), P(F("lambda", <<L(<<X, Y>>), F("f", <<Y>>)>>), L(<<A, AB>>)),
  F("setcar", <<S("m"), Q(S("c"))>>), F("unset", <<Q(Y)>>), F("tunset", <<Q(Y)>>), F("list", <<F("f", <<Y>>), F("f", <<Y>>)>>),
  F("eval", <<Q(F("f", <<AB>>))>>), F("progn", <<F("setcar", <<Y, Q(S("c"))>>), Y>>)}

E == INSTANCE LispMeaning WITH Base <- MCBase, Define <- MCDefine, Calls <- MCCalls

MCInit == part \in {"read", "eval", "print"} /\ ParserInit /\ E!LispInit /\ PrinterInit

ReadStep  == part = "read"  /\ ParserNext    /\ UNCHANGED <<part, lvars, prvars>>
EvalStep  == part = "eval"  /\ E!LispNext    /\ UNCHANGED <<part, pvars, prvars>>
PrintStep == part = "print" /\ PrinterNext /\ UNCHANGED <<part, pvars, lvars>>

MCSpec == MCInit /\ [][ReadStep \/ EvalStep \/ PrintStep]_<<part, pvars, lvars, prvars>>

RECURSIVE Shown(_)
Shown(c) ==
  IF c = "NIL" THEN << >>
  ELSE LET x == heap[c].car
       IN  <<IF x \in Cell THEN List(Shown(x)) ELSE Symbol(<<x>>)>> \o Shown(heap[c].cdr)

\* What is printed of lists of symbols, the reader reads as those lists
\* (lisp.c:476-577, parser.c:301-582).
ReadsBack ==
  printed # << >> /\ IsTree /\ (\A i \in DOMAIN printed : printed[i] \in Alphabet)
    => Reading(printed).ok /\ Reading(printed).items = <<List(Shown(Root))>>

\* The evaluator gives what the expressions mean, and the expression of a macro stays
\* what it was, though arguments are bound in it in place (sfunc.c:300-704); and
\* what is printed means the same when it is read.
MeansTheSame == E!MeansTheSame /\ E!MacrosAreKept /\ ReadsBack
=============================================================================
