---------------------------- MODULE LispMeaning ----------------------------
(**************************************************************************)
(* What a lisp expression means, said without blocks, collections and     *)
(* clones: a reference for EvalForms.  Expressions are trees.  A state    *)
(* s holds the bindings in force, innermost first, the symbols of the     *)
(* thread and the global ones; a function called by name sees its own     *)
(* bindings only (flabel, sfunc.c:511-560), any other form those of its   *)
(* caller.  Requests are evaluated side by side, by EvalForms and here.   *)
(**************************************************************************)
EXTENDS EvalForms

CONSTANTS Depth,        \* of the host's stack, in calls of yleval
          Base,         \* expressions that are evaluated before any other
          Define, Calls,\* what a request may be: a definition, a use of some
          MaxRequests   \* bound: definitions first, and at least one use

VARIABLES program,      \* the requests so far
          world,        \* what the evaluator has made of them
          meaning       \* what they mean

lvars == <<program, world, meaning>>

S(n)   == [k |-> "sym", n |-> n]
NilT   == [k |-> "nil"]
P(x, y) == [k |-> "pair", a |-> x, d |-> y]
L(seq) == FoldRight(LAMBDA x, l : P(x, l), seq, NilT)
TT     == S("t")
B(b)   == IF b THEN TT ELSE NilT

RECURSIVE Items(_), Subst(_, _), REval(_, _, _), RArgs(_, _, _), RCall(_, _, _, _)
RECURSIVE RLast(_, _, _), RUntil(_, _, _, _), RCond(_, _, _), RWhile(_, _, _, _), RCase(_, _, _, _)

Items(l) == IF l.k # "pair" THEN << >> ELSE <<l.a>> \o Items(l.d)
Proper(l) == L(Items(l)) = l

Ret(s, v)  == [s EXCEPT !.val = v]
Bad(s)     == [s EXCEPT !.ok = FALSE]
Go(s, Op(_)) == IF s.ok THEN Op(s) ELSE s

Bindings(ns, vs) == [i \in DOMAIN ns |-> [n |-> ns[i].n, v |-> vs[i], mac |-> FALSE]]
Simple(ns, vs) == Len(ns) = Len(vs) /\ \A i \in DOMAIN ns : ns[i].k = "sym"

\* The name of a binding, of the thread, or global; last a number.
Lookup(n, s) ==
  LET at == {i \in DOMAIN s.env : s.env[i].n = n}
      b  == s.env[Min(at)]
  IN  IF at # {} THEN [Ret(s, b.v) EXCEPT !.mac = b.mac]
      ELSE IF n \in DOMAIN s.t THEN [Ret(s, s.t[n].v) EXCEPT !.mac = s.t[n].mac]
      ELSE IF n \in DOMAIN s.g THEN [Ret(s, s.g[n].v) EXCEPT !.mac = s.g[n].mac]
      ELSE IF n \in Number THEN [Ret(s, [k |-> "dbl", n |-> n]) EXCEPT !.mac = FALSE]
      ELSE Bad(s)

Assign(s, n, v, mac, global) ==
  LET at == {i \in DOMAIN s.env : s.env[i].n = n}
      e  == [v |-> v, mac |-> mac]
  IN  IF at # {} THEN [s EXCEPT !.env[Min(at)] = [n |-> n] @@ e, !.val = v]
      ELSE IF global THEN [s EXCEPT !.g = (n :> e) @@ @, !.val = v]
      ELSE [s EXCEPT !.t = (n :> e) @@ @, !.val = v]

\* Every place of a parameter in e gets its argument.
Subst(e, b) ==
  LET at == {i \in DOMAIN b : e.k = "sym" /\ b[i].n = e.n}
  IN  IF at # {} THEN b[Min(at)].v
      ELSE IF e.k = "pair" THEN P(Subst(e.a, b), Subst(e.d, b)) ELSE e

\* The elements of l are evaluated; the value is the list of their values.
RArgs(l, s, d) ==
  IF l = << >> THEN Ret(s, NilT)
  ELSE Go(REval(Head(l), s, d), LAMBDA u :
       Go(RArgs(Tail(l), u, d), LAMBDA v : Ret(v, P(u.val, v.val))))

\* body is evaluated with bindings that it leaves behind.
Within(s, b, body, d) ==
  Go(REval(body, [s EXCEPT !.env = b \o @], d), LAMBDA u :
        [u EXCEPT !.env = SubSeq(@, Len(b) + 1, Len(@))])

REval(e, s, d) ==
  LET h == e.a
      f == Items(h)
      args == Items(e.d)
      named == h.k = "pair" /\ h.a.k = "sym"
      Known(n) == named /\ h.a.n = n
  IN
  CASE d = 0 -> [Bad(s) EXCEPT !.deep = TRUE]
    [] d > 0 /\ e.k = "sym" ->
         Go(Lookup(e.n, s), LAMBDA u : IF u.mac THEN REval(u.val, u, d - 1) ELSE u)
    [] d > 0 /\ e.k = "pair" /\ h.k = "sym" ->
         Go(Lookup(h.n, s), LAMBDA u :
           IF u.mac THEN REval(P(u.val, e.d), u, d - 1)
           ELSE IF u.val.k # "fun" THEN Bad(u)
           ELSE IF u.val.n \in sfuncs THEN RCall(u.val.n, args, u, d - 1)
           ELSE Go(RArgs(args, u, d - 1), LAMBDA v :
                      RCall(u.val.n, Items(v.val), v, d - 1)))
    [] d > 0 /\ e.k = "pair" /\ Known("lambda") ->
         Go(RArgs(args, s, d - 1), LAMBDA u :
           LET vs == Items(u.val) IN
           IF Len(f) < 3 \/ ~Simple(Items(f[2]), vs) THEN Bad(u)
           ELSE Within(u, Bindings(Items(f[2]), vs), f[3], d - 1))
    [] d > 0 /\ e.k = "pair" /\ Known("mlambda") ->
         IF Len(f) < 3 \/ f[3].k # "pair" \/ (f[2] # NilT /\ ~Simple(Items(f[2]), args))
         THEN Bad(s)
         ELSE IF f[2] = NilT THEN REval(L(Items(f[3]) \o args), s, d - 1)
         ELSE REval(Subst(f[3], Bindings(Items(f[2]), args)), s, d - 1)
    [] d > 0 /\ e.k = "pair" /\ Known("label") ->
         IF Len(f) < 3 \/ f[2].k # "sym" THEN Bad(s)
         ELSE Within(s, Bindings(<<f[2]>>, <<h>>), P(f[3], e.d), d - 1)
    [] d > 0 /\ e.k = "pair" /\ Known("flabel") ->
         Go(RArgs(args, s, d - 1), LAMBDA u :
           LET vs == Items(u.val)
               b  == <<[n |-> f[2].n, v |-> h, mac |-> TRUE]>> \o Bindings(Items(f[3]), vs)
           IN  IF Len(f) < 4 \/ ~Simple(Items(f[3]), vs) THEN Bad(u)
               ELSE Go(REval(f[4], [u EXCEPT !.env = b], d - 1), LAMBDA v :
                          [v EXCEPT !.env = u.env]))
    [] d > 0 /\ e.k = "pair" /\ named
         /\ ~Known("lambda") /\ ~Known("mlambda") /\ ~Known("label") /\ ~Known("flabel") ->
         Go(REval(h, s, d - 1), LAMBDA u : REval(P(u.val, e.d), u, d - 1))
    [] OTHER -> Bad(s)

RLast(l, s, d) ==
  IF l = << >> THEN s
  ELSE Go(REval(Head(l), s, d), LAMBDA u : RLast(Tail(l), u, d))

RUntil(l, s, d, isNil) ==      \* the first of l that is nil, or not
  IF l = << >> THEN Ret(s, B(isNil))
  ELSE Go(REval(Head(l), s, d), LAMBDA u :
         IF (u.val = NilT) = isNil THEN Ret(u, B(~isNil)) ELSE RUntil(Tail(l), u, d, isNil))

RCond(l, s, d) ==
  IF l = << >> THEN Ret(s, NilT)
  ELSE LET c == Items(Head(l)) IN
       IF c = << >> THEN Bad(s)
       ELSE IF c[1] = NilT THEN Bad(s)
       ELSE Go(REval(c[1], s, d), LAMBDA u :
              IF u.val = NilT THEN RCond(Tail(l), u, d)
              ELSE IF Len(c) < 2 THEN Bad(u) ELSE REval(c[2], u, d))

RWhile(c, body, s, d) ==
  IF d = 0 THEN [Bad(s) EXCEPT !.deep = TRUE]
  ELSE Go(REval(c, s, d), LAMBDA u :
         IF u.val = NilT THEN Ret(u, TT)
         ELSE Go(RLast(body, u, d), LAMBDA v : RWhile(c, body, v, d - 1)))

RCase(l, key, s, d) ==
  IF l = << >> THEN Ret(s, NilT)
  ELSE LET k  == Head(l).a
           ks == IF k.k = "pair" THEN Items(k) ELSE <<k>>
           Hit(u, j) == IF ~u.ok \/ u.val = TT THEN u
                        ELSE Go(REval(j, u, d), LAMBDA v : Ret(v, B(v.val = key)))
       IN  IF k = S("otherwise") THEN RLast(Items(Head(l).d), Ret(s, NilT), d)
           ELSE Go(FoldLeft(Hit, Ret(s, NilT), ks), LAMBDA u :
                  IF u.val = TT THEN RLast(Items(Head(l).d), Ret(u, NilT), d)
                  ELSE RCase(Tail(l), key, u, d))

RCall(f, x, s, d) ==
  LET SetTo(mac, global) ==
        IF x[1].k # "sym" THEN Bad(s) ELSE Assign(s, x[1].n, x[2], mac, global)
      Names(i) == Items(Items(x[1])[i])
      vars == [i \in DOMAIN Items(x[1]) |-> Items(x[1])[i].a]
      inits == [i \in DOMAIN Items(x[1]) |-> Names(i)[2]]
      lists == \A i \in DOMAIN Items(x[1]) : Len(Names(i)) >= 2
  IN
  CASE Len(x) \notin Arity(f) -> Bad(s)
    [] f = "quote"  -> Ret(s, x[1])
    [] f = "apply"  -> REval(P(x[1], L([i \in 1 .. Len(x) - 1 |-> L(<<S("quote"), x[i + 1]>>)])), s, d)
    [] f = "progn"  -> RLast(x, Ret(s, NilT), d)
    [] f = "equal"  -> Ret(s, B(x[1] = x[2]))
    [] f \in Setters /\ Len(x) = 3 /\ x[Len(x)].k # "sym" -> Bad(s)
    [] f = "set"    -> SetTo(FALSE, TRUE)
    [] f = "tset"   -> SetTo(FALSE, FALSE)
    [] f = "f-mset" -> SetTo(TRUE, TRUE)
    [] f = "f-tmset" -> SetTo(TRUE, FALSE)
    [] f \in {"unset", "tunset", "set?", "tset?"} /\ x[1].k # "sym" -> Bad(s)
    [] f = "unset"  -> Ret([s EXCEPT !.g = Unset(@, x[1].n)], B(x[1].n \in DOMAIN s.g))
    [] f = "tunset" -> Ret([s EXCEPT !.t = Unset(@, x[1].n)], B(x[1].n \in DOMAIN s.t))
    [] f = "set?"   -> Ret(s, B(x[1].n \in DOMAIN s.g))
    [] f = "tset?"  -> Ret(s, B(x[1].n \in DOMAIN s.t))
    [] f = "eval"   -> REval(x[1], s, d)
    [] f = "f-cond" -> RCond(x, s, d)
    [] f = "f-and"  -> RUntil(x, s, d, TRUE)
    [] f = "f-or"   -> RUntil(x, s, d, FALSE)
    \* The last variable of let is given its value first (nfunc.c:108-122).
    [] f = "f-let"  ->
         IF x[1].k \notin {"nil", "pair"} \/ ~lists THEN Bad(s)
         ELSE IF x[1] = NilT THEN RLast(Tail(x), Ret(s, NilT), d)
         ELSE Go(RArgs(Reverse(inits), s, d), LAMBDA u :
                Within(u, Bindings(Reverse(vars), Items(u.val)), P(S("progn"), L(Tail(x))), d))
    [] f = "f-case" ->
         IF \E i \in 2 .. Len(x) : x[i].k # "pair" THEN Bad(s)
         ELSE Go(REval(x[1], s, d), LAMBDA u : RCase(Tail(x), u.val, u, d))
    [] f = "f-while" -> RWhile(x[1], Tail(x), s, d)
    [] f = "atom"   -> Ret(s, B(x[1].k # "pair"))
    [] f = "null"   -> Ret(s, B(x[1] = NilT))
    [] f \in {"car", "cdr", "setcar", "setcdr"} /\ x[1].k # "pair" -> Bad(s)
    [] f = "car"    -> Ret(s, x[1].a)
    [] f = "cdr"    -> Ret(s, x[1].d)
    [] f = "cons"   -> Ret(s, P(x[1], x[2]))
    [] f = "list"   -> Ret(s, L(x))
    \* Trees have no identity: what eq says and what setcar and setcdr change
    \* is not told.
    [] OTHER -> [Ret(s, TT) EXCEPT !.told = FALSE]

FirstMeaning ==
  [env |-> << >>, t |-> NoSymbol, val |-> NilT, mac |-> FALSE, ok |-> TRUE,
   deep |-> FALSE, told |-> TRUE,
   g |-> [n \in Range(functions) |-> [v |-> [k |-> "fun", n |-> n], mac |-> FALSE]]]
----------------------------------------------------------------------------
\* The reader gives the evaluator fresh blocks (parser.c:171-250).
RECURSIVE Load(_, _), Tree(_, _)
Load(w, e) ==
  CASE e.k = "nil" -> Give(w, nil)
    [] e.k = "sym" -> New(w, Sym(e.n))
    [] OTHER -> LET v == Load(w, e.a) IN LET u == Load(v, e.d) IN cons(u, v.r, u.r)

Tree(w, x) ==
  IF x = nil THEN NilT
  ELSE IF x = NULL THEN [k |-> "cleaned"]
  ELSE LET c == w.h[x]
       IN  IF c.k = "pair" THEN P(Tree(w, c.a), Tree(w, c.d)) ELSE [k |-> c.k, n |-> c.n]

Eval(w, e) == LET u == Load(w, e) IN eval(u, u.r, nil, Depth)

LispInit ==
  /\ program = << >>
  /\ world = FoldLeft(Eval, FirstWorld, Base)
  /\ meaning = FoldLeft(LAMBDA s, e : REval(e, s, Depth), FirstMeaning, Base)

\* An expression of a request, after those that have not failed.
Request(e) ==
  /\ Len(program) < MaxRequests /\ world.r # NULL /\ ~meaning.deep
  /\ program' = Append(program, e)
  /\ world' = Eval(world, e)
  /\ meaning' = REval(e, meaning, Depth)

LispNext ==
  \/ \E e \in Define : Len(program) < MaxRequests - 1 /\ Request(e)
  \/ \E e \in Calls : program # << >> /\ Request(e)

Deep == world.deep \/ meaning.deep
Table(w, tab) ==
  [n \in DOMAIN tab |-> [v |-> Tree(w, tab[n].v), mac |-> tab[n].ty = "mac"]]

\* What the evaluator gives, and the symbols it leaves behind, are what the
\* expressions mean: what is shared and changed in place shows nowhere, and a
\* collection at every safe point takes nothing that is still needed.  When a
\* request succeeds no base block is left (sfunc.c:623-704, mempool.c:98-190).
MeansTheSame ==
  ~Deep /\ meaning.told =>
    /\ (world.r # NULL) = meaning.ok
    /\ meaning.ok => Tree(world, world.r) = meaning.val /\ world.bb = << >>
    /\ Table(world, world.g) = meaning.g /\ Table(world, world.t) = meaning.t

\* The expression of a macro is not changed, whatever is evaluated, except by
\* giving its name another one (sfunc.c:306-327).
MacrosAreKept ==
  ~Deep => \A n \in DOMAIN meaning.g :
             meaning.g[n].mac =>
               n \in DOMAIN world.g /\ Tree(world, world.g[n].v) = meaning.g[n].v
============================================================================
