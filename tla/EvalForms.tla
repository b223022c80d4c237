----------------------------- MODULE EvalForms -----------------------------
(**************************************************************************)
(* The evaluator: yleval and the forms it knows (src/ylisp/sfunc.c), the  *)
(* elementary functions (ylsfunc.h), and the native functions that call   *)
(* back into it or change what it works on (src/ylisp/nfunc.c,            *)
(* src/ylbase/nfunc.c).  Expressions are blocks of the pool, shared and   *)
(* changed in place as in the code, and a collection runs at every safe   *)
(* point, the end of every yleval: what the code still needs must then be *)
(* reachable from a base block or a symbol.                               *)
(*                                                                        *)
(* A world w is what one thread sees: the blocks w.h, the global symbols  *)
(* w.g, those of the thread w.t, the base blocks w.bb.  Every operation   *)
(* gives the next world, its result in w.r; w.r = NULL says that the      *)
(* evaluation has failed, w.deep that it has because the host's stack is  *)
(* exhausted, and w.ty is the *ovty of a look-up.            *)
(**************************************************************************)
EXTENDS Naturals, Sequences, SequencesExt, FiniteSets, TLC

NULL == 0
nil  == 1                 \* predefined blocks, which are not of the pool
t    == 2
q    == 3
elambda == 4
eprogn  == 5

Sym(n)     == [k |-> "sym", n |-> n, st |-> "def"]
Pair(x, y) == [k |-> "pair", a |-> x, d |-> y]
Fun(n, s)  == [k |-> "fun", n |-> n, sfunc |-> s]
Dbl(n)     == [k |-> "dbl", n |-> n]
Cleaned    == [k |-> "pair", a |-> NULL, d |-> NULL]

\* Names that strtod takes for numbers.
Number == {"1", "2"}

sfuncs == {"quote", "apply", "progn"}
functions == <<"quote", "apply", "progn", "eq", "equal", "set", "tset", "f-mset",
  "f-tmset", "unset", "tunset", "set?", "tset?", "eval", "f-cond", "f-and", "f-or",
  "f-let", "f-case", "f-while", "atom", "car", "cdr", "cons", "null", "list",
  "setcar", "setcdr">>
NoSymbol == [n \in {} |-> NULL]

\* ylinit: the predefined blocks, then a block for every native function.
FirstWorld ==
  [h  |-> <<Sym("NIL"), Sym("t"), Sym("quote"), Sym("lambda"), Sym("progn")>>
           \o [i \in DOMAIN functions |-> Fun(functions[i], functions[i] \in sfuncs)],
   g  |-> [n \in Range(functions) |->
             [v |-> eprogn + (CHOOSE i \in DOMAIN functions : functions[i] = n), ty |-> "def"]],
    t  |-> NoSymbol, bb |-> << >>, r |-> nil, ty |-> "def", deep |-> FALSE]

----------------------------------------------------------------------------
Give(w, x)  == [w EXCEPT !.r = x]
Fail(w)     == Give(w, NULL)
New(w, c)   == [w EXCEPT !.h = Append(@, c), !.r = Len(w.h) + 1]
Then(w, Op(_)) == IF w.r = NULL THEN w ELSE Op(w)
Bool(w, b)  == Give(w, IF b THEN t ELSE nil)

atom(w, x)  == w.h[x].k # "pair"
sym(w, x)   == w.h[x].k = "sym" /\ x # nil
car(w, x)   == IF x = NULL \/ atom(w, x) THEN NULL ELSE w.h[x].a
cdr(w, x)   == IF x = NULL \/ atom(w, x) THEN NULL ELSE w.h[x].d
caar(w, x)  == car(w, car(w, x))
cadr(w, x)  == car(w, cdr(w, x))
cdar(w, x)  == cdr(w, car(w, x))
cadar(w, x) == car(w, cdar(w, x))
caddr(w, x) == cadr(w, cdr(w, x))
caddar(w, x) == caddr(w, car(w, x))
cons(w, x, y) == IF NULL \in {x, y} THEN Fail(w) ELSE New(w, Pair(x, y))
List2(w, x, y) == Then(cons(w, y, nil), LAMBDA u : cons(u, x, u.r))
setcar(w, p, x) == [w EXCEPT !.h[p].a = x]
setcdr(w, p, x) == [w EXCEPT !.h[p].d = x]

add_bb(w, S) == [w EXCEPT !.bb = @ \o S]
\* ylmp_rm_bb: the topmost entry of the block is taken out.
rm_bb1(w, x) ==
  IF \A i \in DOMAIN w.bb : w.bb[i] # x THEN w
  ELSE LET top == CHOOSE i \in DOMAIN w.bb :
                    w.bb[i] = x /\ \A j \in i + 1 .. Len(w.bb) : w.bb[j] # x
       IN  [w EXCEPT !.bb = RemoveAt(@, top)]

\* _gc: what no base block and no symbol reaches is cleaned.
RECURSIVE Marked(_, _, _)
Marked(w, done, new) ==
  LET next == (UNION {{car(w, x), cdr(w, x)} : x \in new}) \ (done \cup new \cup {NULL})
  IN  IF new = {} THEN done ELSE Marked(w, done \cup new, next)
Symbols(w) == {w.g[n].v : n \in DOMAIN w.g} \cup {w.t[n].v : n \in DOMAIN w.t}
Roots(w)   == Range(w.bb) \cup Symbols(w)
Collect(w) ==
  LET keep == Marked(w, nil .. eprogn, Roots(w))
  IN  [w EXCEPT !.h = [x \in DOMAIN w.h |-> IF x \in keep THEN w.h[x] ELSE Cleaned]]

----------------------------------------------------------------------------
\* Elementary and recursive S-functions.
RECURSIVE eq(_, _, _), Pairs(_, _), list_find(_, _, _), Clone(_, _), append(_, _, _)
RECURSIVE pair(_, _, _), mreplace(_, _, _), appq(_, _), Firsts(_, _, _), Seconds(_, _, _)

eq(w, x, y) ==
  \/ x = y
  \/ /\ atom(w, x) /\ atom(w, y) /\ nil \notin {x, y}
     /\ w.h[x].k = w.h[y].k /\ w.h[x].n = w.h[y].n
  \/ /\ ~atom(w, x) /\ ~atom(w, y)
     /\ NULL \notin {car(w, x), cdr(w, x), car(w, y), cdr(w, y)}
     /\ eq(w, car(w, x), car(w, y)) /\ eq(w, cdr(w, x), cdr(w, y))

\* ylelist_size: an atom at the end is not counted.
Pairs(w, x) == IF x = NULL \/ atom(w, x) THEN 0 ELSE 1 + Pairs(w, cdr(w, x))
Size(w, x) == IF x # NULL /\ x # nil /\ atom(w, x) THEN 1 ELSE Pairs(w, x)

list_find(w, x, y) ==
  IF y = NULL \/ atom(w, y) THEN NULL
  ELSE IF car(w, y) = NULL \/ atom(w, car(w, y)) THEN NULL
  ELSE IF eq(w, caar(w, y), x) THEN car(w, y) ELSE list_find(w, x, cdr(w, y))

Clone(w, x) ==            \* _list_clone: pairs only, atoms are shared
  IF atom(w, x) THEN Give(w, x)
  ELSE Then(Clone(w, car(w, x)), LAMBDA u :
       Then(Clone(u, cdr(w, x)), LAMBDA v : cons(v, u.r, v.r)))

append(w, x, y) ==
  IF x = nil THEN Give(w, y)
  ELSE Then(append(w, cdr(w, x), y), LAMBDA u : cons(u, car(w, x), u.r))

pair(w, x, y) ==
  IF x = nil /\ y = nil THEN Give(w, nil)
  ELSE IF x = NULL \/ y = NULL \/ atom(w, x) \/ atom(w, y) THEN Fail(w)
  ELSE Then(pair(w, cdr(w, x), cdr(w, y)), LAMBDA u :
       Then(List2(u, car(w, x), car(w, y)), LAMBDA v : cons(v, v.r, u.r)))

\* The places of e that hold an argument's name get the parameter.
mreplace(w, e, a) ==
  IF e = NULL \/ atom(w, e) THEN Fail(w)
  ELSE LET Put(u, x, Set(_, _, _)) ==
             LET n == list_find(u, x, a)
             IN  IF n = NULL THEN Give(u, e) ELSE Give(Set(u, e, cadr(u, n)), e)
           u1 == IF atom(w, car(w, e)) THEN Put(w, car(w, e), setcar)
                 ELSE mreplace(w, car(w, e), a)
       IN  Then(u1, LAMBDA u :
             IF atom(u, cdr(u, e)) THEN Put(u, cdr(u, e), setcdr)
             ELSE mreplace(u, cdr(u, e), a))

appq(w, m) ==
  IF m = nil THEN Give(w, nil)
  ELSE Then(appq(w, cdr(w, m)), LAMBDA u :
       Then(List2(u, q, car(w, m)), LAMBDA v : cons(v, v.r, u.r)))

\* _pair_to_1st_element_list and _pair_to_2nd_element_list, in reverse.
Firsts(w, p, l) ==
  IF p = nil THEN Give(w, l)
  ELSE Then(cons(w, caar(w, p), l), LAMBDA u : Firsts(u, cdr(u, p), u.r))
Seconds(w, p, l) ==
  IF p = nil THEN Give(w, l)
  ELSE Then(cons(w, cadar(w, p), l), LAMBDA u : Seconds(u, cdr(u, p), u.r))

----------------------------------------------------------------------------
\* _set.  A name of the association list gets its value, and its type, there;
\* any other becomes a symbol, of the thread or global.
Set(w, s, v, a, ty, global) ==
  LET p == list_find(w, s, a)
      e == [v |-> v, ty |-> ty]
  IN  IF ~sym(w, s) THEN Fail(w)
      ELSE IF p # NULL
      THEN IF atom(w, cdr(w, p)) THEN Fail(w)
           ELSE Then(cons([w EXCEPT !.h[car(w, p)].st = ty], v, nil),
                     LAMBDA u : Give(setcdr(u, p, u.r), v))
      ELSE IF global THEN [w EXCEPT !.g = (w.h[s].n :> e) @@ @, !.r = v]
      ELSE [w EXCEPT !.t = (w.h[s].n :> e) @@ @, !.r = v]

Unset(tab, n) == [m \in DOMAIN tab \ {n} |-> tab[m]]

\* A wrong version of assoc: a macro's value is not cloned.
AssocUncloned(w, x, a) ==
  LET n == w.h[x].n
      p == list_find(w, x, a)
  IN  IF ~sym(w, x) THEN Fail(w)
      ELSE IF p # NULL THEN [w EXCEPT !.r = cadr(w, p), !.ty = w.h[car(w, p)].st]
      ELSE IF n \in DOMAIN w.t THEN [w EXCEPT !.r = w.t[n].v, !.ty = w.t[n].ty]
      ELSE IF n \in DOMAIN w.g THEN [w EXCEPT !.r = w.g[n].v, !.ty = w.g[n].ty]
      ELSE IF n \in Number THEN [New(w, Dbl(n)) EXCEPT !.ty = "def"] ELSE Fail(w)

\* _assoc: the association list, the thread's symbols, the global ones, and
\* last a number.
assoc(w, x, a) ==
  LET n == w.h[x].n
      p == list_find(w, x, a)
      u == IF p # NULL THEN [w EXCEPT !.r = cadr(w, p), !.ty = w.h[car(w, p)].st]
           ELSE IF n \in DOMAIN w.t THEN [w EXCEPT !.r = w.t[n].v, !.ty = w.t[n].ty]
           ELSE [w EXCEPT !.r = w.g[n].v, !.ty = w.g[n].ty]
  IN  IF ~sym(w, x) THEN Fail(w)
      ELSE IF p # NULL \/ n \in DOMAIN w.t \cup DOMAIN w.g
      THEN IF u.ty = "mac" THEN Then(u, LAMBDA v : Clone(v, v.r)) ELSE u
      ELSE IF n \in Number THEN [New(w, Dbl(n)) EXCEPT !.ty = "def"] ELSE Fail(w)

----------------------------------------------------------------------------
\* The evaluator.  d bounds the depth of the recursion; beyond it the host's
\* stack is taken to be exhausted.
RECURSIVE eval(_, _, _, _), evlis(_, _, _, _), Call(_, _, _, _, _), evcon(_, _, _, _)
RECURSIVE Connect(_, _, _, _), All(_, _, _, _, _), Each(_, _, _, _)
RECURSIVE While(_, _, _, _, _), Case(_, _, _, _, _), AnyKey(_, _, _, _, _)

\* A wrong version of evlis: what has been evaluated is not protected.
EvlisUnprotected(w, m, a, d) ==
  IF m = nil THEN Give(w, nil)
  ELSE Then(eval(w, car(w, m), a, d), LAMBDA u :
       Then(evlis(u, cdr(w, m), a, d), LAMBDA v : cons(v, u.r, v.r)))

evlis(w, m, a, d) ==
  IF m = nil THEN Give(w, nil)
  ELSE Then(eval(w, car(w, m), a, d), LAMBDA u :
       Then(evlis(add_bb(u, <<u.r>>), cdr(w, m), a, d), LAMBDA v :
       Then(cons(v, u.r, v.r), LAMBDA x : rm_bb1(x, u.r))))

evatom_form(w, e, a, d) ==
  IF ~sym(w, e) THEN Fail(w)
  ELSE Then(assoc(w, e, a), LAMBDA u : IF u.ty = "mac" THEN eval(u, u.r, a, d) ELSE u)

\* A macro is replaced by its value and the form evaluated again; else the
\* value must be a native function.
evfunc_form(w, e, a, d) ==
  IF ~sym(w, car(w, e)) THEN Fail(w)
  ELSE Then(assoc(w, car(w, e), a), LAMBDA u :
    IF u.ty = "mac"
    THEN Then(cons(u, u.r, cdr(u, e)), LAMBDA v : eval(v, v.r, a, d))
    ELSE LET f == u.h[u.r] IN
         IF f.k # "fun" THEN Fail(u)
         ELSE IF f.sfunc THEN Call(u, f.n, cdr(u, e), a, d)
         ELSE Then(evlis(add_bb(u, <<u.r>>), cdr(u, e), a, d), LAMBDA v :
              Then(Call(add_bb(rm_bb1(v, u.r), <<v.r>>), f.n, v.r, a, d), LAMBDA x :
              rm_bb1(x, v.r))))

lambda(w, e, a, d) ==
  Then(evlis(w, cdr(w, e), a, d), LAMBDA u :
  Then(pair(u, cadar(u, e), u.r), LAMBDA v :
  Then(append(v, v.r, a), LAMBDA x : eval(x, caddar(x, e), x.r, d))))

Connect(w, p, x, e) ==    \* to the end of the list p, then x behind it
  IF cdr(w, p) = NULL THEN Fail(w)
  ELSE IF cdr(w, p) = nil THEN Give(setcdr(w, p, x), e)
  ELSE Connect(w, cdr(w, p), x, e)

\* Wrong versions of mlambda and flabel: the body is changed in place; the
\* caller's association list is inherited.
MlambdaInPlace(w, e, a, d) ==
  IF cadar(w, e) = nil /\ caddar(w, e) # nil
  THEN Then(Connect(w, caddar(w, e), cdr(w, e), caddar(w, e)), LAMBDA u : eval(u, u.r, a, d))
  ELSE Then(pair(w, cadar(w, e), cdr(w, e)), LAMBDA u :
       Then(mreplace(u, caddar(u, e), u.r), LAMBDA v : eval(v, v.r, a, d)))

FlabelInherits(w, e, a, d) ==
  LET fl == car(w, e)
      name == cadr(w, fl)
  IN  Then(evlis([w EXCEPT !.h[name].st = "mac"], cdr(w, e), a, d), LAMBDA u :
      Then(pair(u, caddr(u, fl), u.r), LAMBDA v :
      Then(append(v, v.r, a), LAMBDA z :
      Then(List2(z, name, fl), LAMBDA x :
      Then(cons(x, x.r, z.r), LAMBDA y : eval(y, caddr(y, cdr(y, fl)), y.r, d))))))

\* Without arguments the parameters are appended to the body, else they replace
\* the arguments in it: in a clone, whichever.
mlambda(w, e, a, d) ==
  IF NULL \in {cadar(w, e), caddar(w, e)} THEN Fail(w)
  ELSE Then(Clone(w, caddar(w, e)), LAMBDA u :
    IF cadar(w, e) = nil /\ caddar(w, e) # nil
    THEN Then(Connect(u, u.r, cdr(u, e), u.r), LAMBDA v : eval(v, v.r, a, d))
    ELSE Then(pair(u, cadar(u, e), cdr(u, e)), LAMBDA v :
         Then(mreplace(v, u.r, v.r), LAMBDA x : eval(x, u.r, a, d))))

label(w, e, a, d) ==
  IF cadar(w, e) = NULL \/ ~sym(w, cadar(w, e)) THEN Fail(w)
  ELSE Then(cons(w, caddar(w, e), cdr(w, e)), LAMBDA u :
       Then(List2(u, cadar(u, e), car(u, e)), LAMBDA v :
       Then(cons(v, v.r, a), LAMBDA x : eval(x, u.r, x.r, d))))

\* The association list is the parameters and the function's own name, nothing
\* of the caller's; the name is marked as a macro.
flabel(w, e, a, d) ==
  LET fl == car(w, e)
      name == cadr(w, fl)
  IN  IF name = NULL \/ ~sym(w, name) THEN Fail(w)
      ELSE Then(evlis([w EXCEPT !.h[name].st = "mac"], cdr(w, e), a, d), LAMBDA u :
           Then(pair(u, caddr(u, fl), u.r), LAMBDA v :
           Then(List2(v, name, fl), LAMBDA x :
           Then(cons(x, x.r, v.r), LAMBDA y : eval(y, caddr(y, cdr(y, fl)), y.r, d)))))

\* What is none of the four forms is evaluated, and the form again with it.
evlambda_form(w, e, a, d) ==
  LET s == caar(w, e)
      n == IF sym(w, s) THEN w.h[s].n ELSE ""
  IN  CASE ~sym(w, s)    -> Fail(w)
        [] n = "lambda"  -> lambda(w, e, a, d)
        [] n = "mlambda" -> mlambda(w, e, a, d)
        [] n = "label"   -> label(w, e, a, d)
        [] n = "flabel"  -> flabel(w, e, a, d)
        [] OTHER -> Then(eval(w, car(w, e), a, d), LAMBDA u :
                    Then(cons(u, u.r, cdr(u, e)), LAMBDA v : eval(v, v.r, a, d)))

\* yleval: e and a are base blocks until the safe point, where r is one.
eval(w, e, a, d) ==
  IF d = 0 THEN [Fail(w) EXCEPT !.deep = TRUE] ELSE IF e = NULL THEN Fail(w)
  ELSE LET u == add_bb(w, <<e, a>>)
           v == IF atom(w, e) THEN evatom_form(u, e, a, d - 1)
                ELSE IF car(w, e) = NULL THEN Fail(u)
                ELSE IF atom(w, car(w, e)) THEN evfunc_form(u, e, a, d - 1)
                ELSE IF caar(w, e) # NULL /\ atom(w, caar(w, e))
                THEN evlambda_form(u, e, a, d - 1) ELSE Fail(u)
       IN  Then(v, LAMBDA x : LET y == rm_bb1(rm_bb1(x, e), a)
                              IN  rm_bb1(Collect(add_bb(y, <<x.r>>)), x.r))

----------------------------------------------------------------------------
\* Native functions that evaluate.
Each(w, e, a, d) ==       \* progn: the value of the last
  IF e = nil THEN w
  ELSE Then(eval(w, car(w, e), a, d), LAMBDA u : Each(u, cdr(u, e), a, d))

evcon(w, c, a, d) ==
  IF c = nil THEN Give(w, nil)
  ELSE IF car(w, c) = NULL \/ atom(w, car(w, c)) \/ caar(w, c) = nil THEN Fail(w)
  ELSE Then(eval(w, caar(w, c), a, d), LAMBDA u :
         IF u.r # nil THEN eval(u, cadar(u, c), a, d) ELSE evcon(u, cdr(u, c), a, d))

All(w, e, a, d, isAnd) == \* f_and, f_or
  IF e = nil THEN Bool(w, isAnd)
  ELSE Then(eval(w, car(w, e), a, d), LAMBDA u :
         IF (u.r = nil) = isAnd THEN Bool(u, ~isAnd) ELSE All(u, cdr(u, e), a, d, isAnd))

While(w, c, body, a, d) ==
  IF d = 0 THEN [Fail(w) EXCEPT !.deep = TRUE]
  ELSE Then(eval(w, c, a, d), LAMBDA u :
         IF u.r = nil THEN Bool(u, TRUE)
         ELSE Then(Each(u, body, a, d), LAMBDA v : While(v, c, body, a, d - 1)))

let(w, e, a, d) ==        \* f_let makes a lambda form of it
  IF car(w, e) # nil /\ atom(w, car(w, e)) THEN Fail(w)
  ELSE Then(Firsts(w, car(w, e), nil), LAMBDA u :
       Then(Seconds(u, car(u, e), nil), LAMBDA v :
       Then(cons(v, eprogn, cdr(v, e)), LAMBDA x :
         IF u.r = nil THEN eval(x, x.r, a, d)
         ELSE Then(List2(x, u.r, x.r), LAMBDA y :
              Then(cons(y, elambda, y.r), LAMBDA z :
              Then(cons(z, z.r, v.r), LAMBDA r : eval(r, r.r, a, d)))))))

AnyKey(w, ks, key, a, d) ==
  IF ks = nil THEN Bool(w, FALSE)
  ELSE Then(eval(w, car(w, ks), a, d), LAMBDA u :
         IF eq(u, key, u.r) THEN Bool(u, TRUE) ELSE AnyKey(u, cdr(u, ks), key, a, d))

Case(w, e, key, a, d) ==  \* gives the clause that fits, or nil
  IF e = nil THEN Give(w, nil)
  ELSE LET k == caar(w, e)
           u == IF k = NULL THEN Fail(w)
                ELSE IF sym(w, k) /\ w.h[k].n = "otherwise" THEN Bool(w, TRUE)
                ELSE IF atom(w, k)
                THEN Then(eval(w, k, a, d), LAMBDA v : Bool(v, eq(v, key, v.r)))
                ELSE AnyKey(w, k, key, a, d)
       IN  Then(u, LAMBDA v : IF v.r = t THEN Give(v, car(v, e)) ELSE Case(v, cdr(v, e), key, a, d))

RECURSIVE PairChain(_, _)
PairChain(w, e) == IF atom(w, e) THEN e = nil ELSE ~atom(w, car(w, e)) /\ PairChain(w, cdr(w, e))

case(w, e, a, d) ==
  IF ~PairChain(w, cdr(w, e)) THEN Fail(w)
  ELSE Then(eval(w, car(w, e), a, d), LAMBDA u :
       Then(Case(add_bb(u, <<u.r>>), cdr(u, e), u.r, a, d), LAMBDA v :
         LET x == rm_bb1(v, u.r)
         IN  IF v.r = nil THEN x ELSE Each(Give(x, nil), cdr(x, v.r), a, d)))

Setters == {"set", "tset", "f-mset", "f-tmset"}

\* The number of parameters a native function takes.
Arity(f) ==
  CASE f \in {"quote", "unset", "tunset", "set?", "tset?", "eval", "atom", "car", "cdr", "null"} -> 1 .. 1
    [] f \in {"eq", "equal", "setcar", "setcdr", "cons"} -> 2 .. 2
    [] f \in Setters -> 2 .. 3
    [] f \in {"apply", "progn", "f-cond", "f-and", "f-or"} -> 1 .. 9999
    [] f \in {"f-let", "f-case", "f-while"} -> 2 .. 9999
    [] OTHER -> 0 .. 9999

Call(w, f, e, a, d) ==
  LET x == car(w, e)
      y == cadr(w, e)
  IN  CASE Size(w, e) \notin Arity(f) -> Fail(w)
        [] f = "quote"   -> Give(w, x)
        [] f = "apply"   -> Then(appq(w, cdr(w, e)), LAMBDA u :
                            Then(cons(u, x, u.r), LAMBDA v : eval(v, v.r, a, d)))
        [] f = "progn"   -> Each(Give(w, nil), e, a, d)
        [] f = "eq"      -> Bool(w, x = y)
        [] f = "equal"   -> Bool(w, eq(w, x, y))
        [] f \in Setters /\ Size(w, e) = 3 /\ ~sym(w, caddr(w, e)) -> Fail(w)
        [] f = "set"     -> Set(w, x, y, a, "def", TRUE)
        [] f = "tset"    -> Set(w, x, y, a, "def", FALSE)
        [] f = "f-mset"  -> Set(w, x, y, a, "mac", TRUE)
        [] f = "f-tmset" -> Set(w, x, y, a, "mac", FALSE)
        [] f \in {"unset", "tunset", "set?", "tset?"} /\ ~sym(w, x) -> Fail(w)
        [] f = "unset"   -> Bool([w EXCEPT !.g = Unset(@, w.h[x].n)], w.h[x].n \in DOMAIN w.g)
        [] f = "tunset"  -> Bool([w EXCEPT !.t = Unset(@, w.h[x].n)], w.h[x].n \in DOMAIN w.t)
        [] f = "set?"    -> Bool(w, w.h[x].n \in DOMAIN w.g)
        [] f = "tset?"   -> Bool(w, w.h[x].n \in DOMAIN w.t)
        [] f = "eval"    -> eval(w, x, a, d)
        [] f = "f-cond"  -> evcon(w, e, a, d)
        [] f = "f-and"   -> All(w, e, a, d, TRUE)
        [] f = "f-or"    -> All(w, e, a, d, FALSE)
        [] f = "f-let"   -> let(w, e, a, d)
        [] f = "f-case"  -> case(w, e, a, d)
        [] f = "f-while" -> While(w, x, cdr(w, e), a, d)
        [] f = "atom"    -> Bool(w, atom(w, x))
        [] f = "car"     -> Give(w, car(w, x))
        [] f = "cdr"     -> Give(w, cdr(w, x))
        [] f = "cons"    -> cons(w, x, y)
        [] f = "null"    -> Bool(w, x = nil)
        [] f = "list"    -> append(w, e, nil)
        [] f \in {"setcar", "setcdr"} /\ atom(w, x) -> Fail(w)
        [] f = "setcar"  -> Bool(setcar(w, x, y), TRUE)
        [] f = "setcdr"  -> Bool(setcdr(w, x, y), TRUE)
============================================================================
