------------------------------ MODULE Grammar ------------------------------
(* The language that the automata of Parser accept, as a descent over the   *)
(* whole text: the reference that the automata are held against.  A function *)
(* over the places of a text says what is read from each, in a list, in a   *)
(* quote, or between requests, and as the rest of a symbol or a string.     *)
EXTENDS Parser

Opening == "("
Closing == ")"
Comment == ";"

\* What is read from a place on: whether it comes to its end, which items it
\* has, up to the first mistake, and what is the place behind it.
Done(at) == [ok |-> TRUE, items |-> << >>, at |-> at]
Mistake == [ok |-> FALSE, items |-> << >>, at |-> 0]
Onto(items, r) == [ok |-> r.ok, items |-> items \o r.items, at |-> r.at]

\* Items that are one element, and an element followed by what else f reads.
Group(r) == [ok |-> r.ok, val |-> List(r.items), at |-> r.at]
Named(w, cs, r) ==
  LET name == cs \o r.items
  IN  [ok |-> r.ok /\ Len(name) < BufSize, val |-> Symbol(name),
       at |-> IF w = "dquote" THEN r.at + 1 ELSE r.at]
Then(e, f, w) == IF e.ok THEN Onto(<<e.val>>, f[e.at][w]) ELSE Mistake

\* The characters of a symbol or a string, with escapes replaced.
Stop(w) == IF w = "dquote" THEN {"dquote"} ELSE Special \ {"escape"}
Escaped(t, f, i, w) ==
  IF i > Len(t) \/ t[i] \notin {"dquote", "escape", "n"} THEN Mistake
  ELSE Onto(<<IF t[i] = "n" THEN "newline" ELSE t[i]>>, f[i + 1][w])
Characters(t, f, i, w) ==
  IF i > Len(t) THEN Mistake
  ELSE IF t[i] \in Stop(w) THEN Done(i)
  ELSE IF t[i] = "escape" THEN Escaped(t, f, i + 1, w)
  ELSE Onto(<<t[i]>>, f[i + 1][w])

\* One element: a string, a list, a quote or a symbol.
Element(t, f, i) ==
  CASE t[i] = "dquote" -> Named("dquote", << >>, f[i + 1]["dquote"])
    [] t[i] = Opening -> Group(f[i + 1]["list"])
    [] t[i] = "squote" -> Group(Onto(<<quote>>, f[i + 1]["squote"]))
    [] OTHER           -> Named("symbol", << >>, Characters(t, f, i, "symbol"))

CommentEnd(t, i) ==
  CHOOSE j \in i .. Len(t) + 1 :
    /\ j = Len(t) + 1 \/ t[j] = "newline"
    /\ \A k \in i .. j - 1 : t[k] # "newline"

\* Elements up to the end of the text, of a list, or of a quote, which any
\* separator ends.
Breaks == {Closing, Comment} \cup Blank
Elements(t, f, i, w) ==
  IF i > Len(t) THEN IF w = "init" THEN Done(i) ELSE Mistake
  ELSE IF w = "squote" /\ t[i] \in Breaks THEN Done(i)
  ELSE IF t[i] \in Blank THEN f[i + 1][w]
  ELSE IF t[i] = Comment THEN f[CommentEnd(t, i)][w]
  ELSE IF t[i] = Closing THEN IF w = "list" THEN Done(i + 1) ELSE Mistake
  ELSE Then(Element(t, f, i), f, w)

ReadFrom(t, f, i) ==
  [w \in {"init", "list", "squote", "symbol", "dquote"} |->
     IF w \in {"symbol", "dquote"} THEN Characters(t, f, i, w) ELSE Elements(t, f, i, w)]
Readings(t) == LET f[i \in 1 .. Len(t) + 1] == ReadFrom(t, f, i) IN f

Reading(t) == Readings(Append(t, "newline"))[1]["init"]

\* When the automata stop, they have evaluated what the text says, in order:
\* all of it, or what precedes the first mistake, whichever characters they
\* hand on to each other (parser.c:301-582, 625-692).
EvaluatesText ==
  status # "reading" =>
    /\ evaluated = Reading(text).items
    /\ (status = "done") = Reading(text).ok

\* And the stacks of automata and of lists agree after every character.
ReadsText == EvaluatesText /\ StacksAgree

\* A quote holds one expression, which is what quote takes (nfunc.c:44).
QuoteHoldsOne ==
  \A i \in 1 .. Len(evaluated) :
    LET e == evaluated[i]
    IN  "list" \in DOMAIN e /\ e.list # << >> /\ e.list[1] = quote => Len(e.list) = 2

\* The inductive invariant of the proof in TextProofs.  Of every text t that may
\* come of the characters so far, what is read is said by the lists under
\* construction: each becomes an element of the one below it, when the last of
\* them has been read to its end.
Place == Len(text) + (IF ended THEN 1 ELSE 0) + (IF look = NoChar THEN 1 ELSE 0)
Continues(t) ==
  /\ Len(text) <= Len(t) /\ \A i \in 1 .. Len(text) : t[i] = text[i]
  /\ ended => Len(t) = Len(text) + 1 /\ t[Len(t)] = "newline"

\* What is read in the last of n lists from place p on, with b in the buffer.
Inner(t, f, s, n, b, p) ==
  IF Len(s) = n THEN f[p][s[n]]
  ELSE IF Len(s) = n + 2 THEN Then(Named(s[n + 1], b, Escaped(t, f, p, s[n + 1])), f, s[n])
  ELSE IF s[n + 1] = "comment" THEN f[CommentEnd(t, p)][s[n]]
  ELSE Then(Named(s[n + 1], b, f[p][s[n + 1]]), f, s[n])
Chain(f, s, own, n, x) ==
  \E r : /\ r[1] = f[1]["init"]
         /\ r[n] = Onto(own[n], x)
         /\ \A k \in 1 .. n - 1 : r[k] = Onto(own[k], Then(Group(r[k + 1]), f, s[k]))
Own == [k \in 1 .. Len(lists) |-> IF k = 1 THEN evaluated ELSE lists[k]]
SoFar(t) ==
  Chain(Readings(t), ststk, Own, Len(lists), Inner(t, Readings(t), ststk, Len(lists), buf, Place))

GrammarTypes ==
  /\ text \in Seq(Alphabet) /\ ended \in BOOLEAN /\ status \in {"reading", "done", "error"}
  /\ look # NoChar => IF ended THEN look = "newline" ELSE text # << >> /\ look = text[Len(text)]
  /\ st = "comment" => ststk[Len(ststk) - 1] # "squote" /\ ~(ended /\ look = NoChar)
  /\ \A k \in 1 .. Len(lists) : IsSequence(Own[k])
GrammarInv ==
  /\ ParserInv /\ GrammarTypes
  /\ status = "reading" =>
       \A t \in Seq(Alphabet \cup {"newline"}) : Continues(t) => SoFar(t)
  /\ EvaluatesText
=============================================================================
