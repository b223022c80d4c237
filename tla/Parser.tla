------------------------------ MODULE Parser ------------------------------
(*************************************************************************)
(* The reader of lisp text (src/ylisp/parser.c): a stack of automata over *)
(* the characters of a stream.  Every automaton says what a character     *)
(* does (its next_char), and ylinterp_automata moves between them.  An    *)
(* expression is evaluated as soon as it is complete, so what precedes an *)
(* error has been evaluated.                                              *)
(*                                                                        *)
(* Characters are names: "dquote", "squote" and "escape" are the three    *)
(* quoting characters, "n" is the letter that can be escaped, "a" any     *)
(* other, "newline" stands for the line feed.  The lists under            *)
(* construction, which the code links by their last pairs (pe, pestk),    *)
(* are sequences.                                                         *)
(*************************************************************************)
EXTENDS Naturals, Sequences, FiniteSets

CONSTANTS
  Alphabet,               \* the characters of the stream
  BufSize,            \* bytes of the symbol buffer (bsz)
  MaxText             \* longest stream

Blank == {"space", "newline"}
Special == {"dquote", "squote", "escape", "(", ")", ";"} \cup Blank
NoChar == "none"

ASSUME ParserAssumption == NoChar \notin Alphabet /\ BufSize \in Nat \ {0}

VARIABLES
  text,               \* the characters fetched so far
  look,               \* *p, if it has not been handled yet
  ended,              \* the line feed behind the stream has been fetched
  ststk,              \* the stack of automata, the current one last
  lists,              \* the open lists, that of init first
  buf,                \* the characters from b to pb
  evaluated,          \* expressions handed to yleval
  status              \* "reading", then "done" or "error"

pvars == <<text, look, ended, ststk, lists, buf, evaluated, status>>

st   == ststk[Len(ststk)]
open == lists[Len(lists)]
Below(s) == SubSeq(s, 1, Len(s) - 1)
Add(e) == [lists EXCEPT ![Len(lists)] = Append(@, e)]

Symbol(cs) == [sym |-> cs]
List(es)   == [list |-> es]
quote      == Symbol(<<"quote">>)

ParserInit ==
  /\ text = << >> /\ look = NoChar /\ ended = FALSE
  /\ ststk = <<"init">> /\ lists = << << >> >>
  /\ buf = << >> /\ evaluated = << >> /\ status = "reading"

-------------------------------------------------------------------------
\* Wrong versions of the definitions below.  They are no part of the model:
\* PROJECT.json names, for each, the property that tells it from the code.
AllHandled(s, c, nst) == TRUE         \* the character behind a symbol is lost

SquoteStays(c) ==                     \* a quote is not ended by a parenthesis
  IF c \in {";"} \cup Blank THEN "exit"
  ELSE IF c = ")" THEN "nochg" ELSE "symbol"

ExitKeepsList(s) ==                   \* a list is not closed when it is left
  IF s = "squote"
  THEN lists' = Append(Below(Below(lists)), Append(Below(lists)[Len(lists) - 1], List(open)))
  ELSE UNCHANGED lists

-------------------------------------------------------------------------
\* The automaton an unquoted character starts.
Opens(c) ==
  CASE c = "dquote" -> "dquote"
    [] c = "squote" -> "squote"
    [] c = "escape" -> "escape"
    [] c = "("      -> "list"
    [] OTHER        -> "symbol"

\* The next_char functions of the seven automata.
init_next(c) ==
  IF c = ")" THEN "fail" ELSE IF c = ";" THEN "comment"
  ELSE IF c \in Blank THEN "nochg" ELSE Opens(c)
list_next(c) ==
  IF c = ")" THEN "exit" ELSE IF c = ";" THEN "comment"
  ELSE IF c \in Blank THEN "nochg" ELSE Opens(c)
squote_next(c) == IF c \in {")", ";"} \cup Blank THEN "exit" ELSE Opens(c)
symbol_next(c) ==
  IF c = "escape" THEN "escape" ELSE IF c \in Special THEN "exit" ELSE "nochg"
dquote_next(c) ==
  IF c = "dquote" THEN "exit" ELSE IF c = "escape" THEN "escape" ELSE "nochg"
comment_next(c) == IF c = "newline" THEN "exit" ELSE "nochg"
escape_next(c)  == IF c \in {"dquote", "escape", "n"} THEN "exit" ELSE "fail"

next_char(s, c) ==
  CASE s = "init"    -> init_next(c)
    [] s = "list"    -> list_next(c)
    [] s = "squote"  -> squote_next(c)
    [] s = "symbol"  -> symbol_next(c)
    [] s = "dquote"  -> dquote_next(c)
    [] s = "comment" -> comment_next(c)
    [] s = "escape"  -> escape_next(c)

\* bhandled: the start and the end of a symbol and the end of a quote leave
\* the character to the automaton that is entered or gone back to.
Handled(s, c, nst) ==
  nst # "symbol" /\ (nst = "exit" => s \notin {"symbol", "squote"})

\* What _fsa_add_symchar is called with, if at all; it fails on a full buffer.
SymChar(s, c, nst) ==
  IF s \in {"symbol", "dquote"} /\ nst = "nochg" THEN <<c>>
  ELSE IF s = "escape" /\ nst = "exit" THEN <<IF c = "n" THEN "newline" ELSE c>>
  ELSE << >>
Full(cs) == cs # << >> /\ Len(buf) >= BufSize - 1

Consumed(nst) == look' = IF Handled(st, look, nst) THEN NoChar ELSE look

-------------------------------------------------------------------------
\* The next character of the stream, and the line feed behind the last.
Fetch(c) ==
  /\ status = "reading" /\ look = NoChar /\ ~ended /\ Len(text) < MaxText
  /\ text' = Append(text, c) /\ look' = c
  /\ UNCHANGED <<ended, ststk, lists, buf, evaluated, status>>

FetchLast ==
  /\ status = "reading" /\ look = NoChar /\ ~ended /\ text # << >>
  /\ look' = "newline" /\ ended' = TRUE
  /\ UNCHANGED <<text, ststk, lists, buf, evaluated, status>>

\* ylinterp_fail in a next_char function or in _fsa_add_symchar.
Fail ==
  /\ status = "reading" /\ look # NoChar
  /\ LET nst == next_char(st, look)
     IN  nst = "fail" \/ Full(SymChar(st, look, nst))
  /\ status' = "error"
  /\ UNCHANGED <<text, look, ended, ststk, lists, buf, evaluated>>

Stay ==
  /\ status = "reading" /\ look # NoChar
  /\ LET nst == next_char(st, look)
     IN  /\ nst = "nochg" /\ ~Full(SymChar(st, look, nst))
         /\ buf' = buf \o SymChar(st, look, nst)
         /\ Consumed(nst)
  /\ UNCHANGED <<text, ended, ststk, lists, evaluated, status>>

\* Leaving a list or a quote closes its list; leaving a symbol makes it an
\* element of the open one.
ExitLists(s) ==
  CASE s \in {"list", "squote"} ->
         lists' = Append(Below(Below(lists)),
                         Append(Below(lists)[Len(lists) - 1], List(open)))
    [] s \in {"symbol", "dquote"} -> lists' = Add(Symbol(buf))
    [] OTHER -> UNCHANGED lists

\* Leaving an automaton for one that is not init.
Exit ==
  /\ status = "reading" /\ look # NoChar
  /\ LET nst == next_char(st, look)
     IN  /\ nst = "exit" /\ ~Full(SymChar(st, look, nst))
         /\ ststk[Len(ststk) - 1] # "init"
         /\ buf' = IF st \in {"symbol", "dquote"} THEN << >>
                   ELSE buf \o SymChar(st, look, nst)
         /\ Consumed(nst)
  /\ ExitLists(st)
  /\ ststk' = Below(ststk)
  /\ UNCHANGED <<text, ended, evaluated, status>>

\* Leaving one for init: init_come_back evaluates what there is.
ExitToInit ==
  /\ status = "reading" /\ look # NoChar
  /\ next_char(st, look) = "exit"
  /\ ststk[Len(ststk) - 1] = "init"
  /\ LET item == CASE st \in {"list", "squote"}   -> <<List(open)>>
                   [] st \in {"symbol", "dquote"} -> <<Symbol(buf)>>
                   [] OTHER -> << >>
     IN  evaluated' = evaluated \o item
  /\ lists' = << << >> >>
  /\ buf' = IF st \in {"symbol", "dquote"} THEN << >> ELSE buf
  /\ Consumed("exit")
  /\ ststk' = Below(ststk)
  /\ UNCHANGED <<text, ended, status>>

\* An escape outside a symbol or a string starts a symbol first.
Escape ==
  /\ status = "reading" /\ look # NoChar
  /\ next_char(st, look) = "escape"
  /\ IF st \in {"symbol", "dquote"}
     THEN ststk' = Append(ststk, "escape") /\ UNCHANGED buf
     ELSE ststk' = ststk \o <<"symbol", "escape">> /\ buf' = << >>
  /\ Consumed("escape")
  /\ UNCHANGED <<text, ended, lists, evaluated, status>>

Enter ==
  /\ status = "reading" /\ look # NoChar
  /\ LET nst == next_char(st, look)
     IN  /\ nst \in {"list", "squote", "symbol", "dquote", "comment"}
         /\ ststk' = Append(ststk, nst)
         /\ lists' = CASE nst = "list"   -> Append(lists, << >>)
                       [] nst = "squote" -> Append(lists, <<quote>>)
                       [] OTHER -> lists
         /\ buf' = IF nst \in {"symbol", "dquote"} THEN << >> ELSE buf
         /\ Consumed(nst)
  /\ UNCHANGED <<text, ended, evaluated, status>>

\* The end of the stream: only init may be left, and no list.
Finish ==
  /\ status = "reading" /\ ended /\ look = NoChar
  /\ status' = IF st = "init" /\ Len(lists) = 1 THEN "done" ELSE "error"
  /\ UNCHANGED <<text, look, ended, ststk, lists, buf, evaluated>>

ParserNext ==
  \/ \E c \in Alphabet : Fetch(c)
  \/ FetchLast \/ Fail \/ Stay \/ Exit \/ ExitToInit \/ Escape \/ Enter \/ Finish

ParserSpec == ParserInit /\ [][ParserNext]_pvars

-------------------------------------------------------------------------
\* The two stacks fit each other: there is a list under construction for every
\* open list or quote, only strings and symbols are escaped in, only the
\* bottom is init, and the buffer keeps room for the final zero
\* (parser.c:232-240, 349, 382, 400, 435, 640-667, 678-692).
Nests(s) == s \in {"init", "list", "squote"}
Fits(s) ==
  \A i \in 1 .. Len(s) :
    /\ s[i] = "init" <=> i = 1
    /\ s[i] = "escape" => i = Len(s) /\ s[i - 1] \in {"symbol", "dquote"}
    /\ i < Len(s) =>
         Nests(s[i]) \/ (s[i] \in {"symbol", "dquote"} /\ s[i + 1] = "escape")
StacksAgree ==
  /\ Cardinality({i \in 1 .. Len(ststk) : Nests(ststk[i])}) = Len(lists)
  /\ Fits(ststk)
  /\ Len(buf) < BufSize

\* The table of transitions in a comment says that any character that is not
\* special can be escaped (parser.c:127); the code knows "n" only.
EscapesOther ==
  status = "reading" /\ st = "escape" /\ look \notin Special \cup {NoChar}
    => next_char(st, look) = "exit"

\* The inductive invariant of the proof in TextProofs: types, and how many of the
\* automata have a list, which all have but those on top.
Automata == {"init", "list", "squote", "symbol", "dquote", "comment", "escape"}
Nesting(s) ==
  Len(s) - (IF Nests(s[Len(s)]) THEN 0 ELSE IF s[Len(s)] = "escape" THEN 2 ELSE 1)
IsSequence(s) == s \in Seq({s[i] : i \in DOMAIN s})
ParserInv ==
  /\ ststk \in Seq(Automata) /\ ststk # << >> /\ Fits(ststk)
  /\ IsSequence(lists) /\ Len(lists) = Nesting(ststk)
  /\ IsSequence(buf) /\ Len(buf) < BufSize
===========================================================================
