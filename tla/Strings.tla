------------------------------- MODULE Strings -----------------------------
(**************************************************************************)
(* The functions of src/ylext that go through strings: searching, cutting, *)
(* trimming and replacing (nfunc_str.c), regular expressions (nfunc_re.c)  *)
(* and binaries (nfunc_bin.c), loop round by loop round.  Positions count  *)
(* from 0.                                                                 *)
(**************************************************************************)
EXTENDS Integers, Sequences, SequencesExt, FiniteSetsExt

CONSTANTS
  Char, White,        \* characters, and those that are white space
  newline, return,    \* two of its characters
  Calls               \* calls the instance makes

\* Texts and patterns are characters; an expression matches at least one.
ArgumentAssumption ==
  /\ {newline, return} \subseteq Char /\ newline # return
  /\ Calls \subseteq
       [f : {"index-of", "last-index-of", "start-with", "end-with"},
        s : Seq(Char), u : Seq(Char), from : Int]
       \cup [f : {"substring"}, s : Seq(Char), from : Int, to : Int]
       \cup [f : {"trim", "split-to-line"}, s : Seq(Char)]
       \cup [f : {"replace"}, s : Seq(Char), u : Seq(Char), new : Seq(Char)]
       \cup [f : {"re-replace"}, s : Seq(Char), u : Seq(Char) \ {<<>>}, new : Seq(Char),
             kind : {"literal", "c+", "^c", "c*"}, global : BOOLEAN]

VARIABLES
  scall,              \* [f, s, and other arguments]; f is the function, s its string
  front, back,        \* how far the function has read, from the front or the back
  written, room,      \* what it has written, and the room in its block
  result              \* <<what it returns>>, Running or Crashed

strvars == <<scall, front, back, written, room, result>>

Running == <<>>
NotFound == -1
Crashed == <<NotFound, NotFound>>

Entry ==
  /\ front = 0 /\ back = Len(scall.s) /\ result = Running
  /\ written = IF scall.f = "re-replace" THEN scall.s ELSE <<>>
  /\ room = Len(scall.s)

StringsInit == scall \in Calls /\ Entry

str == scall.s
\* The characters of x from i to before j; whether t occurs at i (memcmp may look behind
\* the end, where the zero differs from whatever t has there).
Sub(x, i, j) == SubSeq(x, i + 1, j)
At(x, t, i) == i + Len(t) <= Len(x) /\ Sub(x, i, i + Len(t)) = t
Answers(v) == result' = <<v>> /\ UNCHANGED <<scall, front, back, written, room>>
Calling(f) == scall.f = f /\ result = Running

----------------------------------------------------------------------------
\* Wrong versions of the definitions below: a match at the very end is missed; a
\* replacement searches on in what it has put in; a newline at the end begins one more
\* line; only blanks are white.
RemainsMore(i) == Len(str) - i > Len(scall.u)
SearchesAgain(so) == so
AtZero(e) == e = Len(str)
OnlyBlanks(c) == c = " "

\* index-of.  A negative start is compared as a large unsigned number: nothing is found.
Hopeless == str = <<>> \/ scall.u = <<>> \/ Len(scall.u) > Len(str)
Remains(i) == Len(str) - i >= Len(scall.u)
IndexOf ==
  /\ Calling("index-of")
  /\ LET i == scall.from + front
     IN  IF Hopeless \/ scall.from < 0 \/ ~Remains(i) THEN Answers(NotFound)
         ELSE IF At(str, scall.u, i) THEN Answers(i)
         ELSE front' = front + 1 /\ UNCHANGED <<scall, back, written, room, result>>

\* last-index-of.  The search goes backward from where a match would end at the start;
\* a negative start is a large unsigned number again, and is cut to the last character.
From == IF scall.from \in 0..Len(str) - 1 THEN scall.from ELSE Len(str) - 1
Furthest == From - Len(scall.u) + 1
LastIndexOf ==
  /\ Calling("last-index-of")
  /\ LET i == Furthest - front
     IN  IF Hopeless \/ scall.from \in 0..Len(scall.u) - 2 \/ i < 0 THEN Answers(NotFound)
         ELSE IF At(str, scall.u, i) THEN Answers(i)
         ELSE front' = front + 1 /\ UNCHANGED <<scall, back, written, room, result>>

StartWith ==
  /\ Calling("start-with")
  /\ Answers(~Hopeless /\ scall.from \in 0..Len(str) - 1 /\ At(str, scall.u, scall.from))
EndWith ==
  /\ Calling("end-with")
  /\ Answers(~Hopeless /\ At(str, scall.u, Len(str) - Len(scall.u)))

\* substring and subbin: bounds are corrected, the first one last.
UpTo == Min({scall.to, Len(str)})
Substring ==
  /\ Calling("substring")
  /\ LET from == Min({Max({scall.from, 0}), UpTo})
     IN  Answers(IF UpTo > from THEN Sub(str, from, UpTo) ELSE <<>>)

\* trim: from the front, then from the back, down to the byte before the string.
IsWhite(c) == c \in White
Trimmed == (front < Len(str) => ~IsWhite(str[front + 1])) /\ (back > 0 => ~IsWhite(str[back]))
Trim ==
  /\ Calling("trim")
  /\ \/ front < Len(str) /\ IsWhite(str[front + 1])
        /\ front' = front + 1 /\ UNCHANGED <<scall, back, written, room, result>>
     \/ ~(front < Len(str) /\ IsWhite(str[front + 1])) /\ back > 0 /\ IsWhite(str[back])
        /\ back' = back - 1 /\ UNCHANGED <<scall, front, written, room, result>>
     \/ Trimmed /\ Answers(Sub(str, front, IF front > back THEN front ELSE back))

\* split-to-line, a line each round; one carriage return before its end goes away.  When
\* the first line is empty, the byte before the string is read for it: whatever it is, and
\* a carriage return makes the length of the line wrap to that of no block.
AtEnd(e) == e = Len(str) \/ e + 1 = Len(str)
LineEnd == Min({i \in front..Len(str) : i = Len(str) \/ str[i + 1] = newline})
Line(e) == Sub(str, front, IF e > 0 /\ str[e] = return THEN e - 1 ELSE e)
SplitToLine ==
  /\ Calling("split-to-line")
  /\ LET lines == Append(written, Line(LineEnd))
     IN  IF AtEnd(LineEnd) THEN Answers(lines)
         ELSE written' = lines /\ front' = LineEnd + 1 /\ UNCHANGED <<scall, back, room, result>>
SplitCrashes ==
  /\ Calling("split-to-line") /\ LineEnd = 0
  /\ result' = Crashed /\ UNCHANGED <<scall, front, back, written, room>>

\* replace: the block doubles until the new string has room, and before the rest is copied.
Doubled(n) == Min({c \in {room * 2^k : k \in 0..Len(written) + n} : c - Len(written) >= n})
Replace ==
  /\ Calling("replace")
  /\ IF scall.u = <<>> \/ Len(str) < Len(scall.u) THEN Answers(str)
     ELSE IF front > Len(str) - Len(scall.u)
       THEN /\ room' = Doubled(Len(str) - front)
            /\ result' = <<written \o Sub(str, front, Len(str))>>
            /\ UNCHANGED <<scall, front, back, written>>
     ELSE IF At(str, scall.u, front)
       THEN /\ room' = Doubled(Len(scall.new)) /\ written' = written \o scall.new
            /\ front' = front + Len(scall.u) /\ UNCHANGED <<scall, back, result>>
       ELSE /\ written' = Append(written, str[front + 1]) /\ front' = front + 1
            /\ UNCHANGED <<scall, back, room, result>>

\* The leftmost match in a string [so, eo), or {}: a literal; the longest run of a character
\* (c+); a character at the start (^c); as many of a character as there are (c*).
Match(pat, x) ==
  LET c == pat.u[1]
      L == {i \in 0..Len(x) : At(x, pat.u, i)}
      run(i) == Max({j \in i..Len(x) : \A k \in i + 1..j : x[k] = c})
  IN  CASE pat.kind = "c*" -> {[so |-> 0, eo |-> run(0)]}
        [] pat.kind # "c*" /\ L = {} -> {}
        [] pat.kind = "literal" /\ L # {} -> {[so |-> Min(L), eo |-> Min(L) + Len(pat.u)]}
        [] pat.kind = "c+" /\ L # {} -> {[so |-> Min(L), eo |-> run(Min(L))]}
        [] pat.kind = "^c" /\ L # {} -> IF 0 \in L THEN {[so |-> 0, eo |-> 1]} ELSE {}

\* re-replace: one match, or with the option "g" all of them, each in the string that
\* the last one has left, behind what was put in.
Behind(so) == so + Len(scall.new)
ReReplace ==
  /\ Calling("re-replace")
  /\ LET rest == Sub(written, front, Len(written))
         M == Match(scall, rest)
         m == CHOOSE x \in M : TRUE
         replaced == Sub(written, 0, front + m.so) \o scall.new \o Sub(rest, m.eo, Len(rest))
     IN  IF M = {} THEN Answers(written)
         ELSE IF ~scall.global THEN Answers(replaced)
         ELSE written' = replaced /\ front' = front + Behind(m.so)
              /\ UNCHANGED <<scall, back, room, result>>

StringsNext ==
  \/ IndexOf \/ LastIndexOf \/ StartWith \/ EndWith \/ Substring
  \/ Trim \/ SplitToLine \/ SplitCrashes \/ Replace \/ ReReplace

StringsSpec == StringsInit /\ [][StringsNext]_strvars /\ WF_strvars(StringsNext)

----------------------------------------------------------------------------
Answered(f) == scall.f = f /\ result \notin {Running, Crashed}
answer == result[1]

\* What is found is there, at or after the start (index-of) or ending at or before it
\* (last-index-of), nothing nearer is, and start-with and end-with agree about it
\* (nfunc_str.c:113-275; nfunc.in:143-165).
FindsNearest ==
  LET u == scall.u
      O == {i \in 0..Len(str) : u # <<>> /\ At(str, u, i)}
      After == {i \in O : 0 <= scall.from /\ scall.from <= i}
      Before == {i \in O : scall.from < 0 \/ i + Len(u) - 1 <= scall.from}
  IN  /\ Answered("index-of") => answer = IF After = {} THEN NotFound ELSE Min(After)
      /\ Answered("last-index-of") => answer = IF Before = {} THEN NotFound ELSE Max(Before)
      /\ Answered("start-with") => answer = (scall.from \in After)
      /\ Answered("end-with") => answer = (u # <<>> /\ IsSuffix(u, str))

\* A substring has the characters of the string between the bounds; what trim returns
\* is in the string, with nothing but white space around it and none at its ends
\* (nfunc_str.c:336-374, 426-466).
CutsRight ==
  /\ Answered("substring") =>
       LET K == {i \in 0..Len(str) - 1 : scall.from <= i /\ i < scall.to}
       IN  answer = IF K = {} THEN <<>> ELSE Sub(str, Min(K), Max(K) + 1)
  /\ Answered("trim") =>
       \E i, j \in 0..Len(str) :
         /\ answer = Sub(str, i, j) /\ (answer # <<>> => {Head(answer), Last(answer)} \cap White = {})
         /\ \A k \in DOMAIN str : (k <= i \/ k > j) => str[k] \in White

\* The lines of a text, each with its newline again, are the text without the carriage
\* returns that stood before the ends of lines (nfunc_str.c:42-88; nfunc.in:121-126).
EndsLine(i) == i = Len(str) \/ str[i + 1] = newline
Clean[i \in 0..Len(str)] ==
  IF i = 0 THEN <<>>
  ELSE IF str[i] = return /\ EndsLine(i) THEN Clean[i - 1] ELSE Append(Clean[i - 1], str[i])
Whole(lines) ==
  LET upto[i \in 0..Len(lines)] ==
        IF i = 0 THEN <<>> ELSE upto[i - 1] \o lines[i] \o <<newline>>
  IN  upto[Len(lines)]
LinesOfText ==
  Answered("split-to-line") =>
    Whole(answer) = IF str # <<>> /\ Last(str) = newline THEN Clean[Len(str)]
                    ELSE Append(Clean[Len(str)], newline)

\* Every match in the string itself is replaced, from left to right, and nothing in what
\* was put in (nfunc_str.c:277-334; nfunc_re.c:160-240, 373-462).
MatchEnd(i) ==
  IF scall.f = "re-replace" /\ scall.kind = "c+"
  THEN Max({j \in i..Len(str) : \A k \in i + 1..j : str[k] = scall.u[1]}) ELSE i + Len(scall.u)
Once == scall.f = "re-replace" /\ ~scall.global
Renewed[i \in 0..Len(str)] ==
  IF i = Len(str) THEN <<>>
  ELSE IF At(str, scall.u, i)
       THEN scall.new \o IF Once THEN Sub(str, MatchEnd(i), Len(str)) ELSE Renewed[MatchEnd(i)]
       ELSE <<str[i + 1]>> \o Renewed[i + 1]
ReplacesAll ==
  Answered("replace") \/ Answered("re-replace") =>
    answer = IF scall.u = <<>> THEN str ELSE Renewed[0]

\* Searches find the nearest occurrence, trimming and cutting leave what they should,
\* lines are those of the text, and every occurrence is replaced and nothing else
\* (nfunc_str.c:42-466; nfunc_re.c:160-462).
StringsRight == FindsNearest /\ CutsRight /\ LinesOfText /\ ReplacesAll

\* replace writes inside of its block; it does not when shorter characters follow a longer
\* replacement, for which room is made, and fill it (nfunc_str.c:309-319).
InsideBlock == scall.f = "replace" => Len(written) <= room + 1

\* No call crashes; split-to-line may when the first line is empty (nfunc_str.c:64).
NeverCrashes == result # Crashed

\* Every call ends; re-replace does not when a pattern matches nothing at all.
CallsEnd == <>(result # Running)

----------------------------------------------------------------------------
\* The inductive invariant of the proof in TextProofs: what a loop has passed.
PlainPatterns ==          \* no pattern is bound to the start or matches nothing
  \A c \in Calls :
    c.f = "re-replace" => c.kind = "literal" \/ (c.kind = "c+" /\ Len(c.u) = 1)

SearchedAhead ==
  front \in Nat /\ \A j \in 0..front - 1 : scall.from + j >= 0 => ~At(str, scall.u, scall.from + j)
SearchedBack ==
  front \in Nat /\ \A j \in 0..front - 1 : Furthest - j >= 0 => ~At(str, scall.u, Furthest - j)
WhiteAround ==
  /\ front \in 0..Len(str) /\ back \in 0..Len(str)
  /\ \A k \in DOMAIN str : k <= front \/ k > back => str[k] \in White
LinesSoFar ==
  /\ front \in 0..Len(str) /\ (front = 0 \/ (front < Len(str) /\ str[front] = newline))
  /\ written \in Seq(Seq(Char)) /\ Whole(written) = Clean[front]
ReplacedSoFar ==
  /\ front \in 0..Len(str) /\ written \in Seq(Char)
  /\ scall.u # <<>> => written \o Renewed[front] = Renewed[0]
RewrittenSoFar ==
  /\ written \in Seq(Char) /\ front \in 0..Len(written)
  /\ \E k \in 0..Len(str) :
       /\ Sub(written, front, Len(written)) = Sub(str, k, Len(str))
       /\ Sub(written, 0, front) \o Renewed[k] = Renewed[0]
Passed ==
  /\ scall.f = "index-of"      => SearchedAhead
  /\ scall.f = "last-index-of" => SearchedBack
  /\ scall.f = "trim"          => WhiteAround
  /\ scall.f = "split-to-line" => LinesSoFar
  /\ scall.f = "replace"       => ReplacedSoFar
  /\ scall.f = "re-replace"    => RewrittenSoFar
StringsInv == scall \in Calls /\ (result = Running => Passed) /\ StringsRight
============================================================================
