--------------------------- MODULE StopTheWorld ---------------------------
(***************************************************************************)
(* What the evaluation threads and the garbage collector of ylisp promise  *)
(* each other, without locks, flags or listeners: a collection begins only *)
(* when no registered thread is evaluating, and until it ends no thread    *)
(* joins, leaves or goes back to evaluating.  SafePoint (mthread.c and the *)
(* listeners of mempool.c) is shown to implement this specification.       *)
(***************************************************************************)

CONSTANT Ctx          \* the evaluation threads

VARIABLES
  mode,               \* "out": not registered; "busy": evaluating; "parked"
  collecting          \* is a collection running?

vars == <<mode, collecting>>

Init ==
  /\ mode = [c \in Ctx |-> "out"]
  /\ collecting = FALSE

Move(c, from, to) ==
  /\ ~collecting
  /\ mode[c] = from
  /\ mode' = [mode EXCEPT ![c] = to]
  /\ UNCHANGED collecting

Enter(c)  == Move(c, "out", "busy")
Park(c)   == Move(c, "busy", "parked")
Unpark(c) == Move(c, "parked", "busy")
Leave(c)  == Move(c, "busy", "out") \/ Move(c, "parked", "out")

Begin ==
  /\ ~collecting
  /\ \A c \in Ctx : mode[c] # "busy"
  /\ collecting' = TRUE
  /\ UNCHANGED mode

End ==
  /\ collecting
  /\ collecting' = FALSE
  /\ UNCHANGED mode

Next ==
  \/ \E c \in Ctx : Enter(c) \/ Park(c) \/ Unpark(c) \/ Leave(c)
  \/ Begin
  \/ End

Spec == Init /\ [][Next]_vars

===========================================================================
