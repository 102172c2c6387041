---------------------------- MODULE CommandLink ----------------------------
(***************************************************************************)
(* What the Bluetooth proxy promises the app: every command it writes is   *)
(* executed by the chip exactly once, in the order written, each only      *)
(* after the answer to the one before it; a start of discovery is preceded *)
(* by one command of the proxy's own that enables extended scanning.       *)
(***************************************************************************)
EXTENDS Naturals, Sequences

CONSTANTS
  Command,   \* what can be sent
  ExtScan,   \* the command the proxy adds
  IsStart(_) \* TRUE of the commands that start discovery

VARIABLES
  todo,      \* commands accepted and not yet given to the chip, in order
  out        \* the command the chip has been given and not yet answered

vars == <<todo, out>>

Expand(c) == IF IsStart(c) THEN <<ExtScan, c>> ELSE <<c>>

Init == todo = <<>> /\ out = <<>>

Accept(c) == todo' = todo \o Expand(c) /\ UNCHANGED out

Give ==
  /\ out = <<>> /\ todo # <<>>
  /\ out' = <<Head(todo)>>
  /\ todo' = Tail(todo)

Answer ==
  /\ out # <<>>
  /\ out' = <<>>
  /\ UNCHANGED todo

Next == Give \/ Answer \/ \E c \in Command : Accept(c)

Spec     == Init /\ [][Next]_vars
FairSpec == Spec /\ WF_vars(Give) /\ WF_vars(Answer)

=============================================================================
