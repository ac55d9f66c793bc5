--------------------------- MODULE OrderedDelivery ---------------------------
(***************************************************************************)
(* What the hold-back queue promises its readers, without any queue: the   *)
(* numbers 1, 2, 3, ... are decided in order.  A number below next is      *)
(* decided: its message was released, or it was given up (gaps marks some  *)
(* of these).  A pushed message that is not yet decided is held, never     *)
(* lost, never overtaken, and released as soon as it is next.  Numbers are *)
(* given up only when the messages at hand have reached Patience.          *)
(***************************************************************************)
EXTENDS Integers

CONSTANTS
  Number,      \* the numbers that may be pushed
  Patience(_)  \* whether the set of messages at hand justifies giving up numbers

VARIABLES next, held, released, gaps

vars == <<next, held, released, gaps>>

Init == next = 1 /\ held = {} /\ released = {} /\ gaps = {}

(***************************************************************************)
(* A message with a number that is not yet decided is pushed.              *)
(***************************************************************************)
Accept(n) ==
  LET pool == held \cup {n}
      skipped == (next .. next' - 1) \ pool
  IN  /\ n >= next
      /\ n \notin held
      /\ next' \in Nat /\ next' >= next
      /\ released' = released \cup {m \in pool : m < next'}
      /\ held' = {m \in pool : m > next'}
      /\ next' \notin pool
      /\ gaps \subseteq gaps' /\ gaps' \ gaps \subseteq skipped
      /\ skipped # {} => n # next /\ Patience(pool)

Next == \E n \in Number : Accept(n)

Spec == Init /\ [][Next]_vars
=============================================================================
