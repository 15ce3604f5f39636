---------------------------- MODULE CallbackStream ----------------------------
(***************************************************************************)
(* What a frontend may rely on: libtego's events reach it one by one, each *)
(* once, in the order in which they happened.                              *)
(***************************************************************************)
EXTENDS Naturals, Sequences

VARIABLES
  emitted,   \* number of events so far; they are numbered from 1
  ran        \* events that the frontend has handled, in its order

Init == emitted = 0 /\ ran = << >>

Emit == emitted' = emitted + 1 /\ UNCHANGED ran

Handle ==
  /\ Len(ran) < emitted
  /\ ran' = Append(ran, Len(ran) + 1)
  /\ UNCHANGED emitted

Next == Emit \/ Handle
Spec == Init /\ [][Next]_<<emitted, ran>>

=============================================================================
