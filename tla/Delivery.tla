------------------------------ MODULE Delivery ------------------------------
(***************************************************************************)
(* What a conversation promises its two users: their messages are shown to *)
(* the other in the order they were sent, one is reported delivered only   *)
(* after it was shown, and one that is not is either still on its way or   *)
(* reported as failed.  A message may be shown twice, never more often.    *)
(***************************************************************************)
EXTENDS Naturals, Sequences, FiniteSets

CONSTANT MaxSent \* bound: messages each user sends

Peer == {"a", "b"}
Other(p) == IF p = "a" THEN "b" ELSE "a"

VARIABLES
  fate,  \* what each user is told of his messages
  shown  \* the other's messages in the order they were shown to the user

Init ==
  /\ fate = [p \in Peer |-> << >>]
  /\ shown = [p \in Peer |-> << >>]

Submit(p) ==
  /\ Len(fate[p]) < MaxSent
  /\ fate' = [fate EXCEPT ![p] = Append(@, "pending")]
  /\ UNCHANGED shown

Times(p, m) == Cardinality({n \in DOMAIN shown[p] : shown[p][n] = m})

\* No message is passed over unless its sender is told so.
Show(p, m) ==
  /\ m \in DOMAIN fate[Other(p)]
  /\ Times(p, m) < 2
  /\ Times(p, m) = 0 =>
       \A n \in DOMAIN fate[Other(p)] :
         IF n < m THEN Times(p, n) > 0 \/ fate[Other(p)][n] = "failed" ELSE Times(p, n) = 0
  /\ shown' = [shown EXCEPT ![p] = Append(@, m)]

Deliver(p, m) ==
  /\ m \in DOMAIN fate[p] /\ Times(Other(p), m) > 0
  /\ fate' = [fate EXCEPT ![p][m] = "delivered"]
  /\ UNCHANGED shown

\* Several messages may be given up at once, with their connection.
GiveUp(p) ==
  /\ \E S \in SUBSET DOMAIN fate[p] :
       /\ \A m \in S : fate[p][m] = "pending"
       /\ fate' = [fate EXCEPT ![p] = [m \in DOMAIN @ |-> IF m \in S THEN "failed" ELSE @[m]]]
  /\ UNCHANGED shown

Next ==
  \E p \in Peer :
    \/ Submit(p) \/ GiveUp(p)
    \/ \E m \in 1..MaxSent : (Show(p, m) /\ UNCHANGED fate) \/ Deliver(p, m)

Spec == Init /\ [][Next]_<<fate, shown>>

=============================================================================
