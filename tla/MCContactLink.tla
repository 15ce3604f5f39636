---------------------------- MODULE MCContactLink ----------------------------
(***************************************************************************)
(* The instances of ContactLink that TLC checks.                           *)
(***************************************************************************)
EXTENDS ContactLink, TLC

\* Each has the other as a contact, or has asked to be one.
Mutual == [User -> {"allowed", "pending"}]
\* One has asked the other, who has not heard of it.
Asking == {[u \in User |-> IF u = v THEN "pending" ELSE "none"] : v \in User}
\* Connections are told apart by nothing but what happens to them.
Alike == Permutations(Conns)
\* Everything two contact lists can say of each other.
AnyLists == [User -> UserTypes]

=============================================================================
