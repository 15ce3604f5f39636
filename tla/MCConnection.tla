---------------------------- MODULE MCConnection ----------------------------
(***************************************************************************)
(* The instances of Connection that TLC checks.                            *)
(***************************************************************************)
EXTENDS Connection

\* Every way the two contact lists can regard each other when the client dials.
AllRegards == [client : {"request", "contact"},
               server : {"none", "blocked", "request", "contact"}]
\* Two peers that are contacts of each other.
Contacts == [client : {"contact"}, server : {"contact"}]

=============================================================================
