---------------------------- MODULE MCIrcGateway ----------------------------
(***************************************************************************)
(* Instances of IrcGateway.  Every input has a budget, and the budgets of  *)
(* a run are scenes: some of one input in each, a little of the others.    *)
(***************************************************************************)
EXTENDS IrcGateway

Budget(connections, commands, events_, reloads) ==
  [connection |-> connections, command |-> commands, event |-> events_, reload |-> reloads]

\* Three clients that log in; two commands among libtego's events; the list loaded
\* again between a command and events; a second client while a contact is shown;
\* three events with the list loaded again; two commands with the list loaded twice.
Scenes == {Budget(3, 0, 0, 0), Budget(1, 2, 2, 0), Budget(1, 1, 2, 1),
           Budget(2, 1, 1, 0), Budget(1, 0, 3, 1), Budget(1, 2, 0, 2)}

\* One client, which gives a command on a contact.
Deletion == {Budget(1, 1, 0, 0)}

Alike ==
  UNION {Permutations(Clients), Permutations(Users), Permutations(Peers), Permutations(Nicks)}
=============================================================================
