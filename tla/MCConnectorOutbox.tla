-------------------------- MODULE MCConnectorOutbox --------------------------
(***************************************************************************)
(* Instances of the connector outbox for TLC.                              *)
(***************************************************************************)
EXTENDS ConnectorOutboxProperties, TLC

CONSTANTS p1, p2, text

TaskFollowUp(x) == [key |-> x, task |-> TRUE, delay |-> 0, replace |-> FALSE]
FollowUp(x, again) == [key |-> x, task |-> FALSE, delay |-> 1, replace |-> again]

Tasks == {TaskFollowUp(text)}
FollowUps == {TaskFollowUp(text), FollowUp(text, FALSE), FollowUp(text, TRUE)}

Workers == Permutations(Procs)
=============================================================================
