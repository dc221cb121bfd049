----------------------- MODULE MCNSNotificationQueue -----------------------
(* An instance of NSNotificationQueue.                                      *)
EXTENDS NSNotificationQueue, TLC

CONSTANTS default, modal

\* Queues and objects are compared and nothing else.
QueuesAndObjectsAlike == Permutations(Queues) \cup Permutations(Objects)

DefaultOrAll == {{default}, {default, modal}}
NameOrBoth == {{"name"}, {"name", "sender"}}
=============================================================================
