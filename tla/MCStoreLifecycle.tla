-------------------------- MODULE MCStoreLifecycle --------------------------
(* StoreLifecycle on a small instance.                                     *)
EXTENDS StoreLifecycle

CONSTANTS runner, consumer, close1, close2

MCRunners == {runner}

MCCallers == {consumer}

MCClosers == {close1}

MCTwoClosers == {close1, close2}

=============================================================================
