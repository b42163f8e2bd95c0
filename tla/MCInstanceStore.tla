-------------------------- MODULE MCInstanceStore --------------------------
(* Small instances of the store.                                           *)
EXTENDS InstanceStore

=============================================================================
