---------------------------- MODULE MCObjectCalls ----------------------------
(* A small instance of the tools of the object stores.                     *)
EXTENDS ObjectCalls
=============================================================================
