-------------------------- MODULE MCValueAllocator --------------------------
(* Eight ids: up to four separate intervals, every way of merging them.       *)
EXTENDS ValueAllocator
=============================================================================
