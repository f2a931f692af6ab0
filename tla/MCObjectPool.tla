---------------------------- MODULE MCObjectPool ----------------------------
(* Two objects to begin with and room for two more: the pool runs dry, and *)
(* Acquire(count) meets a stack that is empty, too short or long enough.   *)
EXTENDS ObjectPool
=============================================================================
