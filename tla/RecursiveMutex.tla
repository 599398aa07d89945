--------------------------- MODULE RecursiveMutex ---------------------------
(* std::recursive_mutex: its owner may lock it again, and has to unlock it  *)
(* as many times.  get_guard locks it, the destructor of the lock_guard     *)
(* unlocks it.                                                              *)
EXTENDS Integers

CONSTANT Free       \* the owner of a mutex that nobody holds
VARIABLES owner, depth

Unlocked == owner = Free /\ depth = 0

Lock(t) ==
  /\ owner \in {Free, t}
  /\ owner' = t
  /\ depth' = depth + 1

Unlock(t) ==
  /\ owner = t
  /\ depth' = depth - 1
  /\ owner' = IF depth = 1 THEN Free ELSE owner
=============================================================================
