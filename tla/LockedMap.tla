------------------------------ MODULE LockedMap ------------------------------
(***************************************************************************)
(* The HashMaps that lock the mutex of a slot.  The one of                 *)
(* lock_based_impl.cpp owns a value through each slot, the one of          *)
(* lock_based_no_allocating.cpp has the values in the slots: they start at *)
(* zero, and Put overwrites them whatever it is asked.  What a unique_ptr  *)
(* owns is written into the slot here.                                     *)
(***************************************************************************)
EXTENDS HashMapCalls

CONSTANTS
  allocates, \* does a slot own its value?
  zero

SlotAssumption == zero \in Value /\ allocates \in BOOLEAN /\ NULL \notin Thread

VARIABLES
  lock       \* the thread that holds the mutex of each slot

Init ==
  /\ slot = [k \in Key |-> IF allocates THEN ABSENT ELSE zero]
  /\ lock = [k \in Key |-> NULL]
  /\ InitCalls

Call(t) == (\E r \in Request : Invoke(t, r, "lock")) /\ UNCHANGED lock

(* Mutant: the mutex is not looked at.                                     *)
LockTaken(t) ==
  /\ pc[t] = "lock"
  /\ lock' = [lock EXCEPT ![KeyOf(t)] = t]
  /\ Goto(t, "look")
  /\ UNCHANGED <<shared, req, target, desired, ret>>

Lock(t) ==
  /\ pc[t] = "lock"
  /\ lock[KeyOf(t)] = NULL
  /\ lock' = [lock EXCEPT ![KeyOf(t)] = t]
  /\ Goto(t, "look")
  /\ UNCHANGED <<shared, req, target, desired, ret>>

(* The test of the pointer; a slot that is a value always passes.          *)
Look(t) ==
  /\ pc[t] = "look"
  /\ IF req[t].op = "Get" /\ Current(t) = ABSENT THEN Finish(t, ABSENT)
     ELSE IF Keeps(t) /\ allocates /\ Current(t) # ABSENT THEN Finish(t, FALSE)
     ELSE Goto(t, "access") /\ UNCHANGED ret
  /\ UNCHANGED <<shared, req, target, desired, lock>>

(* value = *ptrs_[key], which reads the slot again                         *)
Get(t) ==
  /\ At(t, "access", "Get")
  /\ Finish(t, Current(t))
  /\ UNCHANGED <<shared, req, target, desired, lock>>

Put(t) ==
  /\ At(t, "access", "Put")
  /\ Set(t, req[t].val)
  /\ Finish(t, TRUE)
  /\ UNCHANGED <<data, req, target, desired, lock>>

(* The lock_guard goes with the call.                                      *)
Unlock(t) ==
  /\ Return(t)
  /\ lock' = [lock EXCEPT ![KeyOf(t)] = NULL]
  /\ UNCHANGED data

Step(t) == Lock(t) \/ Look(t) \/ Get(t) \/ Put(t) \/ Unlock(t)

-----------------------------------------------------------------------------
(* The thread is in the critical section of slot k.                        *)
Owns(t, k) == pc[t] \in {"look", "access", "done"} /\ KeyOf(t) = k

TypeOK ==
  /\ slot \in [Key -> Value \cup {ABSENT}]
  /\ lock \in [Key -> Thread \cup {NULL}]
  /\ pc \in [Thread -> {"idle", "lock", "look", "access", "done"}]

(* A mutex that is locked has exactly one owner.                           *)
OneOwner ==
  \A k \in Key :
    /\ lock[k] # NULL => Owns(lock[k], k)
    /\ \A t \in Thread : Owns(t, k) => lock[k] = t

=============================================================================
