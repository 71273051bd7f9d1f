------------------------------ MODULE HazPtrMap ------------------------------
(***************************************************************************)
(* The HashMap of my_haz_ptr_impl.cpp: Get pins the pointer in its slot    *)
(* and reads the value, Put exchanges the pointer and retires the old one, *)
(* after a look of its own when it is not to overwrite.                    *)
(*                                                                         *)
(* The hazard pointer library is not part of the source: Pin, the          *)
(* destruction of a holder, HazPtrRetire and reclamation are modelled from *)
(* their use.                                                              *)
(***************************************************************************)
EXTENDS HashMapCalls

VARIABLES
  retired,   \* handed to HazPtrRetire and not yet reclaimed
  hazard     \* the pointer each thread's HazPtrHolder pins

Init ==
  /\ slot = [k \in Key |-> NULL]
  /\ retired = {}
  /\ hazard = [t \in Thread |-> NULL]
  /\ InitCalls

Unpin(t) == hazard' = [hazard EXCEPT ![t] = NULL]

(* Only Get and a Put without overwrite look at the slot first.            *)
Call(t) ==
  /\ \E r \in Request :
       Invoke(t, r, IF r.op = "Put" /\ r.overwrite THEN "exchange" ELSE "load")
  /\ UNCHANGED <<retired, hazard>>

(* Pin.                                                                    *)
PinLoad(t) ==
  /\ pc[t] = "load"
  /\ Read(t)
  /\ Goto(t, IF Current(t) = NULL THEN "look" ELSE "pin")
  /\ UNCHANGED <<shared, retired, hazard, req, desired, ret>>

PinPublish(t) ==
  /\ pc[t] = "pin"
  /\ hazard' = [hazard EXCEPT ![t] = target[t]]
  /\ Goto(t, "validate")
  /\ UNCHANGED <<shared, retired, req, target, desired, ret>>

PinValidate(t) ==
  /\ pc[t] = "validate"
  /\ Goto(t, IF Current(t) = target[t] THEN "look" ELSE "load")
  /\ UNCHANGED <<shared, retired, hazard, req, target, desired, ret>>

GetAnswer(t) == IF target[t] = NULL THEN ABSENT ELSE data[target[t]]

Get(t) ==
  /\ At(t, "look", "Get")
  /\ Finish(t, GetAnswer(t))
  /\ Unpin(t)
  /\ UNCHANGED <<shared, retired, req, target, desired>>

PutRefused(t) ==
  /\ At(t, "look", "Put")
  /\ target[t] # NULL
  /\ Finish(t, FALSE)
  /\ Unpin(t)
  /\ UNCHANGED <<shared, retired, req, target, desired>>

PutCleared(t) ==
  /\ At(t, "look", "Put")
  /\ target[t] = NULL
  /\ Goto(t, "exchange")
  /\ Unpin(t)
  /\ UNCHANGED <<shared, retired, req, target, desired, ret>>

(* The new value goes in, and the old one is deleted or retired.           *)
ExchangeAnd(t, deleted, r) ==
  /\ pc[t] = "exchange"
  /\ \E a \in Node :
       /\ data[a] = FREE
       /\ data' = [n \in Node |-> IF n = a THEN req[t].val
                                  ELSE IF n \in deleted THEN FREE ELSE data[n]]
       /\ Set(t, a)
  /\ retired' = retired \cup (r \ {NULL})
  /\ Finish(t, TRUE)
  /\ UNCHANGED <<hazard, req, target, desired>>

(* Mutant: the old value is deleted at once.                               *)
ExchangeDeleting(t) == ExchangeAnd(t, {Current(t)}, {})

(* Whatever is in the slot by now is replaced, overwrite or not.           *)
Exchange(t) == ExchangeAnd(t, {}, {Current(t)})

Leave(t) == Return(t) /\ UNCHANGED <<data, retired, hazard>>

(* The library reclaims a retired value no holder pins.                    *)
Reclaim(a) ==
  /\ a \in retired
  /\ \A t \in Thread : hazard[t] # a
  /\ retired' = retired \ {a}
  /\ data' = [data EXCEPT ![a] = FREE]
  /\ UNCHANGED <<slot, pc, req, target, desired, ret, hazard>>

Step(t) ==
  \/ PinLoad(t) \/ PinPublish(t) \/ PinValidate(t)
  \/ Get(t) \/ PutRefused(t) \/ PutCleared(t) \/ Exchange(t) \/ Leave(t)

-----------------------------------------------------------------------------
TypeOK ==
  /\ slot \in [Key -> Node \cup {NULL}]
  /\ retired \in SUBSET Node
  /\ hazard \in [Thread -> Node \cup {NULL}]
  /\ pc \in [Thread -> {"idle", "load", "pin", "validate", "look", "exchange", "done"}]

Reads(t) == At(t, "look", "Get") /\ target[t] # NULL

(* Where an address is referred to: a slot, or the list of retired ones.   *)
Holders(a) ==
  {<<"slot", k>> : k \in {k \in Key : slot[k] = a}}
    \cup {<<"retired", a>> : b \in {a} \cap retired}

(* As SlotMap has it: a Get, and the look of a Put, take effect when the   *)
(* slot was read for the last time.                                        *)
Contents == [k \in Key |-> IF slot[k] = NULL THEN ABSENT ELSE data[slot[k]]]

Answer ==
  [t \in Thread |->
     IF pc[t] # "look" THEN ret[t]
     ELSE IF req[t].op = "Get" THEN GetAnswer(t)
     ELSE IF target[t] # NULL THEN FALSE ELSE PENDING]

Cleared ==
  [t \in Thread |->
     \/ At(t, "look", "Put") /\ target[t] = NULL
     \/ pc[t] = "exchange" /\ Keeps(t)]

=============================================================================
