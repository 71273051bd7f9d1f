------------------------------- MODULE FollyMap -------------------------------
(***************************************************************************)
(* The HashMap of haz_ptr_impl.cpp: the steps of HazPtrMap on the hazard   *)
(* pointers of another library, but that Put(const T &) retires the old    *)
(* value without a look whether there is one.  The map as it is used has   *)
(* been filled: the benchmark puts a literal 0 at every index before it    *)
(* starts its threads, which selects the overload that does look.          *)
(***************************************************************************)
EXTENDS HazPtrMap

CONSTANTS
  zero       \* the value 0

ZeroAssumption == zero \in Value

(* Mutant: the overload that is told apart by the literal alone stores     *)
(* nothing, as those of unq_based and boost_arc do.                        *)
InitUnfilled == Init

InitFilled ==
  /\ slot \in [Key -> Node]
  /\ \A k, l \in Key : slot[k] = slot[l] => k = l
  /\ data = [a \in Node |-> IF a \in {slot[k] : k \in Key} THEN zero ELSE FREE]
  /\ retired = {}
  /\ hazard = [t \in Thread |-> NULL]
  /\ InitThreads

get_protected(t) == PinLoad(t) \/ PinPublish(t) \/ PinValidate(t)

GetSteps(t) == (req[t] # NULL /\ req[t].op = "Get" /\ get_protected(t)) \/ Get(t)

PutSteps(t) ==
  \/ req[t] # NULL /\ req[t].op = "Put" /\ get_protected(t)
  \/ PutRefused(t) \/ PutCleared(t) \/ Exchange(t)

FollyStep(t) == GetSteps(t) \/ PutSteps(t) \/ Leave(t)

-----------------------------------------------------------------------------
(* old->retire() is never called on a null pointer.                        *)
RetiresPointer == \A t \in Thread : pc[t] = "exchange" => Current(t) # NULL

=============================================================================
