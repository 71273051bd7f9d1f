--------------------------- MODULE UniqueOwnership ---------------------------
(***************************************************************************)
(* The HashMap of unique_ownership_impl.cpp.  A reader takes the pointer   *)
(* out of its slot, leaving the mark kOccupied, reads the value and puts   *)
(* the pointer back; a writer replaces a pointer that is not taken and     *)
(* deletes the old value at once.  Both spin while the slot is marked.     *)
(***************************************************************************)
EXTENDS HashMapCalls

CONSTANTS
  kOccupied  \* the pointer 1

MarkAssumption == kOccupied \notin Node /\ kOccupied # NULL

VARIABLES
  first      \* what Get read while it owned the pointer

Init ==
  /\ slot = [k \in Key |-> NULL]
  /\ first = [t \in Thread |-> PENDING]
  /\ InitCalls

Call(t) == (\E r \in Request : Invoke(t, r, "load")) /\ UNCHANGED first

(* The first load; Put then allocates its value.                           *)
Load(t) ==
  /\ pc[t] = "load"
  /\ Read(t)
  /\ IF req[t].op = "Put" THEN Allocate(t) ELSE UNCHANGED <<data, desired>>
  /\ Goto(t, "loop")
  /\ UNCHANGED <<slot, req, first, ret>>

CasSucceeds(t) == Current(t) = target[t]

(* The slot is marked, or a compare_exchange fails: look again.            *)
Spin(t) ==
  /\ pc[t] = "loop"
  /\ \/ target[t] = kOccupied
     \/ /\ ~CasSucceeds(t)
        /\ req[t].op = "Get" => target[t] # NULL
        /\ Keeps(t) => target[t] = NULL
  /\ Read(t)
  /\ UNCHANGED <<shared, pc, req, desired, first, ret>>

GetAbsent(t) ==
  /\ At(t, "loop", "Get")
  /\ target[t] = NULL
  /\ Finish(t, ABSENT)
  /\ UNCHANGED <<shared, req, target, desired, first>>

(* Mutant: the pointer is read without being taken.                        *)
OwnUnmarked(t) ==
  /\ At(t, "loop", "Get")
  /\ target[t] \in Node /\ CasSucceeds(t)
  /\ Goto(t, "own")
  /\ UNCHANGED <<shared, req, target, desired, first, ret>>

Own(t) ==
  /\ At(t, "loop", "Get")
  /\ target[t] \in Node /\ CasSucceeds(t)
  /\ Set(t, kOccupied)
  /\ Goto(t, "own")
  /\ UNCHANGED <<data, req, target, desired, first, ret>>

(* value = *expected                                                       *)
ReadOwned(t) ==
  /\ pc[t] = "own"
  /\ first' = [first EXCEPT ![t] = data[target[t]]]
  /\ Goto(t, "restore")
  /\ UNCHANGED <<shared, req, target, desired, ret>>

(* Mutant: the pointer is not put back.                                    *)
RestoreForgotten(t) ==
  /\ pc[t] = "restore"
  /\ Goto(t, "reread")
  /\ UNCHANGED <<shared, req, target, desired, first, ret>>

Restore(t) ==
  /\ pc[t] = "restore"
  /\ Set(t, target[t])
  /\ Goto(t, "reread")
  /\ UNCHANGED <<data, req, target, desired, first, ret>>

(* value = *target, after the loop                                         *)
Reread(t) ==
  /\ pc[t] = "reread"
  /\ Finish(t, data[target[t]])
  /\ UNCHANGED <<shared, req, target, desired, first>>

(* Mutant: the value allocated for nothing is not deleted.                 *)
PutRefusedLeaking(t) ==
  /\ At(t, "loop", "Put")
  /\ target[t] \in Node /\ Keeps(t)
  /\ desired' = [desired EXCEPT ![t] = NULL]
  /\ Finish(t, FALSE)
  /\ UNCHANGED <<shared, req, target, first>>

PutRefused(t) ==
  /\ At(t, "loop", "Put")
  /\ target[t] \in Node /\ Keeps(t)
  /\ data' = [data EXCEPT ![desired[t]] = FREE]
  /\ desired' = [desired EXCEPT ![t] = NULL]
  /\ Finish(t, FALSE)
  /\ UNCHANGED <<slot, req, target, first>>

(* The new pointer is in, and the old value is deleted.                    *)
Put(t) ==
  /\ At(t, "loop", "Put")
  /\ target[t] # kOccupied /\ CasSucceeds(t)
  /\ Keeps(t) => target[t] = NULL
  /\ Set(t, desired[t])
  /\ data' = [a \in Node |-> IF a = target[t] THEN FREE ELSE data[a]]
  /\ desired' = [desired EXCEPT ![t] = NULL]
  /\ Finish(t, TRUE)
  /\ UNCHANGED <<req, target, first>>

Leave(t) ==
  /\ Return(t)
  /\ first' = [first EXCEPT ![t] = PENDING]
  /\ UNCHANGED data

Step(t) ==
  \/ Load(t) \/ Spin(t)
  \/ GetAbsent(t) \/ Own(t) \/ ReadOwned(t) \/ Restore(t) \/ Reread(t)
  \/ PutRefused(t) \/ Put(t) \/ Leave(t)

-----------------------------------------------------------------------------
(* The thread took the pointer of key k out of its slot.                   *)
Reads(t) == pc[t] \in {"own", "restore"}
Owns(t, k) == Reads(t) /\ KeyOf(t) = k

TypeOK ==
  /\ slot \in [Key -> Node \cup {NULL, kOccupied}]
  /\ first \in [Thread -> Value \cup {PENDING}]
  /\ pc \in [Thread -> {"idle", "load", "loop", "own", "restore", "reread", "done"}]

(* A mark in a slot has exactly one owner, who will put the pointer back.  *)
OneOwner ==
  \A k \in Key :
    /\ slot[k] = kOccupied => \E t \in Thread : Owns(t, k)
    /\ \A t \in Thread : Owns(t, k) =>
         slot[k] = kOccupied /\ \A u \in Thread : Owns(u, k) => u = t

(* Where an address is referred to: a slot, a reader's hand, or a Put that *)
(* has not stored it yet.                                                  *)
Holders(a) ==
  {<<"slot", k>> : k \in {k \in Key : slot[k] = a}}
    \cup {<<"reader", t>> : t \in {t \in Thread : Reads(t) /\ target[t] = a}}
    \cup {<<"writer", t>> : t \in {t \in Thread : desired[t] = a}}

(* As SlotMap has it: the pointer of a slot is the owner's while it is     *)
(* marked.  A Get that saw no value, and a Put that saw one, take effect   *)
(* with the load or compare_exchange that told them; a Get that read a     *)
(* value, when it reads again, overtaken if the pointer is another one.    *)
Pointer ==
  [k \in Key |->
     IF slot[k] # kOccupied THEN slot[k]
     ELSE target[CHOOSE t \in Thread : Owns(t, k)]]

Contents ==
  [k \in Key |-> IF Pointer[k] = NULL THEN ABSENT ELSE data[Pointer[k]]]

Overtaken ==
  [t \in Thread |-> pc[t] = "reread" /\ Pointer[KeyOf(t)] # target[t]]

Answer ==
  [t \in Thread |->
     IF At(t, "loop", "Get") /\ target[t] = NULL THEN ABSENT
     ELSE IF At(t, "loop", "Put") /\ target[t] \in Node /\ Keeps(t) THEN FALSE
     ELSE ret[t]]

=============================================================================
