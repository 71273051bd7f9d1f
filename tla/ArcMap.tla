-------------------------------- MODULE ArcMap --------------------------------
(***************************************************************************)
(* The HashMap of boost_arc_impl.cpp, whose slots are atomic shared        *)
(* pointers: what a slot or a local variable points to is alive, and is    *)
(* deleted when the last of them lets go of it.                            *)
(***************************************************************************)
EXTENDS HashMapCalls

CONSTANTS
  kTries     \* how often Put tries to store (20)

TriesAssumption == kTries \in Nat \ {0}

VARIABLES
  tries      \* the attempts of Put that failed

Init ==
  /\ slot = [k \in Key |-> NULL]
  /\ tries = [t \in Thread |-> 0]
  /\ InitCalls

(* What no slot and no local variable refers to any more is deleted.       *)
Counted ==
  LET referenced == {slot'[k] : k \in Key} \cup {target'[t] : t \in Thread}
                      \cup {desired'[t] : t \in Thread}
  IN  [a \in Node |-> IF a \in referenced THEN data[a] ELSE FREE]

(* Put allocates its value first.                                          *)
Call(t) ==
  /\ \E r \in Request : Invoke(t, r, IF r.op = "Get" THEN "load" ELSE "new")
  /\ UNCHANGED tries

New(t) ==
  /\ pc[t] = "new"
  /\ Allocate(t)
  /\ Goto(t, IF Keeps(t) THEN "load" ELSE "store")
  /\ UNCHANGED <<slot, req, target, ret, tries>>

Load(t) ==
  /\ pc[t] = "load"
  /\ Read(t)
  /\ Goto(t, "look")
  /\ UNCHANGED <<shared, req, desired, ret, tries>>

GetAnswer(t) == IF target[t] = NULL THEN ABSENT ELSE data[target[t]]

Get(t) ==
  /\ At(t, "look", "Get")
  /\ Finish(t, GetAnswer(t))
  /\ UNCHANGED <<shared, req, target, desired, tries>>

PutRefused(t) ==
  /\ At(t, "look", "Put")
  /\ target[t] # NULL
  /\ Finish(t, FALSE)
  /\ UNCHANGED <<shared, req, target, desired, tries>>

PutCleared(t) ==
  /\ At(t, "look", "Put")
  /\ target[t] = NULL
  /\ Goto(t, "cas")
  /\ UNCHANGED <<shared, req, target, desired, ret, tries>>

(* The first attempt stores where there was no value, a later one replaces *)
(* the value that made the one before it fail.                             *)
PutStored(t) ==
  /\ pc[t] = "cas"
  /\ Current(t) = target[t]
  /\ Set(t, desired[t])
  /\ Finish(t, TRUE)
  /\ UNCHANGED <<req, target, desired, tries>>
  /\ data' = Counted

PutFailed(t) ==
  /\ pc[t] = "cas"
  /\ Current(t) # target[t]
  /\ Read(t)
  /\ IF tries[t] + 1 = kTries
     THEN Finish(t, FALSE) /\ tries' = [tries EXCEPT ![t] = 0]
     ELSE tries' = [tries EXCEPT ![t] = @ + 1] /\ UNCHANGED <<pc, ret>>
  /\ UNCHANGED <<slot, req, desired>>
  /\ data' = Counted

(* An overwriting Put reports FALSE.                                       *)
Store(t) ==
  /\ pc[t] = "store"
  /\ Set(t, desired[t])
  /\ Finish(t, FALSE)
  /\ UNCHANGED <<req, target, desired, tries>>
  /\ data' = Counted

Leave(t) ==
  /\ Return(t)
  /\ tries' = [tries EXCEPT ![t] = 0]
  /\ data' = Counted

Step(t) ==
  \/ New(t) \/ Load(t) \/ Get(t) \/ PutRefused(t) \/ PutCleared(t)
  \/ PutStored(t) \/ PutFailed(t) \/ Store(t) \/ Leave(t)

-----------------------------------------------------------------------------
TypeOK ==
  /\ slot \in [Key -> Node \cup {NULL}]
  /\ tries \in [Thread -> 0..(kTries - 1)]
  /\ pc \in [Thread -> {"idle", "new", "load", "look", "cas", "store", "done"}]

(* As SlotMap has it: a look takes effect when the slot was read, and the  *)
(* last attempt when it failed.                                            *)
Contents == [k \in Key |-> IF slot[k] = NULL THEN ABSENT ELSE data[slot[k]]]

Answer ==
  [t \in Thread |->
     IF At(t, "look", "Get") THEN GetAnswer(t)
     ELSE IF At(t, "look", "Put") /\ target[t] # NULL THEN FALSE
     ELSE ret[t]]

Cleared ==
  [t \in Thread |-> pc[t] = "cas" \/ (At(t, "look", "Put") /\ target[t] = NULL)]

=============================================================================
