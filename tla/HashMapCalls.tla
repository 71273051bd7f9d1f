---------------------------- MODULE HashMapCalls ----------------------------
(***************************************************************************)
(* What the implementations of HashMap<uint64_t> have in common: a slot    *)
(* for each index, the memory the slots point to, and the calls of Get and *)
(* Put(const T &) that threads are in.  Implementations extend this with   *)
(* the variables and the steps of their own.                               *)
(***************************************************************************)
EXTENDS Naturals

CONSTANTS
  Thread, Key, Value,
  Node,      \* addresses a value may be allocated at
  NULL,      \* the null pointer, and no request
  FREE,      \* the contents of an address that was deleted
  ABSENT,    \* what Get reports when it returns false
  PENDING    \* no return value yet

ASSUME NodeAssumption == NULL \notin Node
ASSUME ValueAssumption ==
  /\ FREE \notin Value /\ ABSENT \notin Value
  /\ PENDING \notin BOOLEAN \cup Value \cup {ABSENT, FREE}

GetRequest == [op : {"Get"}, key : Key]
PutRequest == [op : {"Put"}, key : Key, val : Value, overwrite : BOOLEAN]
Request == GetRequest \cup PutRequest

ASSUME RequestAssumption == NULL \notin Request

VARIABLES
  slot,      \* the vector of pointers, or of values
  data,      \* the memory of the values
  pc,        \* where each thread is in its call
  req,       \* the call it is executing
  target,    \* the pointer it read from the slot
  desired,   \* the pointer to the value Put allocated
  ret        \* the return value

shared == <<slot, data>>
vars == <<shared, pc, req, target, desired, ret>>

InitThreads ==
  /\ pc = [t \in Thread |-> "idle"]
  /\ req = [t \in Thread |-> NULL]
  /\ target = [t \in Thread |-> NULL]
  /\ desired = [t \in Thread |-> NULL]
  /\ ret = [t \in Thread |-> PENDING]

InitCalls == data = [a \in Node |-> FREE] /\ InitThreads

KeyOf(t) == req[t].key
At(t, l, op) == pc[t] = l /\ req[t].op = op
Goto(t, l) == pc' = [pc EXCEPT ![t] = l]
Finish(t, r) == Goto(t, "done") /\ ret' = [ret EXCEPT ![t] = r]
Keeps(t) == req[t].op = "Put" /\ ~req[t].overwrite

(* The slot of the thread's key, the local target and the slot's pointer.  *)
Set(t, p) == slot' = [slot EXCEPT ![KeyOf(t)] = p]
Current(t) == slot[KeyOf(t)]
Read(t) == target' = [target EXCEPT ![t] = Current(t)]

(* The thread calls Get or Put, whose first statement is at label l.       *)
Invoke(t, r, l) ==
  /\ pc[t] = "idle"
  /\ req' = [req EXCEPT ![t] = r]
  /\ Goto(t, l)
  /\ UNCHANGED <<shared, target, desired, ret>>

(* new uint64_t(value)                                                     *)
Allocate(t) ==
  \E a \in Node :
    /\ data[a] = FREE
    /\ data' = [data EXCEPT ![a] = req[t].val]
    /\ desired' = [desired EXCEPT ![t] = a]

Return(t) ==
  /\ pc[t] = "done"
  /\ Goto(t, "idle")
  /\ req' = [req EXCEPT ![t] = NULL]
  /\ target' = [target EXCEPT ![t] = NULL]
  /\ desired' = [desired EXCEPT ![t] = NULL]
  /\ ret' = [ret EXCEPT ![t] = PENDING]
  /\ UNCHANGED slot

=============================================================================
