------------------------------- MODULE SlotMap -------------------------------
(***************************************************************************)
(* What the interface HashMap<uint64_t> promises: a map from the indices   *)
(* 0..Size()-1, each of them on its own, to a value or nothing.  Get and   *)
(* Put take effect in one step between call and return, and Put without    *)
(* overwrite leaves a value that is there alone.  An implementation may    *)
(* allow itself to break that promise, but only in these four ways:        *)
(*   "late"    a Put without overwrite that saw no value at some time      *)
(*             during the call may replace the one that is there by now;   *)
(*   "forced"  every Put overwrites;                                       *)
(*   "denied"  an overwriting Put that has stored its value returns FALSE; *)
(*   "reread"  a Get overtaken by a Put at its index may return any value, *)
(*             or what deleted memory holds.                               *)
(***************************************************************************)
CONSTANTS
  Thread, Key, Value,
  zero,      \* the value every index starts with, if it starts with one
  NULL,      \* no request
  FREE,      \* what deleted memory holds
  ABSENT,    \* no value
  PENDING    \* no answer yet

VARIABLES
  contents,  \* the map
  req,       \* the operation each thread is executing
  answer,    \* what it will return, once it has taken effect
  cleared,   \* a Put without overwrite has seen that there is no value
  overtaken, \* a Put came between the two reads of a Get
  allows     \* how the implementation breaks the promise

mapVars == <<contents, req, answer, cleared, overtaken, allows>>

GetRequest == [op : {"Get"}, key : Key]
PutRequest == [op : {"Put"}, key : Key, val : Value, overwrite : BOOLEAN]
Request == GetRequest \cup PutRequest

Init ==
  /\ \E v \in {ABSENT, zero} : contents = [k \in Key |-> v]
  /\ req = [t \in Thread |-> NULL]
  /\ answer = [t \in Thread |-> PENDING]
  /\ cleared = [t \in Thread |-> FALSE]
  /\ overtaken = [t \in Thread |-> FALSE]
  /\ allows \in SUBSET {"late", "forced", "denied", "reread"}

Pending(t, op) == req[t] # NULL /\ req[t].op = op /\ answer[t] = PENDING
Answer(t, a) == answer' = [answer EXCEPT ![t] = a]

Invoke(t) ==
  /\ req[t] = NULL
  /\ \E r \in Request : req' = [req EXCEPT ![t] = r]
  /\ UNCHANGED <<contents, answer, cleared, overtaken, allows>>

Lookup(t) ==
  /\ Pending(t, "Get")
  /\ ~overtaken[t]
  /\ Answer(t, contents[req[t].key])
  /\ UNCHANGED <<contents, req, cleared, overtaken, allows>>

Reread(t) ==
  /\ Pending(t, "Get")
  /\ overtaken[t]
  /\ \E v \in Value \cup {FREE} : Answer(t, v)
  /\ overtaken' = [overtaken EXCEPT ![t] = FALSE]
  /\ UNCHANGED <<contents, req, cleared, allows>>

Clear(t) ==
  /\ "late" \in allows
  /\ Pending(t, "Put")
  /\ ~req[t].overwrite
  /\ contents[req[t].key] = ABSENT
  /\ cleared' = [cleared EXCEPT ![t] = TRUE]
  /\ UNCHANGED <<contents, req, answer, overtaken, allows>>

(* A Put of t that stores at index k may overtake a Get of u, or put back  *)
(* in its place the pointer u goes by.                                     *)
Overtakable(u, k) == "reread" \in allows /\ Pending(u, "Get") /\ req[u].key = k

Store(t) ==
  /\ Pending(t, "Put")
  /\ \/ req[t].overwrite
     \/ contents[req[t].key] = ABSENT
     \/ cleared[t]
     \/ "forced" \in allows
  /\ contents' = [contents EXCEPT ![req[t].key] = req[t].val]
  /\ Answer(t, IF "denied" \in allows /\ req[t].overwrite THEN FALSE ELSE TRUE)
  /\ cleared' = [cleared EXCEPT ![t] = FALSE]
  /\ overtaken' \in [Thread -> BOOLEAN]
  /\ \A u \in Thread : overtaken'[u] = overtaken[u] \/ Overtakable(u, req[t].key)
  /\ UNCHANGED <<req, allows>>

Refuse(t) ==
  /\ "forced" \notin allows
  /\ Pending(t, "Put")
  /\ ~req[t].overwrite
  /\ contents[req[t].key] # ABSENT
  /\ Answer(t, FALSE)
  /\ cleared' = [cleared EXCEPT ![t] = FALSE]
  /\ UNCHANGED <<contents, req, overtaken, allows>>

Return(t) ==
  /\ req[t] # NULL
  /\ answer[t] # PENDING
  /\ req' = [req EXCEPT ![t] = NULL]
  /\ Answer(t, PENDING)
  /\ UNCHANGED <<contents, cleared, overtaken, allows>>

Next ==
  \E t \in Thread :
    \/ Invoke(t) \/ Lookup(t) \/ Reread(t) \/ Clear(t)
    \/ Store(t) \/ Refuse(t) \/ Return(t)

Spec == Init /\ [][Next]_mapVars

=============================================================================
