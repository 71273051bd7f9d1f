---------------------------- MODULE ConcurrentMap ----------------------------
(***************************************************************************)
(* What the trie of ConcurrentHashMap promises its callers, without slots, *)
(* nodes or hazard pointers: an operation is invoked, takes effect in one  *)
(* step somewhere before it returns, and then returns its answer.          *)
(*                                                                         *)
(* The promise is weaker than a map's in three ways, each one stated by    *)
(* the guard of an action: an insert another one overtook may be           *)
(* acknowledged and lost (Lose); DOES_NOT_EXIST may be refused, and        *)
(* MUST_EXIST accepted, because of a DIFFERENT key (Refuse, Store).        *)
(***************************************************************************)
CONSTANTS
  Thread, Key, Value,
  NULL,      \* no request
  ABSENT,    \* the key is not in the map
  PENDING    \* no answer yet

VARIABLES
  contents,  \* the map
  req,       \* the operation each thread is executing
  answer,    \* what it will return, once it has taken effect
  raced      \* may an insert have overtaken what the operation goes by?

mapVars == <<contents, req, answer, raced>>

InsertType == {"DOES_NOT_EXIST", "MUST_EXIST", "ANY"}

FindRequest == [op : {"Find"}, key : Key]
InsertRequest == [op : {"Insert"}, key : Key, val : Value, type : InsertType]
Request == FindRequest \cup InsertRequest

Init ==
  /\ contents = [k \in Key |-> ABSENT]
  /\ req = [t \in Thread |-> NULL]
  /\ answer = [t \in Thread |-> PENDING]
  /\ raced = [t \in Thread |-> FALSE]

Pending(t) == req[t] # NULL /\ answer[t] = PENDING
PendingInsert(t) == Pending(t) /\ req[t].op = "Insert"
Answer(t, a) == answer' = [answer EXCEPT ![t] = a]

(* An insert may overtake any other operation in progress.                 *)
RaceOthers(t) ==
  /\ raced' \in [Thread -> BOOLEAN]
  /\ \A u \in Thread \ {t} :
       /\ raced[u] => raced'[u]
       /\ raced'[u] => raced[u] \/ req[u] # NULL
  /\ raced'[t] => raced[t]

OtherKeyPresent(k) == \E j \in Key \ {k} : contents[j] # ABSENT

Invoke(t) ==
  /\ req[t] = NULL
  /\ \E r \in Request : req' = [req EXCEPT ![t] = r]
  /\ UNCHANGED <<contents, answer, raced>>

Lookup(t) ==
  /\ Pending(t)
  /\ req[t].op = "Find"
  /\ Answer(t, contents[req[t].key])
  /\ UNCHANGED <<contents, req, raced>>

Store(t) ==
  /\ PendingInsert(t)
  /\ LET k == req[t].key
     IN  /\ req[t].type = "DOES_NOT_EXIST" => contents[k] = ABSENT
         /\ req[t].type = "MUST_EXIST" => contents[k] # ABSENT \/ OtherKeyPresent(k)
         /\ contents' = [contents EXCEPT ![k] = req[t].val]
  /\ Answer(t, TRUE)
  /\ RaceOthers(t)
  /\ UNCHANGED req

Refuse(t) ==
  /\ PendingInsert(t)
  /\ LET k == req[t].key
     IN  \/ /\ req[t].type = "DOES_NOT_EXIST"
            /\ contents[k] # ABSENT \/ OtherKeyPresent(k)
         \/ req[t].type = "MUST_EXIST" /\ contents[k] = ABSENT
  /\ Answer(t, FALSE)
  /\ UNCHANGED <<contents, req, raced>>

(* Acknowledged without being stored; only after a race.                   *)
Lose(t) ==
  /\ PendingInsert(t)
  /\ req[t].type # "DOES_NOT_EXIST"
  /\ raced[t] /\ OtherKeyPresent(req[t].key)
  /\ Answer(t, TRUE)
  /\ UNCHANGED <<contents, req, raced>>

(* An insert rearranges the map on its way, without changing any contents. *)
Rearrange(t) ==
  /\ PendingInsert(t)
  /\ RaceOthers(t)
  /\ UNCHANGED <<contents, req, answer>>

(* An operation starts over, and what overtook it no longer matters.       *)
Restart(t) ==
  /\ Pending(t)
  /\ raced' = [raced EXCEPT ![t] = FALSE]
  /\ UNCHANGED <<contents, req, answer>>

Return(t) ==
  /\ req[t] # NULL
  /\ answer[t] # PENDING
  /\ req' = [req EXCEPT ![t] = NULL]
  /\ Answer(t, PENDING)
  /\ raced' = [raced EXCEPT ![t] = FALSE]
  /\ UNCHANGED contents

Next ==
  \E t \in Thread :
    \/ Invoke(t) \/ Lookup(t) \/ Store(t) \/ Refuse(t)
    \/ Lose(t) \/ Rearrange(t) \/ Restart(t) \/ Return(t)

Spec == Init /\ [][Next]_mapVars

=============================================================================
