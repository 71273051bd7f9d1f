------------------------------- MODULE TrieMap -------------------------------
(***************************************************************************)
(* The lock-free hash trie of ConcurrentHashMap: Find and DoInsert, step   *)
(* by step between their atomic accesses to the slots, over data nodes     *)
(* that are allocated, published, retired and reclaimed.                   *)
(*                                                                         *)
(* Each round of the code's loop is a Repin of the slot node_ptr (load,    *)
(* publish, check that the slot still holds the node) and one action for   *)
(* the branch taken on what it returned; a compare_exchange belongs to     *)
(* that last action.  The hazard pointer library is not part of the source:     *)
(* Repin, Reset, HazPtrRetire and reclamation are modelled from their use. *)
(***************************************************************************)
EXTENDS HashIndex

CONSTANTS
  Thread, Key, Value,
  Node,      \* addresses a DataNode may be allocated at
  HashFn,    \* the hash of each key
  NULL,      \* the null pointer, and no request
  ARRAY,     \* a slot holding a pointer marked by MarkArrayNode
  FREE,      \* the contents of an address where no DataNode lives
  ABSENT,    \* what Find reports when it returns false
  PENDING    \* no return value yet

ASSUME DepthAssumption == max_depth_ \in Nat \ {0}
ASSUME HashAssumption == HashFn \in [Key -> Nat]
ASSUME PointerAssumption == NULL \notin Node /\ ARRAY \notin Node /\ NULL # ARRAY
ASSUME FreeAssumption == FREE \notin [key : Key, val : Value]
ASSUME AnswerAssumption ==
  /\ PENDING \notin BOOLEAN \cup Value \cup {ABSENT}
  /\ ABSENT \notin BOOLEAN \cup Value

InsertType == {"DOES_NOT_EXIST", "MUST_EXIST", "ANY"}

FindRequest == [op : {"Find"}, key : Key]
InsertRequest == [op : {"Insert"}, key : Key, val : Value, type : InsertType]
Request == FindRequest \cup InsertRequest

ASSUME RequestAssumption == NULL \notin Request

Level == 0..(max_depth_ - 1)
SlotOf == [k \in Key |-> [l \in Level |-> PathOf(HashFn[k], l)]]
Slot == {SlotOf[k][l] : k \in Key, l \in Level}
Child(s, i) == Append(s, i)

VARIABLES
  slot,      \* the atomic pointers of root_ and of every linked array_
  data,      \* the memory of the data nodes
  retired,   \* handed to HazPtrRetire and not yet reclaimed
  hazard,    \* the node each thread's HazPtrHolder pins
  pc,        \* idle, load, pin, validate, act, done
  req,       \* the call each thread is executing
  depth,     \* its level
  node,      \* its local variable node
  ptr,       \* the new node its unique_ptr owns
  ret,       \* its return value
  raced,     \* history: another thread changed the slot the call has read
  exited     \* the process called exit(1)

locals == <<pc, req, depth, node, ptr, ret>>
vars == <<slot, data, retired, hazard, locals, raced, exited>>

Init ==
  /\ slot = [s \in Slot |-> NULL]
  /\ data = [a \in Node |-> FREE]
  /\ retired = {}
  /\ hazard = [t \in Thread |-> NULL]
  /\ pc = [t \in Thread |-> "idle"]
  /\ req = [t \in Thread |-> NULL]
  /\ depth = [t \in Thread |-> 0]
  /\ node = [t \in Thread |-> NULL]
  /\ ptr = [t \in Thread |-> NULL]
  /\ ret = [t \in Thread |-> PENDING]
  /\ raced = [t \in Thread |-> FALSE]
  /\ exited = FALSE

NodePtr(t) == SlotOf[req[t].key][depth[t]]

Finding(t) == pc[t] = "act" /\ req[t].op = "Find"
Inserting(t) == pc[t] = "act" /\ req[t].op = "Insert"

SawData(t) == node[t] \in Node
SameKey(t) == data[node[t]].key = req[t].key

Goto(t, l) == pc' = [pc EXCEPT ![t] = l]

(* Leaving the function: its locals and the HazPtrHolder are gone.         *)
Leave(t, r) ==
  /\ Goto(t, "done")
  /\ ret' = [ret EXCEPT ![t] = r]
  /\ hazard' = [hazard EXCEPT ![t] = NULL]
  /\ depth' = [depth EXCEPT ![t] = 0]
  /\ node' = [node EXCEPT ![t] = NULL]
  /\ UNCHANGED req

(* return false from DoInsert: the unique_ptr deletes the node it owns.    *)
LeaveEmptyHanded(t) ==
  /\ Leave(t, FALSE)
  /\ data' = [data EXCEPT ![ptr[t]] = FREE]
  /\ ptr' = [ptr EXCEPT ![t] = NULL]

Release(t) == ptr' = [ptr EXCEPT ![t] = NULL]

Reading(t) == pc[t] \in {"pin", "validate", "act"}

(* A CAS of t has changed the slot under the calls that have read it.      *)
RaceOthers(t) ==
  raced' = [u \in Thread |->
              u # t /\ (raced[u] \/ (Reading(u) /\ NodePtr(u) = NodePtr(t)))]

(* The loop goes round: what the call has read so far does not count.      *)
Restart(t) ==
  /\ Goto(t, "load")
  /\ raced' = [raced EXCEPT ![t] = FALSE]

-----------------------------------------------------------------------------
(* Calls.                                                                  *)

CallFind(t) ==
  /\ pc[t] = "idle"
  /\ \E r \in FindRequest : req' = [req EXCEPT ![t] = r]
  /\ Goto(t, "load")
  /\ UNCHANGED <<slot, data, retired, hazard, depth, node, ptr, ret, raced, exited>>

(* Insert allocates the node before it looks at the map.                   *)
CallInsert(t) ==
  /\ pc[t] = "idle"
  /\ \E r \in InsertRequest, a \in Node :
       /\ data[a] = FREE
       /\ data' = [data EXCEPT ![a] = [key |-> r.key, val |-> r.val]]
       /\ ptr' = [ptr EXCEPT ![t] = a]
       /\ req' = [req EXCEPT ![t] = r]
  /\ Goto(t, "load")
  /\ UNCHANGED <<slot, retired, hazard, depth, node, ret, raced, exited>>

Return(t) ==
  /\ pc[t] = "done"
  /\ Goto(t, "idle")
  /\ req' = [req EXCEPT ![t] = NULL]
  /\ ret' = [ret EXCEPT ![t] = PENDING]
  /\ raced' = [raced EXCEPT ![t] = FALSE]
  /\ UNCHANGED <<slot, data, retired, hazard, depth, node, ptr, exited>>

-----------------------------------------------------------------------------
(* Repin of node_ptr, with IsArrayNode as the filter: a null or array      *)
(* pointer is returned as it is; the address of a data node is published,  *)
(* and the slot read again, for the node may have been replaced, retired   *)
(* and reclaimed before it was published.                                  *)

RepinLoad(t) ==
  /\ pc[t] = "load"
  /\ node' = [node EXCEPT ![t] = slot[NodePtr(t)]]
  /\ Goto(t, IF slot[NodePtr(t)] \in Node THEN "pin" ELSE "act")
  /\ UNCHANGED <<slot, data, retired, hazard, req, depth, ptr, ret, raced, exited>>

RepinPublish(t) ==
  /\ pc[t] = "pin"
  /\ hazard' = [hazard EXCEPT ![t] = node[t]]
  /\ Goto(t, "validate")
  /\ UNCHANGED <<slot, data, retired, req, depth, node, ptr, ret, raced, exited>>

RepinValidate(t) ==
  /\ pc[t] = "validate"
  /\ IF slot[NodePtr(t)] = node[t]
     THEN Goto(t, "act") /\ UNCHANGED raced
     ELSE Restart(t)
  /\ UNCHANGED <<slot, data, retired, hazard, req, depth, node, ptr, ret, exited>>

-----------------------------------------------------------------------------
(* Find.                                                                   *)

(* Mutant: the key of the node found is not compared.                      *)
FindAnswerAnyKey(t) == IF SawData(t) THEN data[node[t]].val ELSE ABSENT

FindAnswer(t) ==
  IF SawData(t) /\ SameKey(t) THEN data[node[t]].val ELSE ABSENT

FindReturn(t) ==
  /\ Finding(t)
  /\ node[t] # ARRAY
  /\ Leave(t, FindAnswer(t))
  /\ UNCHANGED <<slot, data, retired, ptr, raced, exited>>

(* Find goes down without resetting the holder.                            *)
FindDescend(t) ==
  /\ Finding(t)
  /\ node[t] = ARRAY
  /\ depth' = [depth EXCEPT ![t] = @ + 1]
  /\ Restart(t)
  /\ UNCHANGED <<slot, data, retired, hazard, req, node, ptr, ret, exited>>

-----------------------------------------------------------------------------
(* DoInsert.                                                               *)

InsertDescend(t) ==
  /\ Inserting(t)
  /\ node[t] = ARRAY
  /\ depth' = [depth EXCEPT ![t] = @ + 1]
  /\ hazard' = [hazard EXCEPT ![t] = NULL]
  /\ Restart(t)
  /\ UNCHANGED <<slot, data, retired, req, node, ptr, ret, exited>>

(* Mutant: an empty slot is filled whatever the insert type.               *)
WantsEmptyAnyType(t) == Inserting(t) /\ node[t] = NULL

WantsEmpty(t) ==
  Inserting(t) /\ node[t] = NULL /\ req[t].type # "MUST_EXIST"

RefuseAbsent(t) ==
  /\ Inserting(t)
  /\ node[t] = NULL
  /\ req[t].type = "MUST_EXIST"
  /\ LeaveEmptyHanded(t)
  /\ UNCHANGED <<slot, retired, raced, exited>>

(* Any data node in the slot refuses DOES_NOT_EXIST, whatever its key.     *)
RefusePresent(t) ==
  /\ Inserting(t)
  /\ SawData(t)
  /\ req[t].type = "DOES_NOT_EXIST"
  /\ LeaveEmptyHanded(t)
  /\ UNCHANGED <<slot, retired, raced, exited>>

(* Mutant: the node found is replaced whatever its key.                    *)
WantsReplaceAnyKey(t) ==
  Inserting(t) /\ SawData(t) /\ req[t].type # "DOES_NOT_EXIST"

WantsReplace(t) ==
  Inserting(t) /\ SawData(t) /\ req[t].type # "DOES_NOT_EXIST" /\ SameKey(t)

(* Mutants: the level bound is off by one, either way.                     *)
AtLastLevelEarly(t) == depth[t] + 1 >= max_depth_ - 1
AtLastLevelLate(t) == depth[t] > max_depth_ - 1

(* There is no room for another ArrayNode below the slot.                  *)
AtLastLevel(t) == depth[t] >= max_depth_ - 1

WantsSplit(t) ==
  /\ Inserting(t) /\ SawData(t) /\ req[t].type # "DOES_NOT_EXIST" /\ ~SameKey(t)
  /\ ~AtLastLevel(t)

(* The slots of the new ArrayNode for the node found and for the new one.  *)
TmpIdx(t) == GetNthIdx(HashFn[data[node[t]].key], depth[t] + 1)
NextIdx(t) == GetNthIdx(HashFn[req[t].key], depth[t] + 1)

CasSucceeds(t) == slot[NodePtr(t)] = node[t]

FillEmpty(t) ==
  /\ WantsEmpty(t)
  /\ CasSucceeds(t)
  /\ slot' = [slot EXCEPT ![NodePtr(t)] = ptr[t]]
  /\ Release(t)
  /\ Leave(t, TRUE)
  /\ RaceOthers(t)
  /\ UNCHANGED <<data, retired, exited>>

(* Mutant: the node replaced is deleted at once.                           *)
ReplaceDeleting(t) ==
  /\ WantsReplace(t)
  /\ CasSucceeds(t)
  /\ slot' = [slot EXCEPT ![NodePtr(t)] = ptr[t]]
  /\ data' = [data EXCEPT ![node[t]] = FREE]
  /\ Release(t)
  /\ Leave(t, TRUE)
  /\ RaceOthers(t)
  /\ UNCHANGED <<retired, exited>>

Replace(t) ==
  /\ WantsReplace(t)
  /\ CasSucceeds(t)
  /\ slot' = [slot EXCEPT ![NodePtr(t)] = ptr[t]]
  /\ retired' = retired \cup {node[t]}
  /\ Release(t)
  /\ Leave(t, TRUE)
  /\ RaceOthers(t)
  /\ UNCHANGED <<data, exited>>

(* Mutant: the two nodes change places in the new array.                   *)
SplitSwapped(t) ==
  /\ WantsSplit(t) /\ NextIdx(t) # TmpIdx(t)
  /\ CasSucceeds(t)
  /\ slot' = [slot EXCEPT ![NodePtr(t)] = ARRAY,
                          ![Child(NodePtr(t), NextIdx(t))] = node[t],
                          ![Child(NodePtr(t), TmpIdx(t))] = ptr[t]]
  /\ Release(t)
  /\ Leave(t, TRUE)
  /\ RaceOthers(t)
  /\ UNCHANGED <<data, retired, exited>>

(* Mutant: the new node is not stored in the array.                        *)
SplitWithoutNew(t) ==
  /\ WantsSplit(t) /\ NextIdx(t) # TmpIdx(t)
  /\ CasSucceeds(t)
  /\ slot' = [slot EXCEPT ![NodePtr(t)] = ARRAY,
                          ![Child(NodePtr(t), TmpIdx(t))] = node[t]]
  /\ Release(t)
  /\ Leave(t, TRUE)
  /\ RaceOthers(t)
  /\ UNCHANGED <<data, retired, exited>>

(* The two keys part here: a new ArrayNode takes the place of the node and *)
(* holds both.                                                             *)
Split(t) ==
  /\ WantsSplit(t) /\ NextIdx(t) # TmpIdx(t)
  /\ CasSucceeds(t)
  /\ slot' = [slot EXCEPT ![NodePtr(t)] = ARRAY,
                          ![Child(NodePtr(t), TmpIdx(t))] = node[t],
                          ![Child(NodePtr(t), NextIdx(t))] = ptr[t]]
  /\ Release(t)
  /\ Leave(t, TRUE)
  /\ RaceOthers(t)
  /\ UNCHANGED <<data, retired, exited>>

(* The result of that CAS is not looked at: when it failed, the array and  *)
(* the new node are released all the same and the call returns true.       *)
SplitLost(t) ==
  /\ WantsSplit(t) /\ NextIdx(t) # TmpIdx(t)
  /\ ~CasSucceeds(t)
  /\ Release(t)
  /\ Leave(t, TRUE)
  /\ UNCHANGED <<slot, data, retired, raced, exited>>

(* The keys share this index too: the node moves down alone and the loop   *)
(* goes on at its new slot.                                                *)
PushDown(t) ==
  /\ WantsSplit(t) /\ NextIdx(t) = TmpIdx(t)
  /\ CasSucceeds(t)
  /\ slot' = [slot EXCEPT ![NodePtr(t)] = ARRAY,
                          ![Child(NodePtr(t), TmpIdx(t))] = node[t]]
  /\ depth' = [depth EXCEPT ![t] = @ + 1]
  /\ Goto(t, "load")
  /\ RaceOthers(t)
  /\ UNCHANGED <<data, retired, hazard, req, node, ptr, ret, exited>>

(* Mutant: the node is retired although the compare_exchange failed.       *)
RetryRetiring(t) ==
  /\ WantsEmpty(t) \/ WantsReplace(t) \/ (WantsSplit(t) /\ NextIdx(t) = TmpIdx(t))
  /\ ~CasSucceeds(t)
  /\ retired' = retired \cup ({node[t]} \ {NULL})
  /\ Restart(t)
  /\ UNCHANGED <<slot, data, hazard, req, depth, node, ptr, ret, exited>>

(* Mutant: the compare_exchange is repeated without a new Repin.           *)
RetryStale(t) ==
  /\ WantsEmpty(t) \/ WantsReplace(t) \/ (WantsSplit(t) /\ NextIdx(t) = TmpIdx(t))
  /\ ~CasSucceeds(t)
  /\ Goto(t, "act")
  /\ UNCHANGED <<slot, data, retired, hazard, req, depth, node, ptr, ret, raced, exited>>

Retry(t) ==
  /\ WantsEmpty(t) \/ WantsReplace(t) \/ (WantsSplit(t) /\ NextIdx(t) = TmpIdx(t))
  /\ ~CasSucceeds(t)
  /\ Restart(t)
  /\ UNCHANGED <<slot, data, retired, hazard, req, depth, node, ptr, ret, exited>>

(* "Not Implemented Yet": two keys still together at the last level.       *)
GiveUp(t) ==
  /\ Inserting(t) /\ SawData(t) /\ req[t].type # "DOES_NOT_EXIST" /\ ~SameKey(t)
  /\ AtLastLevel(t)
  /\ exited' = TRUE
  /\ UNCHANGED <<slot, data, retired, hazard, locals, raced>>

-----------------------------------------------------------------------------
(* The library reclaims a retired node no holder pins.                     *)
Reclaim(a) ==
  /\ a \in retired
  /\ \A t \in Thread : hazard[t] # a
  /\ retired' = retired \ {a}
  /\ data' = [data EXCEPT ![a] = FREE]
  /\ UNCHANGED <<slot, hazard, locals, raced, exited>>

InsertStep(t) ==
  \/ InsertDescend(t) \/ RefuseAbsent(t) \/ RefusePresent(t)
  \/ FillEmpty(t) \/ Replace(t) \/ Split(t) \/ SplitLost(t)
  \/ PushDown(t) \/ Retry(t) \/ GiveUp(t)

Step(t) ==
  \/ RepinLoad(t) \/ RepinPublish(t) \/ RepinValidate(t)
  \/ FindReturn(t) \/ FindDescend(t)
  \/ InsertStep(t)
  \/ Return(t)

Next ==
  /\ ~exited
  /\ \/ \E t \in Thread : CallFind(t) \/ CallInsert(t) \/ Step(t)
     \/ \E a \in Node : Reclaim(a)

Spec == Init /\ [][Next]_vars

(* A thread inside a call keeps being scheduled; nobody has to call.       *)
FairSpec == Spec /\ \A t \in Thread : WF_vars(~exited /\ Step(t))

-----------------------------------------------------------------------------
Busy(t) == pc[t] \in {"load", "pin", "validate", "act"}
Linked(a) == \E s \in Slot : slot[s] = a

(* The value a lookup from the root would find for k in this state.        *)
Holds(k, l) ==
  /\ \A m \in 0..(l - 1) : slot[SlotOf[k][m]] = ARRAY
  /\ slot[SlotOf[k][l]] \in Node
  /\ data[slot[SlotOf[k][l]]] # FREE
  /\ data[slot[SlotOf[k][l]]].key = k

Present(k) == \E l \in Level : Holds(k, l)
ValueOf(k) == data[slot[SlotOf[k][CHOOSE l \in Level : Holds(k, l)]]].val
Contents == [k \in Key |-> IF Present(k) THEN ValueOf(k) ELSE ABSENT]

-----------------------------------------------------------------------------
(* Properties.                                                             *)

(* Every variable holds what its declaration in the code allows.           *)
TypeOK ==
  /\ slot \in [Slot -> Node \cup {NULL, ARRAY}]
  /\ data \in [Node -> [key : Key, val : Value] \cup {FREE}]
  /\ retired \in SUBSET Node
  /\ hazard \in [Thread -> Node \cup {NULL}]
  /\ pc \in [Thread -> {"idle", "load", "pin", "validate", "act", "done"}]
  /\ req \in [Thread -> Request \cup {NULL}]
  /\ depth \in [Thread -> Level]
  /\ node \in [Thread -> Node \cup {NULL, ARRAY}]
  /\ ptr \in [Thread -> Node \cup {NULL}]
  /\ ret \in [Thread -> BOOLEAN \cup Value \cup {ABSENT, PENDING}]
  /\ raced \in [Thread -> BOOLEAN]
  /\ exited \in BOOLEAN

(* A node that Find or DoInsert is about to read, link below a new array   *)
(* or compare against is one the memory manager has not taken back: the    *)
(* holder of Repin protects it until the call is done with it, whatever    *)
(* the others replace, retire and reclaim in between.                      *)
PinnedAlive ==
  \A t \in Thread : pc[t] = "act" /\ SawData(t) => data[node[t]] # FREE

(* A reader entering now finds no node that was given to HazPtrRetire: it  *)
(* is out of every slot, and nobody deletes it a second time through a     *)
(* unique_ptr.                                                             *)
RetiredUnreachable ==
  \A a \in retired :
    /\ ~Linked(a)
    /\ data[a] # FREE
    /\ \A t \in Thread : ptr[t] # a

(* Concurrent inserts of one key, at whatever level each of them ends,     *)
(* leave one node with it: no older value survives deeper or higher up.    *)
OneNodePerKey ==
  \A s, r \in Slot :
    /\ slot[s] \in Node /\ slot[r] \in Node
    /\ data[slot[s]].key = data[slot[r]].key
    => s = r

(* A data node sits on the path of its own key, below linked arrays only:  *)
(* splitting at tmp_idx and next_idx put it where a lookup will come by.   *)
OnOwnPath ==
  \A s \in Slot : slot[s] \in Node => Holds(data[slot[s]].key, Len(s) - 1)

(* No insert takes another key out of the map: there is no delete, so a    *)
(* key once present stays present through replacements and splits.         *)
KeysStay == [][\A k \in Key : Present(k) => Present(k)']_vars

(* exit(1) is only reached by an insert that found a node of another key   *)
(* with the same index at every level: a shorter common prefix is always   *)
(* resolved by splits.                                                     *)
ExitNeedsFullCollision ==
  exited => \E t \in Thread :
    /\ Inserting(t) /\ SawData(t) /\ ~SameKey(t)
    /\ SlotOf[data[node[t]].key][max_depth_ - 1] = SlotOf[req[t].key][max_depth_ - 1]

(* The ignored CAS of line 804 is the only way to lose a key: an insert    *)
(* that returned true is in the map unless another thread's CAS changed    *)
(* the very slot between this call's last Repin of it and its own CAS,     *)
(* whatever the others did to every other slot, and to this one before     *)
(* that Repin and after the insert.                                        *)
UndisturbedInsertKept ==
  \A t \in Thread :
    pc[t] = "done" /\ req[t].op = "Insert" /\ ret[t] = TRUE /\ ~raced[t]
      => Present(req[t].key)

(* What a caller of Insert relies on: after true the key is in the map.    *)
AcknowledgedInsertPresent ==
  \A t \in Thread :
    pc[t] = "done" /\ req[t].op = "Insert" /\ ret[t] = TRUE
      => Present(req[t].key)

(* Lock-freedom: when threads are inside calls, one of them gets to the    *)
(* end of its call, however the others' CAS make each one start over.      *)
SomeCallReturns ==
  (\E t \in Thread : Busy(t)) ~> (exited \/ \E t \in Thread : pc[t] = "done")

-----------------------------------------------------------------------------
(* The inductive invariant behind the safety properties.                   *)

(* Below a slot that holds no array there is nothing, however deep, and    *)
(* the last level holds no array.                                          *)
TreeShape ==
  \A k \in Key, l \in Level :
    /\ slot[SlotOf[k][l]] = ARRAY => l + 1 \in Level
    /\ slot[SlotOf[k][l]] # ARRAY =>
         \A m \in Level : m > l => slot[SlotOf[k][m]] = NULL

(* A linked node is alive, in one slot only, and on the path of its key.   *)
LinkedNodes ==
  \A s \in Slot : slot[s] \in Node =>
    /\ data[slot[s]] # FREE
    /\ slot[s] \notin retired
    /\ \E l \in Level : s = SlotOf[data[slot[s]].key][l]
    /\ \A r \in Slot : slot[r] = slot[s] => r = s

RetiredAlive == \A a \in retired : data[a] # FREE

(* The node of a unique_ptr belongs to its call alone, which runs.         *)
OwnedNode(t) ==
  /\ ptr[t] # NULL <=> Busy(t) /\ req[t].op = "Insert"
  /\ ptr[t] # NULL =>
       /\ data[ptr[t]] = [key |-> req[t].key, val |-> req[t].val]
       /\ ptr[t] \notin retired
       /\ ~Linked(ptr[t])
       /\ \A u \in Thread : ptr[u] = ptr[t] => u = t

(* Where a call is in the tree, and what it may still rely on.             *)
Position(t) ==
  /\ pc[t] \in {"idle", "done"} => depth[t] = 0
  /\ pc[t] # "idle" => req[t] \in Request
  /\ Busy(t) => \A m \in Level : m < depth[t] => slot[SlotOf[req[t].key][m]] = ARRAY
  /\ pc[t] = "pin" => node[t] \in Node
  /\ pc[t] = "validate" => node[t] \in Node /\ hazard[t] = node[t]
  /\ pc[t] = "act" /\ node[t] = ARRAY => slot[NodePtr(t)] = ARRAY
  /\ pc[t] = "act" /\ node[t] \in Node =>
       /\ hazard[t] = node[t]
       /\ data[node[t]] # FREE
       /\ node[t] \in retired \/ Linked(node[t])
       /\ SlotOf[data[node[t]].key][depth[t]] = NodePtr(t)

IInv ==
  /\ TypeOK
  /\ TreeShape
  /\ LinkedNodes
  /\ RetiredAlive
  /\ \A t \in Thread : OwnedNode(t)
  /\ \A t \in Thread : Position(t)
  /\ ExitNeedsFullCollision

-----------------------------------------------------------------------------
(* The abstract map this implements: a Find takes effect when its last     *)
(* Repin saw what it answers from, an insert in the step that decides it.  *)

Decided(t) ==
  pc[t] = "act" /\ IF req[t].op = "Find"
                   THEN node[t] # ARRAY
                   ELSE node[t] = NULL /\ req[t].type = "MUST_EXIST"

AbstractAnswer ==
  [t \in Thread |->
     IF ~Decided(t) THEN ret[t]
     ELSE IF req[t].op = "Find" THEN FindAnswer(t) ELSE FALSE]

Map == INSTANCE ConcurrentMap WITH contents <- Contents, answer <- AbstractAnswer

(* Find and Insert take effect atomically, as ConcurrentMap says.          *)
ImplementsMap == Map!Spec

=============================================================================
