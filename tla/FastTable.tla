------------------------------ MODULE FastTable ------------------------------
(***************************************************************************)
(* The cache of hot keys in front of the trie: one slot per index, holding *)
(* a pointer to an immutable node whose upper 16 bits are a second hash of *)
(* the node's key, so that most strangers are turned away unread.          *)
(*                                                                         *)
(* The value of a node is left out: no property here tells two apart.      *)
(* Repin and HazPtrRetire belong to a library outside the source; Repin is *)
(* taken to protect the pointers its filter accepts, and HazPtrRetire to   *)
(* ignore the null pointer and the tag bits.                               *)
(***************************************************************************)
EXTENDS FastTableHash

CONSTANTS
  Thread, Key,
  Node,          \* addresses a FastTableNode may be allocated at
  HashFn,        \* the hash of each key
  NULL,          \* the null pointer, and no request
  FREE           \* the contents of an address where no node lives

ASSUME HashAssumption == HashFn \in [Key -> Nat]
ASSUME PointerAssumption == NULL \notin Node
ASSUME FreeAssumption == FREE \notin [hash : Nat, key : Key]

Hash == {HashFn[k] : k \in Key}

(* The map passes a key with its own hash, but for CheckedInsert: the node *)
(* that FindByHash comes back with may belong to another key.              *)
Request ==
  [op : {"Insert", "TryUpdate", "PinnedFind", "CheckedInsert"}, hash : Hash, key : Key]
OwnHash(r) == r.op # "CheckedInsert" => r.hash = HashFn[r.key]

ASSUME RequestAssumption == NULL \notin Request

VARIABLES
  slot,      \* the address part of table_[i].atom_ptr_
  data,      \* the memory of the nodes
  retired,   \* handed to HazPtrRetire and not yet reclaimed
  hazard,    \* the node each thread's HazPtrHolder pins
  pc,        \* idle, exchange, load, pin, validate, act, found, done
  req,       \* the call each thread is executing
  node,      \* the pointer it loaded, its address ...
  tag        \* ... and its upper bits

locals == <<pc, req, node, tag>>
vars == <<slot, data, retired, hazard, locals>>

Init ==
  /\ slot = [i \in Index |-> NULL]
  /\ data = [a \in Node |-> FREE]
  /\ retired = {}
  /\ hazard = [t \in Thread |-> NULL]
  /\ pc = [t \in Thread |-> "idle"]
  /\ req = [t \in Thread |-> NULL]
  /\ node = [t \in Thread |-> NULL]
  /\ tag = [t \in Thread |-> 0]

At(t) == GetIdx(req[t].hash)

(* GetSecondLevelHashFromPtr of the pointer in slot i.                     *)
TagBits(i) == IF slot[i] = NULL THEN 0 ELSE GetSecondLevelHash(data[slot[i]].hash)

Goto(t, l) == pc' = [pc EXCEPT ![t] = l]

(* Leaving the function: the HazPtrHolder is destroyed.                    *)
Leave(t, l) ==
  /\ Goto(t, l)
  /\ hazard' = [hazard EXCEPT ![t] = NULL]
  /\ UNCHANGED <<req, node, tag>>

(* A new node takes the place of the one in the slot, which is retired.    *)
Install(t) ==
  /\ \E a \in Node :
       /\ data[a] = FREE
       /\ data' = [data EXCEPT ![a] = [hash |-> req[t].hash, key |-> req[t].key]]
       /\ slot' = [slot EXCEPT ![At(t)] = a]
  /\ retired' = retired \cup ({slot[At(t)]} \ {NULL})

Call(t) ==
  /\ pc[t] = "idle"
  /\ \E r \in Request :
       /\ OwnHash(r)
       /\ req' = [req EXCEPT ![t] = r]
       /\ Goto(t, IF r.op = "Insert" THEN "exchange" ELSE "load")
  /\ UNCHANGED <<slot, data, retired, hazard, node, tag>>

Return(t) ==
  /\ pc[t] = "done"
  /\ Goto(t, "idle")
  /\ req' = [req EXCEPT ![t] = NULL]
  /\ node' = [node EXCEPT ![t] = NULL]
  /\ tag' = [tag EXCEPT ![t] = 0]
  /\ UNCHANGED <<slot, data, retired, hazard>>

-----------------------------------------------------------------------------

(* Mutant: the node exchanged is deleted at once.                          *)
ExchangeDeleting(t) ==
  /\ pc[t] = "exchange"
  /\ \E a \in Node :
       /\ data[a] = FREE
       /\ data' = [n \in Node |-> IF n = a THEN [hash |-> req[t].hash, key |-> req[t].key]
                                  ELSE IF n = slot[At(t)] THEN FREE ELSE data[n]]
       /\ slot' = [slot EXCEPT ![At(t)] = a]
  /\ Leave(t, "done")
  /\ UNCHANGED retired

(* Insert: an exchange, whatever was in the slot.                          *)
Exchange(t) ==
  /\ pc[t] = "exchange"
  /\ Install(t)
  /\ Leave(t, "done")

-----------------------------------------------------------------------------
(* Repin with CompareSecondLevelHash.  The tag is part of the pointer: a   *)
(* stranger's is returned without being pinned and never dereferenced.     *)

RepinLoad(t) ==
  /\ pc[t] = "load"
  /\ node' = [node EXCEPT ![t] = slot[At(t)]]
  /\ tag' = [tag EXCEPT ![t] = TagBits(At(t))]
  /\ Goto(t, IF slot[At(t)] # NULL /\ TagBits(At(t)) = GetSecondLevelHash(req[t].hash)
             THEN "pin" ELSE "act")
  /\ UNCHANGED <<slot, data, retired, hazard, req>>

RepinPublish(t) ==
  /\ pc[t] = "pin"
  /\ hazard' = [hazard EXCEPT ![t] = node[t]]
  /\ Goto(t, "validate")
  /\ UNCHANGED <<slot, data, retired, req, node, tag>>

(* Does the slot still hold the very pointer loaded, tag included?         *)
SamePointer(t) == slot[At(t)] = node[t] /\ TagBits(At(t)) = tag[t]

RepinValidate(t) ==
  /\ pc[t] = "validate"
  /\ Goto(t, IF SamePointer(t) THEN "act" ELSE "load")
  /\ UNCHANGED <<slot, data, retired, hazard, req, node, tag>>

-----------------------------------------------------------------------------
(* The bodies of CheckedInsert, TryUpdate and PinnedFind.                  *)

Op(t, op) == pc[t] = "act" /\ req[t].op = op

TagMatches(t) == tag[t] = GetSecondLevelHash(req[t].hash)
SameKey(t) == data[node[t]].key = req[t].key
SameHash(t) == data[node[t]].hash = req[t].hash

MayUpdate(t) ==
  Op(t, "TryUpdate") /\ TagMatches(t) /\ node[t] # NULL /\ SameHash(t) /\ SameKey(t)

(* An empty slot looks like one whose second level hash is 0.              *)
MayCheckedInsert(t) ==
  /\ Op(t, "CheckedInsert")
  /\ TagMatches(t)
  /\ node[t] # NULL => SameHash(t) /\ SameKey(t)

(* Mutant: the compare_exchange is not one.                                *)
ReplaceUnchecked(t) ==
  /\ MayUpdate(t) \/ MayCheckedInsert(t)
  /\ Install(t)
  /\ Leave(t, "done")

Replace(t) ==
  /\ MayUpdate(t) \/ MayCheckedInsert(t)
  /\ SamePointer(t)
  /\ Install(t)
  /\ Leave(t, "done")

(* Mutant: after a lost compare_exchange the old node is deleted in place   *)
(* of the new one.                                                         *)
RefuseDeletingOld(t) ==
  /\ Op(t, "TryUpdate") \/ Op(t, "CheckedInsert")
  /\ MayUpdate(t) \/ MayCheckedInsert(t) => ~SamePointer(t)
  /\ data' = IF MayUpdate(t) THEN [data EXCEPT ![node[t]] = FREE] ELSE data
  /\ Leave(t, "done")
  /\ UNCHANGED <<slot, retired>>

(* return false: a stranger in the slot, or a lost compare_exchange.       *)
Refuse(t) ==
  /\ Op(t, "TryUpdate") \/ Op(t, "CheckedInsert")
  /\ MayUpdate(t) \/ MayCheckedInsert(t) => ~SamePointer(t)
  /\ Leave(t, "done")
  /\ UNCHANGED <<slot, data, retired>>

(* PinnedFind compares the key alone, not the hash of the node.            *)
Hit(t) == TagMatches(t) /\ node[t] # NULL /\ SameKey(t)

FindMiss(t) ==
  /\ Op(t, "PinnedFind")
  /\ ~Hit(t)
  /\ Leave(t, "done")
  /\ UNCHANGED <<slot, data, retired>>

(* The node is returned, but the holder that pins it ends here.            *)
FindHit(t) ==
  /\ Op(t, "PinnedFind")
  /\ Hit(t)
  /\ Leave(t, "found")
  /\ UNCHANGED <<slot, data, retired>>

(* v = node->Value() in Find and AsyncFind.                                *)
ReadValue(t) ==
  /\ pc[t] = "found"
  /\ Goto(t, "done")
  /\ UNCHANGED <<slot, data, retired, hazard, req, node, tag>>

(* The library reclaims a retired node no holder pins.                     *)
Reclaim(a) ==
  /\ a \in retired
  /\ \A t \in Thread : hazard[t] # a
  /\ retired' = retired \ {a}
  /\ data' = [data EXCEPT ![a] = FREE]
  /\ UNCHANGED <<slot, hazard, locals>>

Step(t) ==
  \/ Exchange(t) \/ RepinLoad(t) \/ RepinPublish(t) \/ RepinValidate(t)
  \/ Replace(t) \/ Refuse(t) \/ FindMiss(t) \/ FindHit(t) \/ ReadValue(t)

Next ==
  \/ \E t \in Thread : Call(t) \/ Step(t) \/ Return(t)
  \/ \E a \in Node : Reclaim(a)

Spec == Init /\ [][Next]_vars

-----------------------------------------------------------------------------
(* Properties.                                                             *)

(* Every variable holds what its declaration in the code allows, and a tag *)
(* fits the upper bits of a pointer.                                       *)
TypeOK ==
  /\ slot \in [Index -> Node \cup {NULL}]
  /\ data \in [Node -> [hash : Hash, key : Key] \cup {FREE}]
  /\ retired \in SUBSET Node
  /\ hazard \in [Thread -> Node \cup {NULL}]
  /\ pc \in [Thread -> {"idle", "exchange", "load", "pin", "validate", "act", "found", "done"}]
  /\ req \in [Thread -> Request \cup {NULL}]
  /\ node \in [Thread -> Node \cup {NULL}]
  /\ tag \in [Thread -> 0..(kTagRange - 1)]

(* A node whose hash and key CheckedInsert, TryUpdate or PinnedFind is     *)
(* about to compare has not been taken back by the memory manager, and its *)
(* address has not been given to another node with the same tag.           *)
PinnedAlive ==
  \A t \in Thread :
    pc[t] = "act" /\ TagMatches(t) /\ node[t] # NULL =>
      /\ data[node[t]] # FREE
      /\ hazard[t] = node[t]

(* A node handed to HazPtrRetire is out of the table, and stays alive until *)
(* the library takes it: whoever loses a compare_exchange deletes its own  *)
(* new node and nothing else.                                              *)
RetiredUnreachable ==
  \A a \in retired : data[a] # FREE /\ \A i \in Index : slot[i] # a

(* Only the unconditional Insert puts one key in the place of another:     *)
(* between the comparison of keys and the compare_exchange the slot may be *)
(* given to others and back, and must still hold the key compared.         *)
OnlyInsertEvicts ==
  [][\A i \in Index :
       slot[i] # NULL /\ data[slot[i]].key # data'[slot'[i]].key
         => \E t \in Thread : pc[t] = "exchange" /\ pc'[t] = "done"]_vars

(* What the name PinnedFind says: the node returned is safe to read.       *)
FoundAlive == \A t \in Thread : pc[t] = "found" => data[node[t]] # FREE

-----------------------------------------------------------------------------
(* The inductive invariant behind the safety properties.                   *)

(* A node in the table is alive, not retired, and in the slot of its hash, *)
(* hence in no other.                                                      *)
TableNodes ==
  \A i \in Index : slot[i] # NULL =>
    /\ data[slot[i]] # FREE
    /\ slot[i] \notin retired
    /\ GetIdx(data[slot[i]].hash) = i

RetiredAlive == \A a \in retired : data[a] # FREE

(* What Repin has established for the thread: the node it came back with   *)
(* is pinned and was alive when it was, so it still is.                    *)
Position(t) ==
  /\ pc[t] # "idle" => req[t] \in Request
  /\ pc[t] \in {"pin", "validate"} => node[t] \in Node
  /\ pc[t] = "validate" => hazard[t] = node[t]
  /\ pc[t] = "act" /\ TagMatches(t) /\ node[t] # NULL =>
       /\ hazard[t] = node[t]
       /\ data[node[t]] # FREE

IInv ==
  /\ TypeOK
  /\ TableNodes
  /\ RetiredAlive
  /\ \A t \in Thread : Position(t)

=============================================================================
