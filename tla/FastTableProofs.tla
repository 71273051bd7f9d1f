--------------------------- MODULE FastTableProofs ---------------------------
(***************************************************************************)
(* Proofs about FastTable, for any number of threads, keys, nodes and      *)
(* slots, any hash function and any width of the tag.                      *)
(***************************************************************************)
EXTENDS FastTable, TLAPS

USE SizeAssumption, HashAssumption, PointerAssumption, FreeAssumption,
    RequestAssumption

-----------------------------------------------------------------------------
(* Hashes, slots and requests.                                             *)

LEMMA ModRange ==
  ASSUME NEW x \in Nat, NEW m \in Nat \ {0}
  PROVE  x % m \in 0..(m - 1)
OBVIOUS

LEMMA HashNat == Hash \subseteq Nat
BY DEF Hash

LEMMA IdxInTable == \A h \in Hash : GetIdx(h) \in Index
BY HashNat, ModRange DEF GetIdx, Index

LEMMA TagInRange == \A h \in Hash : GetSecondLevelHash(h) \in 0..(kTagRange - 1)
<1> SUFFICES ASSUME NEW h \in Hash
             PROVE  GetSecondLevelHash(h) \in 0..(kTagRange - 1)
  OBVIOUS
<1>1. h \div kTagShift \in Nat
  BY HashNat
<1>2. QED
  BY <1>1, ModRange DEF GetSecondLevelHash

(* A node's contents, and not those of a free address.                     *)
LEMMA NodeContents ==
  ASSUME NEW h \in Hash, NEW k \in Key
  PROVE  /\ [hash |-> h, key |-> k] \in [hash : Hash, key : Key]
         /\ [hash |-> h, key |-> k] # FREE
BY HashNat

(* What the invariant says of a thread that is inside a call.              *)
LEMMA InCall ==
  ASSUME IInv, NEW t \in Thread, pc[t] # "idle"
  PROVE  /\ req[t] \in Request
         /\ req[t].hash \in Hash
         /\ req[t].key \in Key
         /\ At(t) \in Index
BY IdxInTable DEF IInv, Position, Request, At

LEMMA TagOfSlot ==
  ASSUME IInv, NEW i \in Index
  PROVE  TagBits(i) \in 0..(kTagRange - 1)
<1>1. slot[i] # NULL => data[slot[i]].hash \in Hash
  BY DEF IInv, TypeOK, TableNodes
<1>2. QED
  BY <1>1, TagInRange DEF TagBits

-----------------------------------------------------------------------------
(* The invariant.                                                          *)

LEMMA InitInv == Init => IInv
<1> SUFFICES ASSUME Init PROVE IInv
  OBVIOUS
<1>1. TypeOK
  BY DEF Init, TypeOK
<1>2. TableNodes /\ RetiredAlive /\ \A t \in Thread : Position(t)
  BY DEF Init, TableNodes, RetiredAlive, Position
<1>3. QED
  BY <1>1, <1>2 DEF IInv

(* A step on thread t's local variables leaves the table and the other     *)
(* threads' part of the invariant alone.                                   *)
LEMMA LocalStep ==
  ASSUME IInv, NEW t \in Thread,
         UNCHANGED <<slot, data, retired>>,
         \A u \in Thread \ {t} :
           /\ pc'[u] = pc[u] /\ req'[u] = req[u] /\ tag'[u] = tag[u]
           /\ node'[u] = node[u] /\ hazard'[u] = hazard[u],
         TypeOK', Position(t)'
  PROVE  IInv'
<1>1. TableNodes' /\ RetiredAlive'
  BY DEF IInv, TableNodes, RetiredAlive
<1>2. ASSUME NEW u \in Thread
      PROVE  Position(u)'
  BY <1>2 DEF IInv, Position, TagMatches
<1>3. QED
  BY <1>1, <1>2 DEF IInv

LEMMA CallInv ==
  ASSUME IInv, NEW t \in Thread, Call(t)
  PROVE  IInv'
<1>1. PICK r \in Request :
        /\ req' = [req EXCEPT ![t] = r]
        /\ pc' = [pc EXCEPT ![t] = IF r.op = "Insert" THEN "exchange" ELSE "load"]
  BY DEF Call, Goto
<1>2. UNCHANGED <<slot, data, retired, hazard, node, tag>>
  BY DEF Call
<1>3. TypeOK'
  BY <1>1, <1>2 DEF IInv, TypeOK
<1>4. Position(t)'
  BY <1>1, <1>2 DEF IInv, TypeOK, Position
<1>5. QED
  BY <1>1, <1>2, <1>3, <1>4, LocalStep DEF IInv, TypeOK

LEMMA ReturnInv ==
  ASSUME IInv, NEW t \in Thread, Return(t)
  PROVE  IInv'
<1> USE DEF Return, Goto
<1>1. TypeOK'
  BY DEF IInv, TypeOK
<1>2. Position(t)'
  BY DEF IInv, TypeOK, Position
<1>3. QED
  BY <1>1, <1>2, LocalStep DEF IInv, TypeOK

LEMMA RepinLoadInv ==
  ASSUME IInv, NEW t \in Thread, RepinLoad(t)
  PROVE  IInv'
<1> USE DEF RepinLoad, Goto
<1>1. At(t) \in Index /\ req[t] \in Request
  BY InCall
<1>2. TagBits(At(t)) \in 0..(kTagRange - 1)
  BY <1>1, TagOfSlot
<1>3. slot[At(t)] \in Node \cup {NULL}
  BY <1>1 DEF IInv, TypeOK
<1>4. TypeOK'
  BY <1>2, <1>3 DEF IInv, TypeOK
<1>5. Position(t)'
  BY <1>1, <1>3 DEF IInv, TypeOK, Position, TagMatches
<1>6. QED
  BY <1>4, <1>5, LocalStep DEF IInv, TypeOK

LEMMA RepinPublishInv ==
  ASSUME IInv, NEW t \in Thread, RepinPublish(t)
  PROVE  IInv'
<1> USE DEF RepinPublish, Goto
<1>1. TypeOK'
  BY DEF IInv, TypeOK
<1>2. Position(t)'
  BY DEF IInv, TypeOK, Position
<1>3. QED
  BY <1>1, <1>2, LocalStep DEF IInv, TypeOK

(* The node published is still in the table, so it is alive from now on.   *)
LEMMA RepinValidateInv ==
  ASSUME IInv, NEW t \in Thread, RepinValidate(t)
  PROVE  IInv'
<1> USE DEF RepinValidate, Goto
<1>1. At(t) \in Index /\ req[t] \in Request
  BY InCall
<1>2. SamePointer(t) => data[node[t]] # FREE
  BY <1>1 DEF IInv, SamePointer, TableNodes, Position
<1>3. TypeOK'
  BY DEF IInv, TypeOK
<1>4. Position(t)'
  BY <1>1, <1>2 DEF IInv, TypeOK, Position, TagMatches
<1>5. QED
  BY <1>3, <1>4, LocalStep DEF IInv, TypeOK

(* A new node in the table: Insert, TryUpdate and CheckedInsert.           *)
LEMMA InstallInv ==
  ASSUME IInv, NEW t \in Thread, pc[t] # "idle", Install(t), Leave(t, "done")
  PROVE  IInv'
<1> USE DEF Leave, Goto
<1>1. PICK a \in Node :
        /\ data[a] = FREE
        /\ data' = [data EXCEPT ![a] = [hash |-> req[t].hash, key |-> req[t].key]]
        /\ slot' = [slot EXCEPT ![At(t)] = a]
  BY DEF Install
<1>2. retired' = retired \cup ({slot[At(t)]} \ {NULL})
  BY DEF Install
<1>3. At(t) \in Index /\ req[t] \in Request /\ req[t].hash \in Hash /\ req[t].key \in Key
  BY InCall
<1>4. /\ data'[a] # FREE /\ data'[a] = [hash |-> req[t].hash, key |-> req[t].key]
      /\ data'[a] \in [hash : Hash, key : Key]
      /\ \A b \in Node \ {a} : data'[b] = data[b]
  BY <1>1, <1>3, NodeContents DEF IInv, TypeOK
<1>5. a \notin retired /\ \A i \in Index : slot[i] # a
  BY <1>1 DEF IInv, RetiredAlive, TableNodes
<1>6. \A i \in Index : i # At(t) => slot'[i] = slot[i]
  BY <1>1 DEF IInv, TypeOK
<1>7. TypeOK'
  BY <1>1, <1>2, <1>3, <1>4 DEF IInv, TypeOK
<1>8. TableNodes'
  <2> SUFFICES ASSUME NEW i \in Index, slot'[i] # NULL
               PROVE  /\ data'[slot'[i]] # FREE
                      /\ slot'[i] \notin retired'
                      /\ GetIdx(data'[slot'[i]].hash) = i
    BY DEF TableNodes
  <2>1. CASE i = At(t)
    <3>1. slot'[i] = a
      BY <1>1, <2>1 DEF IInv, TypeOK
    <3>2. a \notin retired'
      BY <1>2, <1>3, <1>5
    <3>3. QED
      BY <1>4, <2>1, <3>1, <3>2 DEF At
  <2>2. CASE i # At(t)
    <3>1. slot'[i] = slot[i] /\ slot[i] \in Node /\ slot[i] # a
      BY <1>5, <1>6, <2>2 DEF IInv, TypeOK
    <3>2. /\ data[slot[i]] # FREE /\ slot[i] \notin retired
          /\ GetIdx(data[slot[i]].hash) = i
      BY <3>1 DEF IInv, TableNodes
    <3>3. slot[i] # slot[At(t)]
      BY <1>3, <2>2, <3>1, <3>2 DEF IInv, TableNodes
    <3>4. QED
      BY <1>2, <1>4, <3>1, <3>2, <3>3
  <2>3. QED
    BY <2>1, <2>2
<1>9. RetiredAlive'
  BY <1>2, <1>3, <1>4, <1>5 DEF IInv, TypeOK, RetiredAlive, TableNodes
<1>10. ASSUME NEW u \in Thread
       PROVE  Position(u)'
  <2>1. CASE u = t
    BY <1>3, <2>1 DEF IInv, TypeOK, Position
  <2>2. CASE u # t
    <3>1. /\ pc'[u] = pc[u] /\ req'[u] = req[u] /\ tag'[u] = tag[u]
          /\ node'[u] = node[u] /\ hazard'[u] = hazard[u]
      BY <2>2 DEF IInv, TypeOK
    <3>2. \A b \in Node : data[b] # FREE => data'[b] # FREE
      BY <1>1, <1>4
    <3>3. Position(u) /\ node[u] \in Node \cup {NULL}
      BY DEF IInv, TypeOK
    <3>4. QED
      BY <3>1, <3>2, <3>3 DEF Position, TagMatches
  <2>3. QED
    BY <2>1, <2>2
<1>11. QED
  BY <1>7, <1>8, <1>9, <1>10 DEF IInv

(* The ends of a call that writes nothing.                                 *)
LEMMA LeaveInv ==
  ASSUME IInv, NEW t \in Thread, pc[t] # "idle", NEW l \in {"done", "found"},
         Leave(t, l), UNCHANGED <<slot, data, retired>>
  PROVE  IInv'
<1> USE DEF Leave, Goto
<1>1. req[t] \in Request
  BY InCall
<1>2. TypeOK'
  BY DEF IInv, TypeOK
<1>3. Position(t)'
  BY <1>1 DEF IInv, TypeOK, Position
<1>4. QED
  BY <1>2, <1>3, LocalStep DEF IInv, TypeOK

LEMMA ReadValueInv ==
  ASSUME IInv, NEW t \in Thread, ReadValue(t)
  PROVE  IInv'
<1> USE DEF ReadValue, Goto
<1>1. req[t] \in Request
  BY InCall
<1>2. TypeOK'
  BY DEF IInv, TypeOK
<1>3. Position(t)'
  BY <1>1 DEF IInv, TypeOK, Position
<1>4. QED
  BY <1>2, <1>3, LocalStep DEF IInv, TypeOK

(* What is reclaimed is in no slot, and no thread relies on it.            *)
LEMMA ReclaimInv ==
  ASSUME IInv, NEW a \in Node, Reclaim(a)
  PROVE  IInv'
<1> USE DEF Reclaim, locals
<1>1. \A b \in Node \ {a} : data'[b] = data[b]
  BY DEF IInv, TypeOK
<1>2. TypeOK'
  BY DEF IInv, TypeOK
<1>3. TableNodes'
  <2>1. \A i \in Index : slot[i] # a
    BY DEF IInv, TableNodes
  <2>2. QED
    BY <1>1, <2>1 DEF IInv, TypeOK, TableNodes
<1>4. RetiredAlive'
  BY <1>1 DEF IInv, TypeOK, RetiredAlive
<1>5. ASSUME NEW u \in Thread
      PROVE  Position(u)'
  BY <1>1 DEF IInv, TypeOK, Position, TagMatches
<1>6. QED
  BY <1>2, <1>3, <1>4, <1>5 DEF IInv

LEMMA NextInv == IInv /\ [Next]_vars => IInv'
<1> SUFFICES ASSUME IInv, [Next]_vars PROVE IInv'
  OBVIOUS
<1>1. CASE UNCHANGED vars
  BY <1>1 DEF vars, locals, IInv, TypeOK, TableNodes, RetiredAlive, Position, TagMatches
<1>2. ASSUME NEW t \in Thread, Step(t)
      PROVE  IInv'
  <2>1. CASE Exchange(t)
    BY <2>1, InstallInv DEF Exchange
  <2>2. CASE Replace(t)
    BY <2>2, InstallInv DEF Replace, MayUpdate, MayCheckedInsert, Op
  <2>3. CASE Refuse(t) \/ FindMiss(t) \/ FindHit(t)
    BY <2>3, LeaveInv DEF Refuse, FindMiss, FindHit, Op
  <2>4. QED
    BY <1>2, <2>1, <2>2, <2>3, RepinLoadInv, RepinPublishInv, RepinValidateInv,
       ReadValueInv DEF Step
<1>3. QED
  BY <1>1, <1>2, CallInv, ReturnInv, ReclaimInv DEF Next

(* IInv holds in every state: what is in the table is alive and in the     *)
(* slot of its hash, and what Repin has pinned stays alive.                *)
THEOREM TableInvariance == Spec => []IInv
<1>1. QED
  BY InitInv, NextInv, PTL DEF Spec

-----------------------------------------------------------------------------
(* What follows from it.                                                   *)

(* Every variable of the cache keeps its type, and tags fit the upper bits *)
(* of a pointer.                                                           *)
THEOREM TableTypeCorrect == Spec => []TypeOK
<1>1. IInv => TypeOK
  BY DEF IInv
<1>2. QED
  BY <1>1, TableInvariance, PTL

(* CheckedInsert, TryUpdate and PinnedFind compare the hash and key of     *)
(* nodes that are pinned and have not been reclaimed.                      *)
THEOREM ComparedNodesAlive == Spec => []PinnedAlive
<1>1. IInv => PinnedAlive
  BY DEF IInv, Position, PinnedAlive
<1>2. QED
  BY <1>1, TableInvariance, PTL

(* A node handed to HazPtrRetire is out of the table and alive until the   *)
(* library reclaims it.                                                    *)
THEOREM RetiredOutOfTable == Spec => []RetiredUnreachable
<1>1. IInv => RetiredUnreachable
  <2> SUFFICES ASSUME IInv PROVE RetiredUnreachable
    OBVIOUS
  <2>1. \A a \in retired : a # NULL
    BY DEF IInv, TypeOK
  <2>2. QED
    BY <2>1 DEF IInv, TableNodes, RetiredAlive, RetiredUnreachable
<1>2. QED
  BY <1>1, TableInvariance, PTL

(* TryUpdate and CheckedInsert replace a node by one of the same key only: *)
(* only the unconditional Insert evicts a key from its slot.               *)
THEOREM UpdatesKeepKeys == Spec => OnlyInsertEvicts
<1> DEFINE Evicts ==
      \A i \in Index :
        slot[i] # NULL /\ data[slot[i]].key # data'[slot'[i]].key
          => \E t \in Thread : pc[t] = "exchange" /\ pc'[t] = "done"
<1>1. IInv /\ [Next]_vars => [Evicts]_vars
  <2> SUFFICES ASSUME IInv, Next, NEW i \in Index, slot[i] # NULL,
                      data[slot[i]].key # data'[slot'[i]].key
               PROVE  \E t \in Thread : pc[t] = "exchange" /\ pc'[t] = "done"
    OBVIOUS
  <2>1. slot[i] \in Node /\ data[slot[i]] # FREE /\ slot[i] \notin retired
    BY DEF IInv, TypeOK, TableNodes
  <2>2. ASSUME NEW a \in Node, Reclaim(a)
        PROVE  FALSE
    BY <2>1, <2>2 DEF Reclaim, IInv, TypeOK
  <2>3. ASSUME NEW t \in Thread, Exchange(t)
        PROVE  pc[t] = "exchange" /\ pc'[t] = "done"
    BY <2>3 DEF Exchange, Leave, Goto, IInv, TypeOK
  <2>4. ASSUME NEW t \in Thread, Replace(t)
        PROVE  FALSE
    <3>1. PICK a \in Node :
            /\ data[a] = FREE
            /\ data' = [data EXCEPT ![a] = [hash |-> req[t].hash, key |-> req[t].key]]
            /\ slot' = [slot EXCEPT ![At(t)] = a]
      BY <2>4 DEF Replace, Install
    <3>2. pc[t] = "act" /\ SamePointer(t)
      BY <2>4 DEF Replace, MayUpdate, MayCheckedInsert, Op
    <3>3. At(t) \in Index
      BY <3>2, InCall
    <3>4. CASE i # At(t)
      BY <2>1, <3>1, <3>4 DEF IInv, TypeOK
    <3>5. CASE i = At(t)
      <4>1. slot[i] = node[t]
        BY <3>2, <3>5 DEF SamePointer
      <4>2. data[node[t]].key = req[t].key
        BY <2>4, <4>1 DEF Replace, MayUpdate, MayCheckedInsert, SameKey
      <4>3. data'[slot'[i]].key = req[t].key
        BY <3>1, <3>3, <3>5 DEF IInv, TypeOK
      <4>4. QED
        BY <4>1, <4>2, <4>3
    <3>6. QED
      BY <3>4, <3>5
  <2>5. ASSUME NEW t \in Thread,
               \/ Call(t) \/ Return(t) \/ RepinLoad(t) \/ RepinPublish(t)
               \/ RepinValidate(t) \/ Refuse(t) \/ FindMiss(t) \/ FindHit(t)
               \/ ReadValue(t)
        PROVE  FALSE
    BY <2>5 DEF Call, Return, RepinLoad, RepinPublish, RepinValidate, Refuse,
                FindMiss, FindHit, ReadValue
  <2>6. QED
    BY <2>2, <2>3, <2>4, <2>5 DEF Next, Step
<1>2. QED
  BY <1>1, TableInvariance, PTL DEF Spec, OnlyInsertEvicts

=============================================================================
