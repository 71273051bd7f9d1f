---------------------------- MODULE TrieMapProofs ----------------------------
(***************************************************************************)
(* Proofs about TrieMap, for any number of threads, keys, nodes and levels *)
(* and for any hash function: its invariants, and then that it implements  *)
(* ConcurrentMap.                                                          *)
(***************************************************************************)
EXTENDS TrieMap, TLAPS

USE DepthAssumption, HashAssumption, PointerAssumption, FreeAssumption,
    AnswerAssumption, RequestAssumption

-----------------------------------------------------------------------------
(* The slots a key passes through.                                         *)

LEMMA SlotIn == \A k \in Key, l \in Level : SlotOf[k][l] \in Slot
BY DEF SlotOf, Slot

(* The path to level l of hash h, as a sequence of l + 1 indices.          *)
LEMMA PathSeq ==
  ASSUME NEW h, NEW l \in Nat
  PROVE  \E S : /\ PathOf(h, l) \in Seq(S)
                /\ Len(PathOf(h, l)) = l + 1
                /\ GetNthIdx(h, l + 1) \in S
<1> DEFINE S == {PathOf(h, l)[i] : i \in 1..(l + 1)} \cup {GetNthIdx(h, l + 1)}
<1>1. PathOf(h, l) \in [1..(l + 1) -> S]
  BY DEF PathOf
<1>2. PathOf(h, l) \in Seq(S) /\ Len(PathOf(h, l)) = l + 1
  BY <1>1
<1> HIDE DEF S
<1>3. GetNthIdx(h, l + 1) \in S
  BY DEF S
<1>4. QED
  BY <1>2, <1>3

LEMMA SlotLen == \A k \in Key, l \in Level : Len(SlotOf[k][l]) = l + 1
BY PathSeq DEF SlotOf, Level

(* Two keys that share a slot share its level and every slot above it.     *)
LEMMA SlotPrefix ==
  ASSUME NEW j \in Key, NEW k \in Key, NEW l \in Level, NEW m \in Level,
         SlotOf[j][l] = SlotOf[k][m]
  PROVE  l = m /\ \A i \in Level : i <= l => SlotOf[j][i] = SlotOf[k][i]
<1>1. PathOf(HashFn[j], l) = PathOf(HashFn[k], m)
  BY DEF SlotOf
<1>2. l = m
  BY <1>1, SlotLen DEF SlotOf, Level
<1>3. \A i \in 1..(l + 1) :
        (IF i = 1 THEN GetRootIdx(HashFn[j]) ELSE GetNthIdx(HashFn[j], i - 1)) =
        (IF i = 1 THEN GetRootIdx(HashFn[k]) ELSE GetNthIdx(HashFn[k], i - 1))
  <2> TAKE i \in 1..(l + 1)
  <2>1. PathOf(HashFn[j], l)[i] = PathOf(HashFn[k], l)[i]
    BY <1>1, <1>2
  <2>2. QED
    BY <2>1 DEF PathOf
<1>4. ASSUME NEW i \in Level, i <= l
      PROVE  SlotOf[j][i] = SlotOf[k][i]
  <2>1. \A n \in 1..(i + 1) : n \in 1..(l + 1)
    BY <1>4 DEF Level
  <2>2. PathOf(HashFn[j], i) = PathOf(HashFn[k], i)
    BY <1>3, <2>1 DEF PathOf
  <2>3. QED
    BY <2>2 DEF SlotOf
<1>5. QED
  BY <1>2, <1>4

(* A slot of the array below a shared slot is the next slot of the key     *)
(* whose index it has.                                                     *)
LEMMA SlotChild ==
  ASSUME NEW k \in Key, NEW l \in Level, l + 1 \in Level
  PROVE  Child(SlotOf[k][l], GetNthIdx(HashFn[k], l + 1)) = SlotOf[k][l + 1]
<1> DEFINE h == HashFn[k]
<1>1. PICK S : /\ PathOf(h, l) \in Seq(S)
               /\ Len(PathOf(h, l)) = l + 1
               /\ GetNthIdx(h, l + 1) \in S
  BY PathSeq DEF Level
<1>2. Append(PathOf(h, l), GetNthIdx(h, l + 1)) =
        [i \in 1..(l + 2) |->
           IF i = l + 2 THEN GetNthIdx(h, l + 1) ELSE PathOf(h, l)[i]]
  BY <1>1 DEF Level
<1>3. PathOf(h, l + 1) =
        [i \in 1..(l + 2) |->
           IF i = l + 2 THEN GetNthIdx(h, l + 1) ELSE PathOf(h, l)[i]]
  BY DEF PathOf, Level
<1>4. QED
  BY <1>2, <1>3 DEF SlotOf, Child

(* Below a slot they share, two keys part exactly when their indices do.   *)
LEMMA SlotPart ==
  ASSUME NEW j \in Key, NEW k \in Key, NEW l \in Level, l + 1 \in Level,
         SlotOf[j][l] = SlotOf[k][l]
  PROVE  SlotOf[j][l + 1] = SlotOf[k][l + 1]
           <=> GetNthIdx(HashFn[j], l + 1) = GetNthIdx(HashFn[k], l + 1)
<1>1. GetNthIdx(HashFn[j], l + 1) = GetNthIdx(HashFn[k], l + 1)
        => SlotOf[j][l + 1] = SlotOf[k][l + 1]
  BY SlotChild
<1>2. ASSUME SlotOf[j][l + 1] = SlotOf[k][l + 1]
      PROVE  GetNthIdx(HashFn[j], l + 1) = GetNthIdx(HashFn[k], l + 1)
  <2>1. PathOf(HashFn[j], l + 1)[l + 2] = PathOf(HashFn[k], l + 1)[l + 2]
    BY <1>2 DEF SlotOf
  <2>2. l + 2 \in 1..(l + 1 + 1) /\ l + 2 # 1 /\ (l + 2) - 1 = l + 1
    BY DEF Level
  <2>3. \A h : PathOf(h, l + 1)[l + 2] = GetNthIdx(h, l + 1)
    BY <2>2 DEF PathOf
  <2>4. QED
    BY <2>1, <2>3
<1>3. QED
  BY <1>1, <1>2

(* There is a level to start from, and to go back to.                      *)
LEMMA ZeroLevel == 0 \in Level
BY DEF Level

-----------------------------------------------------------------------------
(* Initially.                                                              *)

LEMMA InitInv == Init => IInv
<1> SUFFICES ASSUME Init PROVE IInv
  OBVIOUS
<1>1. TypeOK
  BY ZeroLevel DEF Init, TypeOK
<1>2. TreeShape /\ LinkedNodes /\ RetiredAlive
  BY SlotIn DEF Init, TreeShape, LinkedNodes, RetiredAlive
<1>3. \A t \in Thread : OwnedNode(t) /\ Position(t)
  BY DEF Init, OwnedNode, Position, Busy
<1>4. ExitNeedsFullCollision
  BY DEF Init, ExitNeedsFullCollision
<1>5. QED
  BY <1>1, <1>2, <1>3, <1>4 DEF IInv

-----------------------------------------------------------------------------
(* Steps that only move the calling thread.                                *)

(* The shared state and the other threads' part of the invariant are       *)
(* undisturbed by a step on thread t's local variables.                    *)
LEMMA LocalStep ==
  ASSUME IInv, NEW t \in Thread,
         UNCHANGED <<slot, data, retired>>, ptr'[t] \in {ptr[t], NULL},
         \A u \in Thread \ {t} :
           /\ pc'[u] = pc[u] /\ req'[u] = req[u] /\ depth'[u] = depth[u]
           /\ node'[u] = node[u] /\ hazard'[u] = hazard[u] /\ ptr'[u] = ptr[u],
         TypeOK', OwnedNode(t)', Position(t)', ExitNeedsFullCollision'
  PROVE  IInv'
<1>1. TreeShape' /\ LinkedNodes' /\ RetiredAlive'
  BY DEF IInv, TreeShape, LinkedNodes, RetiredAlive
<1>2. \A u \in Thread : OwnedNode(u)'
  BY DEF IInv, OwnedNode, Busy, Linked
<1>3. ASSUME NEW u \in Thread
      PROVE  Position(u)'
  BY <1>3 DEF IInv, Position, Busy, Linked, NodePtr
<1>4. QED
  BY <1>1, <1>2, <1>3 DEF IInv

(* What the type invariant says of a thread that is inside a call.         *)
LEMMA InCall ==
  ASSUME IInv, NEW t \in Thread, pc[t] # "idle"
  PROVE  /\ req[t] \in Request
         /\ req[t].key \in Key
         /\ depth[t] \in Level
         /\ NodePtr(t) = SlotOf[req[t].key][depth[t]]
         /\ NodePtr(t) \in Slot
         /\ req[t].op = "Insert" => req[t] \in InsertRequest
         /\ req[t].op \in {"Find", "Insert"}
BY SlotIn DEF IInv, TypeOK, Position, NodePtr, Request, FindRequest, InsertRequest

LEMMA CallFindInv ==
  ASSUME IInv, ~exited, NEW t \in Thread, CallFind(t)
  PROVE  IInv'
<1> USE DEF CallFind, Goto
<1>1. PICK r \in FindRequest : req' = [req EXCEPT ![t] = r]
  OBVIOUS
<1>2. r \in Request /\ r.op = "Find"
  BY DEF Request, FindRequest
<1>3. TypeOK'
  BY <1>1, <1>2 DEF IInv, TypeOK
<1>4. OwnedNode(t)'
  BY <1>1, <1>2 DEF IInv, TypeOK, OwnedNode, Busy
<1>5. Position(t)'
  BY <1>1, <1>2 DEF IInv, TypeOK, Position, Busy, Level
<1>6. ExitNeedsFullCollision'
  BY DEF ExitNeedsFullCollision
<1>7. QED
  BY <1>1, <1>3, <1>4, <1>5, <1>6, LocalStep DEF IInv, TypeOK

LEMMA ReturnInv ==
  ASSUME IInv, ~exited, NEW t \in Thread, Return(t)
  PROVE  IInv'
<1> USE DEF Return, Goto
<1>1. TypeOK'
  BY DEF IInv, TypeOK
<1>2. OwnedNode(t)'
  BY DEF IInv, TypeOK, OwnedNode, Busy
<1>3. Position(t)'
  BY DEF IInv, TypeOK, Position, Busy
<1>4. ExitNeedsFullCollision'
  BY DEF ExitNeedsFullCollision
<1>5. QED
  BY <1>1, <1>2, <1>3, <1>4, LocalStep DEF IInv, TypeOK

LEMMA RepinLoadInv ==
  ASSUME IInv, ~exited, NEW t \in Thread, RepinLoad(t)
  PROVE  IInv'
<1> USE DEF RepinLoad, Goto
<1>1. req[t] \in Request /\ req[t].key \in Key /\ NodePtr(t) \in Slot
  BY InCall
<1>2. TypeOK'
  BY <1>1 DEF IInv, TypeOK
<1>3. OwnedNode(t)'
  BY DEF IInv, TypeOK, OwnedNode, Busy, Linked
<1>4. Position(t)'
  <2>1. CASE slot[NodePtr(t)] \in Node
    <3>1. pc'[t] = "pin" /\ node'[t] = slot[NodePtr(t)]
      BY <2>1 DEF IInv, TypeOK
    <3>2. QED
      BY <2>1, <3>1 DEF IInv, Position, Busy
  <2>2. CASE slot[NodePtr(t)] \notin Node
    <3>1. pc'[t] = "act" /\ node'[t] = slot[NodePtr(t)] /\ NodePtr(t)' = NodePtr(t)
      BY <2>2 DEF IInv, TypeOK, NodePtr
    <3>2. QED
      BY <2>2, <3>1 DEF IInv, Position, Busy
  <2>3. QED
    BY <2>1, <2>2
<1>5. ExitNeedsFullCollision'
  BY DEF ExitNeedsFullCollision
<1>6. QED
  BY <1>2, <1>3, <1>4, <1>5, LocalStep DEF IInv, TypeOK

LEMMA RepinPublishInv ==
  ASSUME IInv, ~exited, NEW t \in Thread, RepinPublish(t)
  PROVE  IInv'
<1> USE DEF RepinPublish, Goto
<1>1. node[t] \in Node
  BY DEF IInv, Position
<1>2. TypeOK'
  BY <1>1 DEF IInv, TypeOK
<1>3. OwnedNode(t)'
  BY DEF IInv, TypeOK, OwnedNode, Busy, Linked
<1>4. Position(t)'
  BY <1>1 DEF IInv, TypeOK, Position, Busy
<1>5. ExitNeedsFullCollision'
  BY DEF ExitNeedsFullCollision
<1>6. QED
  BY <1>2, <1>3, <1>4, <1>5, LocalStep DEF IInv, TypeOK

(* A node that is still in the slot is alive, and on the caller's path.    *)
LEMMA RepinValidateInv ==
  ASSUME IInv, ~exited, NEW t \in Thread, RepinValidate(t)
  PROVE  IInv'
<1> USE DEF RepinValidate, Restart, Goto
<1>1. req[t].key \in Key /\ depth[t] \in Level /\ NodePtr(t) \in Slot
  BY InCall
<1>2. TypeOK'
  BY DEF IInv, TypeOK
<1>3. OwnedNode(t)'
  BY DEF IInv, TypeOK, OwnedNode, Busy, Linked
<1>4. ASSUME slot[NodePtr(t)] = node[t]
      PROVE  /\ data[node[t]] # FREE
             /\ Linked(node[t])
             /\ SlotOf[data[node[t]].key][depth[t]] = NodePtr(t)
  <2>1. node[t] \in Node
    BY DEF IInv, Position
  <2>2. data[node[t]] # FREE
    BY <1>1, <1>4, <2>1 DEF IInv, LinkedNodes
  <2>3. PICK l \in Level : NodePtr(t) = SlotOf[data[node[t]].key][l]
    BY <1>1, <1>4, <2>1 DEF IInv, LinkedNodes
  <2>4. data[node[t]].key \in Key
    BY <2>1, <2>2 DEF IInv, TypeOK
  <2>5. l = depth[t]
    BY <1>1, <2>3, <2>4, SlotPrefix DEF NodePtr
  <2>6. QED
    BY <1>1, <1>4, <2>2, <2>3, <2>5 DEF Linked
<1>5. Position(t)'
  BY <1>4 DEF IInv, TypeOK, Position, Busy, NodePtr, Linked
<1>6. ExitNeedsFullCollision'
  BY DEF ExitNeedsFullCollision
<1>7. QED
  BY <1>2, <1>3, <1>5, <1>6, LocalStep DEF IInv, TypeOK

LEMMA FindReturnInv ==
  ASSUME IInv, ~exited, NEW t \in Thread, FindReturn(t)
  PROVE  IInv'
<1> USE DEF FindReturn, Leave, Goto
<1>1. req[t].op = "Find" /\ pc[t] = "act"
  BY DEF Finding
<1>2. FindAnswer(t) \in Value \cup {ABSENT}
  <2>1. ASSUME SawData(t)
        PROVE  data[node[t]].val \in Value
    BY <1>1, <2>1 DEF IInv, TypeOK, Position, SawData
  <2>2. QED
    BY <2>1 DEF FindAnswer
<1>3. TypeOK'
  BY <1>2, ZeroLevel DEF IInv, TypeOK
<1>4. OwnedNode(t)'
  BY <1>1 DEF IInv, TypeOK, OwnedNode, Busy
<1>5. Position(t)'
  BY <1>1 DEF IInv, TypeOK, Position, Busy
<1>6. ExitNeedsFullCollision'
  BY DEF ExitNeedsFullCollision
<1>7. QED
  BY <1>3, <1>4, <1>5, <1>6, LocalStep DEF IInv, TypeOK

(* Where a linked array is, there is a level below.                        *)
LEMMA BelowArray ==
  ASSUME IInv, NEW t \in Thread, pc[t] = "act", node[t] = ARRAY
  PROVE  /\ depth[t] + 1 \in Level
         /\ \A m \in Level : m < depth[t] + 1 => slot[SlotOf[req[t].key][m]] = ARRAY
<1>1. req[t].key \in Key /\ depth[t] \in Level
      /\ NodePtr(t) = SlotOf[req[t].key][depth[t]]
  BY InCall
<1>2. slot[NodePtr(t)] = ARRAY
  BY DEF IInv, Position
<1>3. depth[t] + 1 \in Level
  BY <1>1, <1>2 DEF IInv, TreeShape
<1>4. \A m \in Level : m < depth[t] => slot[SlotOf[req[t].key][m]] = ARRAY
  BY DEF IInv, Position, Busy
<1>5. \A m \in Level : m < depth[t] + 1 => m < depth[t] \/ m = depth[t]
  BY <1>1 DEF Level
<1>6. QED
  BY <1>1, <1>2, <1>3, <1>4, <1>5

LEMMA FindDescendInv ==
  ASSUME IInv, ~exited, NEW t \in Thread, FindDescend(t)
  PROVE  IInv'
<1> USE DEF FindDescend, Restart, Goto
<1>1. req[t].op = "Find" /\ pc[t] = "act" /\ node[t] = ARRAY
  BY DEF Finding
<1>2. TypeOK'
  BY <1>1, BelowArray DEF IInv, TypeOK
<1>3. OwnedNode(t)'
  BY <1>1 DEF IInv, TypeOK, OwnedNode, Busy
<1>4. Position(t)'
  BY <1>1, BelowArray DEF IInv, TypeOK, Position, Busy
<1>5. ExitNeedsFullCollision'
  BY DEF ExitNeedsFullCollision
<1>6. QED
  BY <1>2, <1>3, <1>4, <1>5, LocalStep DEF IInv, TypeOK

LEMMA InsertDescendInv ==
  ASSUME IInv, ~exited, NEW t \in Thread, InsertDescend(t)
  PROVE  IInv'
<1> USE DEF InsertDescend, Restart, Goto
<1>1. req[t].op = "Insert" /\ pc[t] = "act" /\ node[t] = ARRAY
  BY DEF Inserting
<1>2. TypeOK'
  BY <1>1, BelowArray DEF IInv, TypeOK
<1>3. OwnedNode(t)'
  BY <1>1 DEF IInv, TypeOK, OwnedNode, Busy, Linked
<1>4. Position(t)'
  BY <1>1, BelowArray DEF IInv, TypeOK, Position, Busy
<1>5. ExitNeedsFullCollision'
  BY DEF ExitNeedsFullCollision
<1>6. QED
  BY <1>2, <1>3, <1>4, <1>5, LocalStep DEF IInv, TypeOK

LEMMA RetryInv ==
  ASSUME IInv, ~exited, NEW t \in Thread, Retry(t)
  PROVE  IInv'
<1> USE DEF Retry, Restart, Goto
<1>1. req[t].op = "Insert" /\ pc[t] = "act"
  BY DEF WantsEmpty, WantsReplace, WantsSplit, Inserting
<1>2. TypeOK'
  BY DEF IInv, TypeOK
<1>3. OwnedNode(t)'
  BY <1>1 DEF IInv, TypeOK, OwnedNode, Busy, Linked
<1>4. Position(t)'
  BY <1>1 DEF IInv, TypeOK, Position, Busy
<1>5. ExitNeedsFullCollision'
  BY DEF ExitNeedsFullCollision
<1>6. QED
  BY <1>2, <1>3, <1>4, <1>5, LocalStep DEF IInv, TypeOK

LEMMA SplitLostInv ==
  ASSUME IInv, ~exited, NEW t \in Thread, SplitLost(t)
  PROVE  IInv'
<1> USE DEF SplitLost, Leave, Release, Goto
<1>1. req[t].op = "Insert" /\ pc[t] = "act"
  BY DEF WantsSplit, Inserting
<1>2. TypeOK'
  BY ZeroLevel DEF IInv, TypeOK
<1>3. OwnedNode(t)'
  BY <1>1 DEF IInv, TypeOK, OwnedNode, Busy
<1>4. Position(t)'
  BY <1>1 DEF IInv, TypeOK, Position, Busy
<1>5. ExitNeedsFullCollision'
  BY DEF ExitNeedsFullCollision
<1>6. QED
  BY <1>2, <1>3, <1>4, <1>5, LocalStep DEF IInv, TypeOK

(* What a thread that reached a data node of another key knows of it.      *)
LEMMA OtherData ==
  ASSUME IInv, NEW t \in Thread, Inserting(t), SawData(t)
  PROVE  /\ node[t] \in Node
         /\ data[node[t]] # FREE
         /\ data[node[t]].key \in Key
         /\ SlotOf[data[node[t]].key][depth[t]] = NodePtr(t)
BY DEF IInv, TypeOK, Position, Inserting, SawData

LEMMA GiveUpInv ==
  ASSUME IInv, ~exited, NEW t \in Thread, GiveUp(t)
  PROVE  IInv'
<1> USE DEF GiveUp, locals
<1>1. req[t].op = "Insert" /\ pc[t] = "act"
  BY DEF Inserting
<1>2. TypeOK' /\ OwnedNode(t)' /\ Position(t)'
  BY <1>1 DEF IInv, TypeOK, OwnedNode, Position, Busy, Linked, NodePtr
<1>3. depth[t] = max_depth_ - 1
  BY <1>1, InCall DEF Level, AtLastLevel
<1>4. SlotOf[data[node[t]].key][max_depth_ - 1] = SlotOf[req[t].key][max_depth_ - 1]
  BY <1>1, <1>3, InCall, OtherData
<1>5. ExitNeedsFullCollision'
  BY <1>4 DEF ExitNeedsFullCollision, Inserting, SawData, SameKey
<1>6. QED
  BY <1>2, <1>5, LocalStep DEF IInv, TypeOK

-----------------------------------------------------------------------------
(* Steps that allocate or free a node nobody else can see.                 *)

LEMMA MemoryStep ==
  ASSUME IInv, NEW t \in Thread, NEW a \in Node, NEW x,
         UNCHANGED <<slot, retired>>,
         data' = [data EXCEPT ![a] = x],
         a \notin retired, ~Linked(a),
         ptr'[t] \in {a, NULL},
         \A u \in Thread \ {t} :
           /\ ptr[u] # a
           /\ pc'[u] = pc[u] /\ req'[u] = req[u] /\ depth'[u] = depth[u]
           /\ node'[u] = node[u] /\ hazard'[u] = hazard[u] /\ ptr'[u] = ptr[u],
         TypeOK', OwnedNode(t)', Position(t)', ExitNeedsFullCollision'
  PROVE  IInv'
<1>1. \A b \in Node \ {a} : data'[b] = data[b]
  BY DEF IInv, TypeOK
<1>2. TreeShape'
  BY DEF IInv, TreeShape
<1>3. LinkedNodes'
  <2>1. \A s \in Slot : slot[s] \in Node => data'[slot[s]] = data[slot[s]]
    BY <1>1 DEF Linked
  <2>2. QED
    BY <2>1 DEF IInv, LinkedNodes
<1>4. RetiredAlive'
  BY <1>1 DEF IInv, TypeOK, RetiredAlive
<1>5. ASSUME NEW u \in Thread, u # t
      PROVE  OwnedNode(u)' /\ Position(u)'
  <2>1. ptr[u] # NULL => data'[ptr[u]] = data[ptr[u]]
    BY <1>1, <1>5 DEF IInv, TypeOK
  <2>2. OwnedNode(u)'
    BY <1>5, <2>1 DEF IInv, OwnedNode, Busy, Linked
  <2>3. pc[u] = "act" /\ node[u] \in Node => data'[node[u]] = data[node[u]]
    BY <1>1 DEF IInv, Position
  <2>4. Position(u)'
    BY <1>5, <2>3 DEF IInv, Position, Busy, Linked, NodePtr
  <2>5. QED
    BY <2>2, <2>4
<1>6. QED
  BY <1>2, <1>3, <1>4, <1>5 DEF IInv

LEMMA OwnedAlive ==
  ASSUME IInv, NEW t \in Thread, ptr[t] # NULL
  PROVE  /\ ptr[t] \in Node
         /\ data[ptr[t]] # FREE
         /\ ptr[t] \notin retired
         /\ ~Linked(ptr[t])
<1>1. OwnedNode(t)
  BY DEF IInv
<1>2. pc[t] # "idle" /\ req[t].op = "Insert"
  BY <1>1 DEF OwnedNode, Busy
<1>3. req[t].key \in Key /\ req[t].val \in Value
  BY <1>2, InCall DEF InsertRequest
<1>4. data[ptr[t]] \in [key : Key, val : Value]
  BY <1>1, <1>3 DEF OwnedNode
<1>5. QED
  BY <1>1, <1>4 DEF OwnedNode, IInv, TypeOK

LEMMA CallInsertInv ==
  ASSUME IInv, ~exited, NEW t \in Thread, CallInsert(t)
  PROVE  IInv'
<1> USE DEF CallInsert, Goto
<1>1. PICK r \in InsertRequest, a \in Node :
        /\ data[a] = FREE
        /\ data' = [data EXCEPT ![a] = [key |-> r.key, val |-> r.val]]
        /\ ptr' = [ptr EXCEPT ![t] = a]
        /\ req' = [req EXCEPT ![t] = r]
  OBVIOUS
<1>2. r \in Request /\ r.op = "Insert" /\ [key |-> r.key, val |-> r.val] \in [key : Key, val : Value]
  BY DEF Request, InsertRequest
<1>3. a \notin retired /\ ~Linked(a)
  BY <1>1 DEF IInv, RetiredAlive, LinkedNodes, Linked
<1>4. \A u \in Thread : ptr[u] # a
  BY <1>1, OwnedAlive
<1>5. TypeOK'
  BY <1>1, <1>2 DEF IInv, TypeOK
<1>6. OwnedNode(t)'
  BY <1>1, <1>2, <1>3, <1>4 DEF IInv, TypeOK, OwnedNode, Busy, Linked
<1>7. Position(t)'
  BY <1>1, <1>2 DEF IInv, TypeOK, Position, Busy, Level
<1>8. ExitNeedsFullCollision'
  BY DEF ExitNeedsFullCollision
<1>9. \A u \in Thread \ {t} : req'[u] = req[u] /\ ptr'[u] = ptr[u] /\ pc'[u] = pc[u]
  BY <1>1 DEF IInv, TypeOK
<1>10. ptr'[t] = a
  BY <1>1 DEF IInv, TypeOK
<1>11. QED
  BY <1>1, <1>3, <1>4, <1>5, <1>6, <1>7, <1>8, <1>9, <1>10, MemoryStep

(* Both refusals: the node the call allocated is deleted again.            *)
LEMMA EmptyHandedInv ==
  ASSUME IInv, ~exited, NEW t \in Thread, Inserting(t), LeaveEmptyHanded(t),
         UNCHANGED <<slot, retired, raced, exited>>
  PROVE  IInv'
<1> USE DEF LeaveEmptyHanded, Leave, Goto
<1>1. /\ ptr[t] \in Node /\ ptr[t] \notin retired /\ ~Linked(ptr[t])
      /\ \A u \in Thread \ {t} : ptr[u] # ptr[t]
  BY DEF IInv, TypeOK, OwnedNode, Inserting, Busy
<1>2. TypeOK'
  BY ZeroLevel DEF IInv, TypeOK
<1>3. OwnedNode(t)'
  BY DEF IInv, TypeOK, OwnedNode, Busy
<1>4. Position(t)'
  BY DEF IInv, TypeOK, Position, Busy, Inserting
<1>5. ExitNeedsFullCollision'
  BY DEF ExitNeedsFullCollision
<1>6. ptr'[t] = NULL /\ \A u \in Thread \ {t} :
           /\ pc'[u] = pc[u] /\ req'[u] = req[u] /\ depth'[u] = depth[u]
           /\ node'[u] = node[u] /\ hazard'[u] = hazard[u] /\ ptr'[u] = ptr[u]
  BY DEF IInv, TypeOK
<1>7. QED
  BY <1>1, <1>2, <1>3, <1>4, <1>5, <1>6, MemoryStep

(* A node that a call relies on is pinned, so it is not the one reclaimed. *)
LEMMA ReclaimInv ==
  ASSUME IInv, ~exited, NEW a \in Node, Reclaim(a)
  PROVE  IInv'
<1> USE DEF Reclaim, locals
<1>1. \A b \in Node \ {a} : data'[b] = data[b]
  BY DEF IInv, TypeOK
<1>2. TypeOK'
  BY DEF IInv, TypeOK
<1>3. TreeShape'
  BY DEF IInv, TreeShape
<1>4. LinkedNodes'
  <2>1. \A s \in Slot : slot[s] \in Node => slot[s] # a /\ data'[slot[s]] = data[slot[s]]
    BY <1>1 DEF IInv, LinkedNodes
  <2>2. QED
    BY <2>1 DEF IInv, LinkedNodes
<1>5. RetiredAlive'
  BY <1>1 DEF IInv, TypeOK, RetiredAlive
<1>6. ASSUME NEW u \in Thread
      PROVE  OwnedNode(u)' /\ Position(u)'
  <2>1. ptr[u] # NULL => data'[ptr[u]] = data[ptr[u]]
    BY <1>1, OwnedAlive
  <2>2. OwnedNode(u)'
    BY <2>1 DEF IInv, OwnedNode, Busy, Linked
  <2>3. pc[u] = "act" /\ node[u] \in Node
          => node[u] # a /\ data'[node[u]] = data[node[u]]
    BY <1>1 DEF IInv, Position
  <2>4. Position(u)'
    BY <2>3 DEF IInv, Position, Busy, Linked, NodePtr
  <2>5. QED
    BY <2>2, <2>4
<1>7. ExitNeedsFullCollision'
  BY DEF ExitNeedsFullCollision
<1>8. QED
  BY <1>2, <1>3, <1>4, <1>5, <1>6, <1>7 DEF IInv

-----------------------------------------------------------------------------
(* Steps that change a slot by a successful compare_exchange.              *)

(* The other threads' part of the invariant survives any change of slots   *)
(* that keeps the arrays linked, unlinks only what it retires and links    *)
(* nothing new but the caller's own node.                                  *)
LEMMA CasStep ==
  ASSUME IInv, ~exited, NEW t \in Thread,
         UNCHANGED <<data, exited>>,
         \A s \in Slot : slot[s] = ARRAY => slot'[s] = ARRAY,
         retired \subseteq retired',
         \A a \in retired' : a \in retired \/ Linked(a),
         \A a \in Node : Linked(a) => Linked(a)' \/ a \in retired',
         \A a \in Node : Linked(a)' => Linked(a) \/ a = ptr[t],
         ptr'[t] \in {ptr[t], NULL},
         \A u \in Thread \ {t} :
           /\ pc'[u] = pc[u] /\ req'[u] = req[u] /\ depth'[u] = depth[u]
           /\ node'[u] = node[u] /\ hazard'[u] = hazard[u] /\ ptr'[u] = ptr[u],
         TypeOK', TreeShape', LinkedNodes', OwnedNode(t)', Position(t)'
  PROVE  IInv'
<1>1. RetiredAlive'
  BY DEF IInv, RetiredAlive, LinkedNodes, TypeOK, Linked
<1>2. ASSUME NEW u \in Thread, u # t
      PROVE  OwnedNode(u)'
  <2>1. OwnedNode(u)
    BY DEF IInv
  <2>2. ASSUME ptr[u] # NULL
        PROVE  ptr[u] \notin retired' /\ ~Linked(ptr[u])'
    <3>1. ptr[u] \in Node /\ ptr[u] \notin retired /\ ~Linked(ptr[u])
      BY <2>2, OwnedAlive
    <3>2. ptr[u] # ptr[t]
      BY <1>2, <2>1, <2>2 DEF OwnedNode
    <3>3. QED
      BY <3>1, <3>2
  <2>3. QED
    BY <1>2, <2>1, <2>2 DEF OwnedNode, Busy
<1>3. ASSUME NEW u \in Thread, u # t
      PROVE  Position(u)'
  <2>1. pc[u] # "idle" => NodePtr(u)' = NodePtr(u) /\ NodePtr(u) \in Slot
    BY <1>3, InCall DEF NodePtr
  <2>2. Busy(u) => \A m \in Level : SlotOf[req[u].key][m] \in Slot
    BY InCall, SlotIn DEF Busy
  <2>3. QED
    BY <1>3, <2>1, <2>2 DEF IInv, Position, Busy
<1>4. ExitNeedsFullCollision'
  BY DEF ExitNeedsFullCollision
<1>5. QED
  BY <1>1, <1>2, <1>3, <1>4 DEF IInv

(* All that lies on the way to a caller's slot is an array, and below a    *)
(* slot that it does not find an array in, there is nothing.               *)
LEMMA AboveAndBelow ==
  ASSUME IInv, NEW t \in Thread, Busy(t), NEW k \in Key, NEW l \in Level
  PROVE  /\ \A m \in Level : m > l /\ SlotOf[k][m] = NodePtr(t)
               => slot[SlotOf[k][l]] = ARRAY
         /\ \A m \in Level : m > l /\ SlotOf[k][l] = NodePtr(t) /\ slot[NodePtr(t)] # ARRAY
               => slot[SlotOf[k][m]] = NULL
<1>1. pc[t] # "idle"
  BY DEF Busy
<1>2. ASSUME NEW m \in Level, m > l, SlotOf[k][m] = NodePtr(t)
      PROVE  slot[SlotOf[k][l]] = ARRAY
  <2>1. SlotOf[k][m] = SlotOf[req[t].key][depth[t]]
    BY <1>1, <1>2, InCall
  <2>2. m = depth[t] /\ SlotOf[k][l] = SlotOf[req[t].key][l]
    BY <1>1, <1>2, <2>1, InCall, SlotPrefix DEF Level
  <2>3. QED
    BY <1>2, <2>2 DEF IInv, Position
<1>3. QED
  BY <1>2 DEF IInv, TreeShape

(* The node an insert is about to link.                                    *)
LEMMA NewNode ==
  ASSUME IInv, NEW t \in Thread, Inserting(t)
  PROVE  /\ ptr[t] # NULL /\ ptr[t] \in Node /\ ptr[t] \notin retired /\ ~Linked(ptr[t])
         /\ data[ptr[t]] # FREE /\ data[ptr[t]].key = req[t].key
         /\ req[t].op = "Insert" /\ pc[t] = "act" /\ pc[t] # "idle" /\ Busy(t)
<1>1. Busy(t) /\ req[t].op = "Insert" /\ pc[t] = "act"
  BY DEF Inserting, Busy
<1>2. OwnedNode(t)
  BY DEF IInv
<1>3. ptr[t] # NULL /\ data[ptr[t]].key = req[t].key
  BY <1>1, <1>2 DEF OwnedNode
<1>4. QED
  BY <1>1, <1>3, OwnedAlive

LEMMA RaceTyped ==
  ASSUME IInv, NEW t \in Thread, RaceOthers(t)
  PROVE  raced' \in [Thread -> BOOLEAN]
BY DEF IInv, TypeOK, RaceOthers

(* The tree after a data node was put into the caller's slot.              *)
LEMMA TreeAfterPut ==
  ASSUME IInv, NEW t \in Thread, Busy(t), slot[NodePtr(t)] # ARRAY,
         slot'[NodePtr(t)] \in Node,
         \A s \in Slot \ {NodePtr(t)} : slot'[s] = slot[s]
  PROVE  TreeShape'
<1>1. ASSUME NEW k \in Key, NEW l \in Level
      PROVE  /\ slot'[SlotOf[k][l]] = ARRAY => l + 1 \in Level
             /\ slot'[SlotOf[k][l]] # ARRAY =>
                  \A m \in Level : m > l => slot'[SlotOf[k][m]] = NULL
  <2>1. SlotOf[k][l] \in Slot /\ \A m \in Level : SlotOf[k][m] \in Slot
    BY SlotIn
  <2>2. slot'[SlotOf[k][l]] = ARRAY => slot[SlotOf[k][l]] = ARRAY
    BY <2>1
  <2>3. ASSUME slot'[SlotOf[k][l]] # ARRAY, NEW m \in Level, m > l
        PROVE  slot'[SlotOf[k][m]] = NULL
    <3>1. slot[SlotOf[k][l]] # ARRAY
      BY <2>1, <2>3
    <3>2. SlotOf[k][m] # NodePtr(t)
      BY <2>3, <3>1, AboveAndBelow
    <3>3. QED
      BY <2>1, <2>3, <3>1, <3>2 DEF IInv, TreeShape
  <2>4. QED
    BY <2>2, <2>3 DEF IInv, TreeShape
<1>2. QED
  BY <1>1 DEF TreeShape

(* The tree after the caller's slot became an array with data nodes in     *)
(* some of its slots.                                                      *)
LEMMA TreeAfterSplit ==
  ASSUME IInv, NEW t \in Thread, Busy(t), slot[NodePtr(t)] # ARRAY,
         slot'[NodePtr(t)] = ARRAY, depth[t] + 1 \in Level,
         \A s \in Slot \ {NodePtr(t)} : slot'[s] # slot[s] =>
           /\ slot'[s] \in Node
           /\ \E k \in Key : s = SlotOf[k][depth[t] + 1] /\ SlotOf[k][depth[t]] = NodePtr(t)
  PROVE  TreeShape'
<1> DEFINE np == NodePtr(t)
<1>1. pc[t] # "idle"
  BY DEF Busy
<1>2. np \in Slot /\ np = SlotOf[req[t].key][depth[t]] /\ depth[t] \in Level /\ req[t].key \in Key
  BY <1>1, InCall
<1>3. ASSUME NEW s \in Slot \ {np}, slot'[s] # slot[s]
      PROVE  slot[s] = NULL
  <2>1. PICK k \in Key : s = SlotOf[k][depth[t] + 1] /\ SlotOf[k][depth[t]] = np
    BY <1>3
  <2>2. depth[t] + 1 > depth[t]
    BY <1>2 DEF Level
  <2>3. QED
    BY <1>2, <2>1, <2>2 DEF IInv, TreeShape
<1>4. ASSUME NEW k \in Key, NEW l \in Level
      PROVE  /\ slot'[SlotOf[k][l]] = ARRAY => l + 1 \in Level
             /\ slot'[SlotOf[k][l]] # ARRAY =>
                  \A m \in Level : m > l => slot'[SlotOf[k][m]] = NULL
  <2>1. SlotOf[k][l] \in Slot /\ \A m \in Level : SlotOf[k][m] \in Slot
    BY SlotIn
  <2>2. slot'[SlotOf[k][l]] = ARRAY => l + 1 \in Level
    <3>1. CASE SlotOf[k][l] = np
      BY <1>2, <3>1, SlotPrefix
    <3>2. CASE SlotOf[k][l] # np
      BY <2>1, <3>2 DEF IInv, TreeShape
    <3>3. QED
      BY <3>1, <3>2
  <2>3. ASSUME slot'[SlotOf[k][l]] # ARRAY, NEW m \in Level, m > l
        PROVE  slot'[SlotOf[k][m]] = NULL
    <3>1. slot[SlotOf[k][l]] # ARRAY /\ SlotOf[k][l] # np
      BY <1>3, <2>1, <2>3
    <3>2. slot[SlotOf[k][m]] = NULL
      BY <2>3, <3>1 DEF IInv, TreeShape
    <3>3. SlotOf[k][m] # np
      BY <2>3, <3>1, AboveAndBelow
    <3>4. ASSUME slot'[SlotOf[k][m]] # slot[SlotOf[k][m]]
          PROVE  FALSE
      <4>1. PICK j \in Key : /\ SlotOf[k][m] = SlotOf[j][depth[t] + 1]
                             /\ SlotOf[j][depth[t]] = np
        BY <2>1, <3>3, <3>4
      <4>2. m = depth[t] + 1 /\ SlotOf[k][depth[t]] = np
        BY <1>2, <4>1, SlotPrefix DEF Level
      <4>3. l < depth[t]
        BY <1>2, <2>3, <3>1, <4>2 DEF Level
      <4>4. slot[SlotOf[k][l]] = ARRAY
        BY <1>2, <4>2, <4>3, AboveAndBelow DEF Level
      <4>5. QED
        BY <3>1, <4>4
    <3>5. QED
      BY <3>2, <3>4
  <2>4. QED
    BY <2>2, <2>3
<1>5. QED
  BY <1>4 DEF TreeShape

LEMMA FillEmptyInv ==
  ASSUME IInv, ~exited, NEW t \in Thread, FillEmpty(t)
  PROVE  IInv'
<1> DEFINE np == NodePtr(t)
<1> USE DEF FillEmpty, Release, Leave, Goto
<1>1. /\ Inserting(t) /\ req[t].op = "Insert" /\ pc[t] = "act" /\ Busy(t)
      /\ slot[np] = NULL
  BY NewNode DEF WantsEmpty, CasSucceeds
<1>2. /\ np \in Slot /\ np = SlotOf[req[t].key][depth[t]]
      /\ req[t].key \in Key /\ depth[t] \in Level
  BY <1>1, InCall
<1>3. /\ ptr[t] # NULL /\ ptr[t] \in Node /\ ptr[t] \notin retired /\ ~Linked(ptr[t])
      /\ data[ptr[t]] # FREE /\ data[ptr[t]].key = req[t].key
  BY <1>1, NewNode
<1>4. slot'[np] = ptr[t] /\ \A s \in Slot \ {np} : slot'[s] = slot[s]
  BY <1>2 DEF IInv, TypeOK
<1>5. TypeOK'
  BY <1>3, RaceTyped, ZeroLevel DEF IInv, TypeOK
<1>6. TreeShape'
  BY <1>1, <1>3, <1>4, TreeAfterPut
<1>7. LinkedNodes'
  <2>1. ASSUME NEW s \in Slot, slot'[s] \in Node
        PROVE  /\ data'[slot'[s]] # FREE
               /\ slot'[s] \notin retired'
               /\ \E l \in Level : s = SlotOf[data'[slot'[s]].key][l]
               /\ \A r \in Slot : slot'[r] = slot'[s] => r = s
    <3>1. CASE s = np
      <4>1. slot'[s] = ptr[t] /\ data' = data /\ retired' = retired
        BY <1>4, <3>1
      <4>2. \A r \in Slot : slot'[r] = slot'[s] => r = s
        BY <1>3, <1>4, <3>1, <4>1 DEF Linked
      <4>3. s = SlotOf[data'[slot'[s]].key][depth[t]]
        BY <1>2, <1>3, <3>1, <4>1, Zenon
      <4>4. QED
        BY <1>2, <1>3, <4>1, <4>2, <4>3, Zenon
    <3>2. CASE s # np
      BY <1>3, <1>4, <2>1, <3>2 DEF IInv, LinkedNodes, Linked
    <3>3. QED
      BY <3>1, <3>2
  <2>2. QED
    BY <2>1 DEF LinkedNodes
<1>8. OwnedNode(t)'
  BY <1>1 DEF IInv, TypeOK, OwnedNode, Busy
<1>9. Position(t)'
  BY <1>1 DEF IInv, TypeOK, Position, Busy
<1>10. \A a \in Node : (Linked(a) => Linked(a)') /\ (Linked(a)' => Linked(a) \/ a = ptr[t])
  BY <1>1, <1>2, <1>4 DEF Linked
<1>11. \A s \in Slot : slot[s] = ARRAY => slot'[s] = ARRAY
  BY <1>1, <1>4
<1>12. ptr'[t] = NULL /\ \A u \in Thread \ {t} :
           /\ pc'[u] = pc[u] /\ req'[u] = req[u] /\ depth'[u] = depth[u]
           /\ node'[u] = node[u] /\ hazard'[u] = hazard[u] /\ ptr'[u] = ptr[u]
  BY DEF IInv, TypeOK
<1>13. QED
  BY <1>5, <1>6, <1>7, <1>8, <1>9, <1>10, <1>11, <1>12, CasStep

(* The value of a key is replaced: its old node leaves the slot and goes   *)
(* to HazPtrRetire, still alive for those that pinned it.                  *)
LEMMA ReplaceInv ==
  ASSUME IInv, ~exited, NEW t \in Thread, Replace(t)
  PROVE  IInv'
<1> DEFINE np == NodePtr(t)
<1> USE DEF Replace, Release, Leave, Goto
<1>1. /\ Inserting(t) /\ SawData(t) /\ SameKey(t)
      /\ req[t].op = "Insert" /\ pc[t] = "act" /\ Busy(t)
      /\ slot[np] = node[t] /\ node[t] \in Node
  BY NewNode DEF WantsReplace, CasSucceeds, SawData
<1>2. /\ np \in Slot /\ np = SlotOf[req[t].key][depth[t]]
      /\ req[t].key \in Key /\ depth[t] \in Level
  BY <1>1, InCall
<1>3. /\ ptr[t] # NULL /\ ptr[t] \in Node /\ ptr[t] \notin retired /\ ~Linked(ptr[t])
      /\ data[ptr[t]] # FREE /\ data[ptr[t]].key = req[t].key
  BY <1>1, NewNode
<1>4. slot'[np] = ptr[t] /\ \A s \in Slot \ {np} : slot'[s] = slot[s]
  BY <1>2 DEF IInv, TypeOK
<1>5. ptr[t] # node[t]
  BY <1>1, <1>2, <1>3 DEF Linked
<1>6. TypeOK'
  BY <1>1, <1>3, RaceTyped, ZeroLevel DEF IInv, TypeOK
<1>7. TreeShape'
  BY <1>1, <1>3, <1>4, TreeAfterPut
<1>8. LinkedNodes'
  <2>1. ASSUME NEW s \in Slot, slot'[s] \in Node
        PROVE  /\ data'[slot'[s]] # FREE
               /\ slot'[s] \notin retired'
               /\ \E l \in Level : s = SlotOf[data'[slot'[s]].key][l]
               /\ \A r \in Slot : slot'[r] = slot'[s] => r = s
    <3>1. CASE s = np
      <4>1. slot'[s] = ptr[t] /\ data' = data
        BY <1>4, <3>1
      <4>2. \A r \in Slot : slot'[r] = slot'[s] => r = s
        BY <1>3, <1>4, <3>1, <4>1 DEF Linked
      <4>3. s = SlotOf[data'[slot'[s]].key][depth[t]]
        BY <1>2, <1>3, <3>1, <4>1, Zenon
      <4>4. slot'[s] \notin retired' /\ data'[slot'[s]] # FREE
        BY <1>3, <1>5, <4>1
      <4>5. QED
        BY <1>2, <4>2, <4>3, <4>4, Zenon
    <3>2. CASE s # np
      <4>1. slot'[s] = slot[s] /\ slot[s] # ptr[t] /\ data' = data
        BY <1>3, <1>4, <2>1, <3>2 DEF Linked
      <4>2. slot[s] # node[t]
        BY <1>1, <1>2, <2>1, <3>2, <4>1 DEF IInv, LinkedNodes
      <4>3. \A r \in Slot : slot'[r] = slot'[s] => r = s
        BY <1>4, <2>1, <4>1 DEF IInv, LinkedNodes
      <4>4. QED
        BY <2>1, <4>1, <4>2, <4>3 DEF IInv, LinkedNodes
    <3>3. QED
      BY <3>1, <3>2
  <2>2. QED
    BY <2>1 DEF LinkedNodes
<1>9. OwnedNode(t)'
  BY <1>1 DEF IInv, TypeOK, OwnedNode, Busy
<1>10. Position(t)'
  BY <1>1 DEF IInv, TypeOK, Position, Busy
<1>11. /\ retired' = retired \cup {node[t]}
       /\ Linked(node[t])
       /\ \A a \in Node : Linked(a) => Linked(a)' \/ a = node[t]
       /\ \A a \in Node : Linked(a)' => Linked(a) \/ a = ptr[t]
  BY <1>1, <1>2, <1>4 DEF Linked
<1>12. \A s \in Slot : slot[s] = ARRAY => slot'[s] = ARRAY
  BY <1>1, <1>4
<1>13. ptr'[t] = NULL /\ \A u \in Thread \ {t} :
           /\ pc'[u] = pc[u] /\ req'[u] = req[u] /\ depth'[u] = depth[u]
           /\ node'[u] = node[u] /\ hazard'[u] = hazard[u] /\ ptr'[u] = ptr[u]
  BY DEF IInv, TypeOK
<1>14. QED
  BY <1>6, <1>7, <1>8, <1>9, <1>10, <1>11, <1>12, <1>13, CasStep

(* The slots a split writes: both are slots of the array to be linked, on  *)
(* the paths of the two keys, and empty as long as it is not linked.       *)
LEMMA SplitSlots ==
  ASSUME IInv, NEW t \in Thread, WantsSplit(t), CasSucceeds(t),
         NEW j \in Key, NEW k \in Key, j = data[node[t]].key, k = req[t].key
  PROVE  /\ depth[t] \in Level /\ depth[t] + 1 \in Level
         /\ NodePtr(t) = SlotOf[j][depth[t]] /\ NodePtr(t) = SlotOf[k][depth[t]]
         /\ NodePtr(t) \in Slot
         /\ Child(NodePtr(t), TmpIdx(t)) = SlotOf[j][depth[t] + 1]
         /\ Child(NodePtr(t), NextIdx(t)) = SlotOf[k][depth[t] + 1]
         /\ NextIdx(t) = TmpIdx(t) <=> SlotOf[k][depth[t] + 1] = SlotOf[j][depth[t] + 1]
         /\ SlotOf[j][depth[t] + 1] # NodePtr(t) /\ SlotOf[k][depth[t] + 1] # NodePtr(t)
         /\ slot[NodePtr(t)] = node[t] /\ node[t] \in Node
         /\ slot[SlotOf[j][depth[t] + 1]] = NULL
         /\ slot[SlotOf[k][depth[t] + 1]] = NULL
         /\ SlotOf[j][depth[t] + 1] \in Slot /\ SlotOf[k][depth[t] + 1] \in Slot
<1> DEFINE d == depth[t]
           np == NodePtr(t)
<1>1. Inserting(t) /\ SawData(t) /\ pc[t] # "idle"
  BY NewNode DEF WantsSplit
<1>2. d \in Level /\ d + 1 \in Level /\ d + 1 > d
  BY <1>1, InCall DEF WantsSplit, AtLastLevel, Level
<1>3. np = SlotOf[j][d] /\ np = SlotOf[k][d] /\ np \in Slot
  BY <1>1, InCall, OtherData
<1>4. slot[np] = node[t] /\ node[t] \in Node
  BY <1>1 DEF CasSucceeds, SawData
<1>5. Child(np, TmpIdx(t)) = SlotOf[j][d + 1] /\ Child(np, NextIdx(t)) = SlotOf[k][d + 1]
  BY <1>2, <1>3, SlotChild DEF TmpIdx, NextIdx
<1>6. NextIdx(t) = TmpIdx(t) <=> SlotOf[k][d + 1] = SlotOf[j][d + 1]
  BY <1>2, <1>3, SlotPart DEF TmpIdx, NextIdx
<1>7. SlotOf[j][d + 1] # np /\ SlotOf[k][d + 1] # np
  <2>1. d + 1 # d
    BY <1>2 DEF Level
  <2>2. QED
    BY <1>2, <1>3, <2>1, SlotPrefix
<1>8. slot[SlotOf[j][d + 1]] = NULL /\ slot[SlotOf[k][d + 1]] = NULL
  <2>1. slot[np] # ARRAY
    BY <1>4
  <2>2. TreeShape
    BY DEF IInv
  <2>3. QED
    BY <1>2, <1>3, <2>1, <2>2 DEF TreeShape
<1>9. QED
  BY <1>2, <1>3, <1>4, <1>5, <1>6, <1>7, <1>8, SlotIn

LEMMA SplitInv ==
  ASSUME IInv, ~exited, NEW t \in Thread, Split(t)
  PROVE  IInv'
<1> DEFINE d == depth[t]
           np == NodePtr(t)
           j == data[node[t]].key
           k == req[t].key
           c1 == SlotOf[j][d + 1]
           c2 == SlotOf[k][d + 1]
<1>1. /\ Inserting(t) /\ SawData(t) /\ req[t].op = "Insert" /\ pc[t] = "act" /\ Busy(t)
      /\ j \in Key /\ k \in Key /\ data[node[t]] # FREE
  BY NewNode, InCall, OtherData DEF WantsSplit, Split
<1>2. /\ d \in Level /\ d + 1 \in Level
      /\ np = SlotOf[j][d] /\ np = SlotOf[k][d] /\ np \in Slot
      /\ Child(np, TmpIdx(t)) = c1 /\ Child(np, NextIdx(t)) = c2
      /\ c1 # c2 /\ c1 # np /\ c2 # np /\ c1 \in Slot /\ c2 \in Slot
      /\ slot[np] = node[t] /\ node[t] \in Node
      /\ slot[c1] = NULL /\ slot[c2] = NULL
  BY <1>1, SplitSlots DEF Split
<1>3. /\ ptr[t] # NULL /\ ptr[t] \in Node /\ ptr[t] \notin retired /\ ~Linked(ptr[t])
      /\ data[ptr[t]] # FREE /\ data[ptr[t]].key = k
  BY <1>1, NewNode
<1> HIDE DEF j, k, c1, c2, np
<1>4. data' = data /\ retired' = retired
  BY DEF Split
<1>5. /\ slot' \in [Slot -> Node \cup {NULL, ARRAY}]
      /\ slot'[np] = ARRAY /\ slot'[c1] = node[t] /\ slot'[c2] = ptr[t]
      /\ \A s \in Slot \ {np, c1, c2} : slot'[s] = slot[s]
  <2>1. slot' = [slot EXCEPT ![np] = ARRAY, ![c1] = node[t], ![c2] = ptr[t]]
    BY <1>2 DEF np, Split
  <2>2. QED
    BY <1>2, <1>3, <2>1 DEF IInv, TypeOK
<1>6. ptr[t] # node[t]
  BY <1>2, <1>3 DEF Linked
<1>7. TypeOK'
  BY <1>4, <1>5, RaceTyped, ZeroLevel DEF IInv, TypeOK, Split, Release, Leave, Goto
<1>8. TreeShape'
  <2>1. \A s \in Slot \ {np} : slot'[s] # slot[s] => s \in {c1, c2} /\ slot'[s] \in Node
    BY <1>2, <1>3, <1>5
  <2>2. slot[np] # ARRAY
    BY <1>2
  <2>3. QED
    BY <1>1, <1>2, <1>5, <2>1, <2>2, TreeAfterSplit DEF c1, c2, np
<1>9. LinkedNodes'
  <2>1. \A r \in Slot : slot[r] = node[t] => r = np
    BY <1>2 DEF IInv, LinkedNodes
  <2>2. ASSUME NEW s \in Slot, slot'[s] \in Node
        PROVE  /\ data'[slot'[s]] # FREE
               /\ slot'[s] \notin retired'
               /\ \E l \in Level : s = SlotOf[data'[slot'[s]].key][l]
               /\ \A r \in Slot : slot'[r] = slot'[s] => r = s
    <3>1. CASE s = c1
      <4>1. \A r \in Slot : slot'[r] = node[t] => r = c1
        BY <1>2, <1>5, <1>6, <2>1
      <4>2. node[t] \notin retired
        BY <1>2 DEF IInv, LinkedNodes
      <4>3. c1 = SlotOf[data[node[t]].key][d + 1]
        BY DEF c1, j
      <4>4. slot'[s] = node[t]
        BY <1>5, <3>1
      <4>5. QED
        BY <1>1, <1>2, <1>4, <3>1, <4>1, <4>2, <4>3, <4>4, Zenon
    <3>2. CASE s = c2
      <4>1. \A r \in Slot : slot'[r] = ptr[t] => r = c2
        BY <1>3, <1>5, <1>6 DEF Linked
      <4>2. c2 = SlotOf[data[ptr[t]].key][d + 1]
        BY <1>3 DEF c2
      <4>3. QED
        BY <1>2, <1>3, <1>4, <1>5, <3>2, <4>1, <4>2, Zenon
    <3>3. CASE s \notin {np, c1, c2}
      <4>1. slot'[s] = slot[s] /\ slot[s] # ptr[t] /\ slot[s] # node[t]
        BY <1>3, <1>5, <2>1, <3>3 DEF Linked
      <4>2. \A r \in Slot : slot'[r] = slot'[s] => slot[r] = slot[s]
        BY <1>5, <2>2, <4>1
      <4>3. QED
        BY <1>4, <2>2, <4>1, <4>2 DEF IInv, LinkedNodes
    <3>4. QED
      BY <1>5, <2>2, <3>1, <3>2, <3>3
  <2>3. QED
    BY <2>2 DEF LinkedNodes
<1>10. OwnedNode(t)'
  BY <1>1 DEF IInv, TypeOK, OwnedNode, Busy, Split, Release, Leave, Goto
<1>11. Position(t)'
  BY <1>1 DEF IInv, TypeOK, Position, Busy, Split, Release, Leave, Goto
<1>12. \A a \in Node : (Linked(a) => Linked(a)') /\ (Linked(a)' => Linked(a) \/ a = ptr[t])
  BY <1>2, <1>5 DEF Linked
<1>13. \A s \in Slot : slot[s] = ARRAY => slot'[s] = ARRAY
  BY <1>2, <1>5
<1>14. ptr'[t] = NULL /\ \A u \in Thread \ {t} :
           /\ pc'[u] = pc[u] /\ req'[u] = req[u] /\ depth'[u] = depth[u]
           /\ node'[u] = node[u] /\ hazard'[u] = hazard[u] /\ ptr'[u] = ptr[u]
  BY DEF IInv, TypeOK, Split, Release, Leave, Goto
<1>15. QED
  BY <1>4, <1>7, <1>8, <1>9, <1>10, <1>11, <1>12, <1>13, <1>14, CasStep DEF Split, Release, Leave, Goto

(* The found node moves down alone, and the call goes on below it.         *)
LEMMA PushDownInv ==
  ASSUME IInv, ~exited, NEW t \in Thread, PushDown(t)
  PROVE  IInv'
<1> DEFINE d == depth[t]
           np == NodePtr(t)
           j == data[node[t]].key
           k == req[t].key
           c1 == SlotOf[j][d + 1]
<1>1. /\ Inserting(t) /\ SawData(t) /\ req[t].op = "Insert" /\ pc[t] = "act" /\ Busy(t)
      /\ j \in Key /\ k \in Key /\ data[node[t]] # FREE
  BY NewNode, InCall, OtherData DEF WantsSplit, PushDown
<1>2. /\ d \in Level /\ d + 1 \in Level
      /\ np = SlotOf[j][d] /\ np = SlotOf[k][d] /\ np \in Slot
      /\ Child(np, TmpIdx(t)) = c1 /\ c1 # np /\ c1 \in Slot
      /\ slot[np] = node[t] /\ node[t] \in Node /\ slot[c1] = NULL
  BY <1>1, SplitSlots DEF PushDown
<1>3. /\ ptr[t] # NULL /\ ptr[t] \notin retired /\ ~Linked(ptr[t])
  BY <1>1, NewNode
<1> HIDE DEF j, k, c1, np
<1>4. data' = data /\ retired' = retired
  BY DEF PushDown
<1>5. /\ slot' \in [Slot -> Node \cup {NULL, ARRAY}]
      /\ slot'[np] = ARRAY /\ slot'[c1] = node[t]
      /\ \A s \in Slot \ {np, c1} : slot'[s] = slot[s]
  <2>1. slot' = [slot EXCEPT ![np] = ARRAY, ![c1] = node[t]]
    BY <1>2 DEF np, PushDown
  <2>2. QED
    BY <1>2, <2>1 DEF IInv, TypeOK
<1>6. TypeOK'
  BY <1>2, <1>4, <1>5, RaceTyped DEF IInv, TypeOK, PushDown, Goto
<1>7. TreeShape'
  <2>1. \A s \in Slot \ {np} : slot'[s] # slot[s] => s = c1 /\ slot'[s] \in Node
    BY <1>2, <1>5
  <2>2. slot[np] # ARRAY
    BY <1>2
  <2>3. QED
    BY <1>1, <1>2, <1>5, <2>1, <2>2, TreeAfterSplit DEF c1, np
<1>8. LinkedNodes'
  <2>1. \A r \in Slot : slot[r] = node[t] => r = np
    BY <1>2 DEF IInv, LinkedNodes
  <2>2. ASSUME NEW s \in Slot, slot'[s] \in Node
        PROVE  /\ data'[slot'[s]] # FREE
               /\ slot'[s] \notin retired'
               /\ \E l \in Level : s = SlotOf[data'[slot'[s]].key][l]
               /\ \A r \in Slot : slot'[r] = slot'[s] => r = s
    <3>1. CASE s = c1
      <4>1. \A r \in Slot : slot'[r] = node[t] => r = c1
        BY <1>2, <1>5, <2>1
      <4>2. node[t] \notin retired
        BY <1>2 DEF IInv, LinkedNodes
      <4>3. c1 = SlotOf[data[node[t]].key][d + 1]
        BY DEF c1, j
      <4>4. slot'[s] = node[t]
        BY <1>5, <3>1
      <4>5. QED
        BY <1>1, <1>2, <1>4, <3>1, <4>1, <4>2, <4>3, <4>4, Zenon
    <3>2. CASE s \notin {np, c1}
      <4>1. slot'[s] = slot[s] /\ slot[s] # node[t]
        BY <1>5, <2>1, <3>2
      <4>2. \A r \in Slot : slot'[r] = slot'[s] => slot[r] = slot[s]
        BY <1>5, <2>2, <4>1
      <4>3. QED
        BY <1>4, <2>2, <4>1, <4>2 DEF IInv, LinkedNodes
    <3>3. QED
      BY <1>5, <2>2, <3>1, <3>2
  <2>3. QED
    BY <2>2 DEF LinkedNodes
<1>9. \A a \in Node : (Linked(a) => Linked(a)') /\ (Linked(a)' => Linked(a))
  BY <1>2, <1>5 DEF Linked
<1>10. \A s \in Slot : slot[s] = ARRAY => slot'[s] = ARRAY
  BY <1>2, <1>5
<1>11. OwnedNode(t)'
  <2>1. ~Linked(ptr[t])' /\ ptr' = ptr
    BY <1>3, <1>9 DEF IInv, TypeOK, PushDown
  <2>2. QED
    BY <1>1, <1>4, <2>1 DEF IInv, TypeOK, OwnedNode, Busy, PushDown, Goto
<1>12. Position(t)'
  <2>1. depth'[t] = d + 1 /\ pc'[t] = "load" /\ req' = req
    BY DEF IInv, TypeOK, PushDown, Goto
  <2>2. ASSUME NEW m \in Level, m < d + 1
        PROVE  slot'[SlotOf[k][m]] = ARRAY
    <3>1. m < d \/ m = d
      BY <1>2, <2>2 DEF Level
    <3>2. m < d => slot[SlotOf[k][m]] = ARRAY
      BY <1>1 DEF IInv, Position, k
    <3>3. QED
      BY <1>1, <1>2, <1>5, <1>10, <3>1, <3>2, SlotIn
  <2>3. QED
    BY <1>1, <2>1, <2>2, InCall DEF Position, Busy, k
<1>13. UNCHANGED ptr /\ \A u \in Thread \ {t} :
           /\ pc'[u] = pc[u] /\ req'[u] = req[u] /\ depth'[u] = depth[u]
           /\ node'[u] = node[u] /\ hazard'[u] = hazard[u] /\ ptr'[u] = ptr[u]
  BY DEF IInv, TypeOK, PushDown, Goto
<1>14. QED
  BY <1>4, <1>6, <1>7, <1>8, <1>9, <1>10, <1>11, <1>12, <1>13, CasStep DEF PushDown, Goto

-----------------------------------------------------------------------------
(* The invariant, and what follows from it.                                *)

LEMMA NextInv == IInv /\ [Next]_vars => IInv'
<1> SUFFICES ASSUME IInv, [Next]_vars PROVE IInv'
  OBVIOUS
<1>1. ASSUME ~exited, NEW t \in Thread, CallFind(t) PROVE IInv'
  BY <1>1, CallFindInv
<1>2. ASSUME ~exited, NEW t \in Thread, CallInsert(t) PROVE IInv'
  BY <1>2, CallInsertInv
<1>3. ASSUME ~exited, NEW t \in Thread, Step(t) PROVE IInv'
  <2>1. CASE RepinLoad(t)
    BY <1>3, <2>1, RepinLoadInv
  <2>2. CASE RepinValidate(t)
    BY <1>3, <2>2, RepinValidateInv
  <2>3. CASE FindReturn(t)
    BY <1>3, <2>3, FindReturnInv
  <2>4. CASE FindDescend(t)
    BY <1>3, <2>4, FindDescendInv
  <2>5. CASE InsertDescend(t)
    BY <1>3, <2>5, InsertDescendInv
  <2>6. CASE RefuseAbsent(t)
    BY <1>3, <2>6, EmptyHandedInv DEF RefuseAbsent
  <2>7. CASE RefusePresent(t)
    BY <1>3, <2>7, EmptyHandedInv DEF RefusePresent
  <2>8. CASE FillEmpty(t)
    BY <1>3, <2>8, FillEmptyInv
  <2>9. CASE Replace(t)
    BY <1>3, <2>9, ReplaceInv
  <2>10. CASE Split(t)
    BY <1>3, <2>10, SplitInv
  <2>11. CASE SplitLost(t)
    BY <1>3, <2>11, SplitLostInv
  <2>12. CASE PushDown(t)
    BY <1>3, <2>12, PushDownInv
  <2>13. CASE Retry(t)
    BY <1>3, <2>13, RetryInv
  <2>14. CASE GiveUp(t)
    BY <1>3, <2>14, GiveUpInv
  <2>15. CASE Return(t)
    BY <1>3, <2>15, ReturnInv
  <2>16. CASE RepinPublish(t)
    BY <1>3, <2>16, RepinPublishInv
  <2>17. QED
    BY <1>3, <2>1, <2>2, <2>3, <2>4, <2>5, <2>6, <2>7, <2>8, <2>9, <2>10,
       <2>11, <2>12, <2>13, <2>14, <2>15, <2>16 DEF Step, InsertStep
<1>4. ASSUME ~exited, NEW a \in Node, Reclaim(a) PROVE IInv'
  BY <1>4, ReclaimInv
<1>5. CASE UNCHANGED vars
  BY <1>5 DEF vars, locals, IInv, TypeOK, TreeShape, LinkedNodes, RetiredAlive,
     OwnedNode, Position, ExitNeedsFullCollision, Busy, Linked, NodePtr,
     Inserting, SawData, SameKey
<1>6. QED
  BY <1>1, <1>2, <1>3, <1>4, <1>5 DEF Next

(* The inductive invariant holds in every reachable state.                 *)
THEOREM Invariance == Spec => []IInv
<1>1. Init => IInv
  BY InitInv
<1>2. IInv /\ [Next]_vars => IInv'
  BY NextInv
<1>3. QED
  BY <1>1, <1>2, PTL DEF Spec

(* Every variable keeps its type.                                          *)
THEOREM TypeCorrect == Spec => []TypeOK
<1>1. IInv => TypeOK
  BY DEF IInv
<1>2. QED
  BY <1>1, Invariance, PTL

(* No call ever reads, links or compares against a reclaimed node, whatever *)
(* the number of threads that replace and retire nodes meanwhile.          *)
THEOREM NoUseAfterReclaim == Spec => []PinnedAlive
<1>1. IInv => PinnedAlive
  BY DEF IInv, Position, PinnedAlive, SawData
<1>2. QED
  BY <1>1, Invariance, PTL

(* A node given to HazPtrRetire is out of every slot, is retired once and  *)
(* is not deleted by a unique_ptr as well.                                 *)
THEOREM RetiredIsUnreachable == Spec => []RetiredUnreachable
<1>1. ASSUME IInv PROVE RetiredUnreachable
  <2>1. ASSUME NEW a \in retired
        PROVE  ~Linked(a) /\ data[a] # FREE /\ \A t \in Thread : ptr[t] # a
    <3>1. a \in Node /\ data[a] # FREE
      BY <1>1 DEF IInv, TypeOK, RetiredAlive
    <3>2. ~Linked(a)
      BY <1>1, <3>1 DEF IInv, LinkedNodes, Linked
    <3>3. \A t \in Thread : ptr[t] # a
      BY <1>1, <3>1, OwnedAlive
    <3>4. QED
      BY <3>1, <3>2, <3>3
  <2>2. QED
    BY <2>1 DEF RetiredUnreachable
<1>2. QED
  BY <1>1, Invariance, PTL

(* A linked node, found by the path of its key, is what a lookup finds.    *)
LEMMA LinkedHolds ==
  ASSUME IInv, NEW s \in Slot, slot[s] \in Node
  PROVE  /\ data[slot[s]].key \in Key
         /\ \E l \in Level : s = SlotOf[data[slot[s]].key][l] /\ Holds(data[slot[s]].key, l)
<1> DEFINE k == data[slot[s]].key
<1>1. data[slot[s]] # FREE /\ k \in Key
  BY DEF IInv, LinkedNodes, TypeOK
<1>2. PICK l \in Level : s = SlotOf[k][l]
  BY DEF IInv, LinkedNodes
<1>3. ASSUME NEW m \in 0..(l - 1)
      PROVE  slot[SlotOf[k][m]] = ARRAY
  <2>1. m \in Level /\ l > m
    BY DEF Level
  <2>2. slot[s] # NULL
    OBVIOUS
  <2>3. QED
    BY <1>1, <1>2, <2>1, <2>2 DEF IInv, TreeShape
<1>4. QED
  BY <1>1, <1>2, <1>3 DEF Holds

(* A lookup finds a key at one level only.                                 *)
LEMMA HoldsOnce ==
  ASSUME IInv, NEW k \in Key, NEW l \in Level, NEW m \in Level, Holds(k, l), Holds(k, m)
  PROVE  l = m
<1>1. ASSUME NEW i \in Level, NEW n \in Level, Holds(k, i), Holds(k, n), i < n
      PROVE  FALSE
  <2>1. i \in 0..(n - 1)
    BY <1>1 DEF Level
  <2>2. QED
    BY <1>1, <2>1 DEF Holds
<1>2. l < m \/ m < l \/ l = m
  BY DEF Level
<1>3. QED
  BY <1>1, <1>2

(* However many inserts of a key race, one node with it is linked.         *)
THEOREM NoDuplicateKeys == Spec => []OneNodePerKey
<1>1. ASSUME IInv PROVE OneNodePerKey
  <2>1. ASSUME NEW s \in Slot, NEW r \in Slot, slot[s] \in Node, slot[r] \in Node,
               data[slot[s]].key = data[slot[r]].key
        PROVE  s = r
    <3> DEFINE k == data[slot[s]].key
    <3>1. PICK l \in Level : s = SlotOf[k][l] /\ Holds(k, l)
      BY <1>1, <2>1, LinkedHolds
    <3>2. PICK m \in Level : r = SlotOf[k][m] /\ Holds(k, m)
      BY <1>1, <2>1, LinkedHolds
    <3>3. k \in Key
      BY <1>1, <2>1, LinkedHolds
    <3>4. QED
      BY <1>1, <3>1, <3>2, <3>3, HoldsOnce
  <2>2. QED
    BY <2>1 DEF OneNodePerKey
<1>2. QED
  BY <1>1, Invariance, PTL

(* Every linked node is where a lookup of its key comes by.                *)
THEOREM NodesOnOwnPath == Spec => []OnOwnPath
<1>1. ASSUME IInv PROVE OnOwnPath
  <2>1. ASSUME NEW s \in Slot, slot[s] \in Node
        PROVE  Holds(data[slot[s]].key, Len(s) - 1)
    <3> DEFINE k == data[slot[s]].key
    <3>1. k \in Key
      BY <1>1, <2>1, LinkedHolds
    <3>2. PICK l \in Level : s = SlotOf[k][l] /\ Holds(k, l)
      BY <1>1, <2>1, LinkedHolds
    <3> HIDE DEF k
    <3>3. l \in Nat
      BY DEF Level
    <3>4. Len(SlotOf[k][l]) = l + 1
      BY <3>1, SlotLen
    <3>5. Len(s) - 1 = l
      BY <3>2, <3>3, <3>4
    <3>6. QED
      BY <3>2, <3>5 DEF k
  <2>2. QED
    BY <2>1 DEF OnOwnPath
<1>2. QED
  BY <1>1, Invariance, PTL

(* The process exits only when two keys share their whole path.            *)
THEOREM ExitOnlyOnCollision == Spec => []ExitNeedsFullCollision
<1>1. IInv => ExitNeedsFullCollision
  BY DEF IInv
<1>2. QED
  BY <1>1, Invariance, PTL

-----------------------------------------------------------------------------
(* Keys stay.                                                              *)

(* A step that leaves the way to a key and its node alone keeps the key.   *)
LEMMA HoldsFrame ==
  ASSUME NEW k \in Key, NEW l \in Level, Holds(k, l),
         \A m \in Level : m <= l => slot'[SlotOf[k][m]] = slot[SlotOf[k][m]],
         data'[slot[SlotOf[k][l]]] = data[slot[SlotOf[k][l]]]
  PROVE  Present(k)'
<1>1. l <= l /\ \A m \in 0..(l - 1) : m \in Level /\ m <= l
  BY DEF Level
<1>2. Holds(k, l)'
  BY <1>1 DEF Holds
<1>3. QED
  BY <1>2 DEF Present

(* What a caller's slot is on the way to a key that is present: an array,  *)
(* or the slot of the key itself.                                          *)
LEMMA OnTheWay ==
  ASSUME IInv, NEW k \in Key, NEW l \in Level, Holds(k, l),
         NEW m \in Level, m <= l, slot[SlotOf[k][m]] # ARRAY
  PROVE  m = l
<1>1. m = l \/ m \in 0..(l - 1)
  BY DEF Level
<1>2. QED
  BY <1>1 DEF Holds

(* The data of a linked node changes in no step.                           *)
LEMMA LinkedDataStays ==
  ASSUME IInv, Next, NEW a \in Node, Linked(a)
  PROVE  data'[a] = data[a]
<1>1. data[a] # FREE /\ a \notin retired
  BY DEF IInv, LinkedNodes, Linked
<1>2. ASSUME NEW t \in Thread, CallInsert(t)
      PROVE  data'[a] = data[a]
  BY <1>1, <1>2 DEF CallInsert, IInv, TypeOK
<1>3. ASSUME NEW t \in Thread, CallFind(t) \/ Step(t)
      PROVE  data'[a] = data[a]
  <2>1. CASE RefuseAbsent(t) \/ RefusePresent(t)
    <3>1. Inserting(t) /\ LeaveEmptyHanded(t)
      BY <2>1 DEF RefuseAbsent, RefusePresent
    <3>2. ptr[t] # a
      BY <3>1, NewNode
    <3>3. QED
      BY <3>1, <3>2 DEF LeaveEmptyHanded, IInv, TypeOK
  <2>2. CASE ~RefuseAbsent(t) /\ ~RefusePresent(t)
    BY <1>3, <2>2 DEF Step, InsertStep, CallFind, Return, RepinLoad, RepinPublish, RepinValidate,
       FindReturn, FindDescend, InsertDescend, FillEmpty, Replace, Split, SplitLost,
       PushDown, Retry, GiveUp
  <2>3. QED
    BY <2>1, <2>2
<1>4. ASSUME NEW b \in Node, Reclaim(b)
      PROVE  data'[a] = data[a]
  BY <1>1, <1>4 DEF Reclaim, IInv, TypeOK
<1>5. QED
  BY <1>2, <1>3, <1>4 DEF Next

(* The two ways a slot that holds a node changes: to a node of the same    *)
(* key, or to an array that holds the node.                                *)
LEMMA KeyStays ==
  ASSUME IInv, Next, NEW k \in Key, Present(k)
  PROVE  Present(k)'
<1>1. PICK l \in Level : Holds(k, l)
  BY DEF Present
<1> DEFINE s == SlotOf[k][l]
<1>2. s \in Slot /\ slot[s] \in Node /\ data[slot[s]].key = k /\ data[slot[s]] # FREE
  BY <1>1, SlotIn DEF Holds
<1>3. data'[slot[s]] = data[slot[s]]
  BY <1>2, LinkedDataStays DEF Linked
<1>4. CASE slot' = slot
  BY <1>1, <1>3, <1>4, HoldsFrame
<1>5. \A m \in Level : SlotOf[k][m] \in Slot
  BY SlotIn
<1> HIDE DEF s
<1>6. ASSUME NEW t \in Thread, FillEmpty(t)
      PROVE  Present(k)'
  <2>1. \A r \in Slot : slot[r] # NULL => slot'[r] = slot[r]
    BY <1>6 DEF FillEmpty, WantsEmpty, CasSucceeds, IInv, TypeOK
  <2>2. \A m \in Level : m <= l => slot[SlotOf[k][m]] # NULL
    BY <1>1, <1>2, OnTheWay DEF s
  <2>3. QED
    BY <1>1, <1>3, <1>5, <2>1, <2>2, HoldsFrame DEF s
<1>7. ASSUME NEW t \in Thread, Replace(t) \/ Split(t) \/ PushDown(t)
      PROVE  Present(k)'
  <2> DEFINE np == NodePtr(t)
             d == depth[t]
             c1 == SlotOf[k][d + 1]
  <2>1. /\ Inserting(t) /\ SawData(t) /\ slot[np] = node[t] /\ node[t] \in Node
        /\ pc[t] # "idle" /\ np \in Slot /\ np = SlotOf[req[t].key][d] /\ d \in Level
        /\ req[t].key \in Key
    BY <1>7, NewNode, InCall
       DEF Replace, Split, PushDown, WantsReplace, WantsSplit, CasSucceeds, SawData
  <2>2. CASE np # s
    <3>1. \A m \in Level : m <= l => SlotOf[k][m] # np
      BY <1>1, <2>1, <2>2, OnTheWay DEF s
    <3>2. \A m \in Level : m <= l => slot[SlotOf[k][m]] # NULL
      BY <1>1, <1>2, OnTheWay DEF s
    <3>3. \A r \in Slot : r # np /\ slot[r] # NULL => slot'[r] = slot[r]
      <4>1. CASE Replace(t)
        BY <4>1, <2>1 DEF Replace, IInv, TypeOK
      <4>2. CASE Split(t)
        BY <4>2, <2>1, OtherData, SplitSlots DEF Split, IInv, TypeOK
      <4>3. CASE PushDown(t)
        BY <4>3, <2>1, OtherData, SplitSlots DEF PushDown, IInv, TypeOK
      <4>4. QED
        BY <1>7, <4>1, <4>2, <4>3
    <3>4. QED
      BY <1>1, <1>3, <1>5, <3>1, <3>2, <3>3, HoldsFrame DEF s
  <2>3. CASE np = s
    <3>1. d = l /\ data[node[t]].key = k /\ data[node[t]] # FREE
      <4>1. slot[s] = node[t]
        BY <2>1, <2>3
      <4>2. SlotOf[req[t].key][d] = SlotOf[k][l]
        BY <2>1, <2>3 DEF s
      <4>3. QED
        BY <1>2, <2>1, <4>1, <4>2, SlotPrefix
    <3>2. \A m \in 0..(l - 1) : slot[SlotOf[k][m]] = ARRAY /\ SlotOf[k][m] \in Slot
      BY <1>1, <1>5 DEF Holds, Level
    <3>3. CASE Replace(t)
      <4>1. slot'[s] = ptr[t] /\ \A r \in Slot \ {s} : slot'[r] = slot[r]
        BY <2>1, <2>3, <3>3 DEF Replace, IInv, TypeOK
      <4>2. /\ ptr[t] \in Node /\ data[ptr[t]] # FREE /\ data[ptr[t]].key = k
            /\ data' = data
        BY <2>1, <3>1, <3>3, NewNode DEF Replace, WantsReplace, SameKey
      <4>3. \A m \in 0..(l - 1) : slot'[SlotOf[k][m]] = ARRAY
        BY <2>1, <2>3, <3>2, <4>1
      <4>4. Holds(k, l)'
        BY <4>1, <4>2, <4>3 DEF Holds, s
      <4>5. QED
        BY <4>4 DEF Present
    <3>4. CASE Split(t) \/ PushDown(t)
      <4>1. WantsSplit(t) /\ CasSucceeds(t) /\ data' = data
        BY <3>4 DEF Split, PushDown
      <4>2. /\ d + 1 \in Level /\ c1 \in Slot /\ Child(np, TmpIdx(t)) = c1
            /\ c1 # np /\ slot[c1] = NULL
        BY <2>1, <3>1, <4>1, SplitSlots
      <4>3. slot'[c1] = node[t] /\ slot'[np] = ARRAY
        <5>1. CASE Split(t)
          <6>1. /\ Child(np, NextIdx(t)) # c1 /\ Child(np, NextIdx(t)) # np
                /\ Child(np, NextIdx(t)) \in Slot
            BY <2>1, <3>1, <4>1, <5>1, SplitSlots DEF Split
          <6>2. QED
            BY <2>1, <4>2, <5>1, <6>1 DEF Split, IInv, TypeOK
        <5>2. CASE PushDown(t)
          BY <2>1, <4>2, <5>2 DEF PushDown, IInv, TypeOK
        <5>3. QED
          BY <3>4, <5>1, <5>2
      <4>4. \A r \in Slot : slot[r] = ARRAY => slot'[r] = ARRAY
        <5>1. CASE Split(t)
          BY <2>1, <3>1, <4>1, <5>1, SplitSlots DEF Split, IInv, TypeOK
        <5>2. CASE PushDown(t)
          BY <2>1, <4>2, <5>2 DEF PushDown, IInv, TypeOK
        <5>3. QED
          BY <3>4, <5>1, <5>2
      <4>5. \A m \in 0..((d + 1) - 1) : m \in 0..(l - 1) \/ m = l
        BY <2>1, <3>1 DEF Level
      <4>6. \A m \in 0..((d + 1) - 1) : slot'[SlotOf[k][m]] = ARRAY
        BY <2>3, <3>2, <4>3, <4>4, <4>5 DEF s
      <4>7. ASSUME NEW n \in Level, n = d + 1
            PROVE  Holds(k, n)'
        BY <2>1, <3>1, <4>1, <4>3, <4>6, <4>7 DEF Holds
      <4>8. QED
        BY <4>2, <4>7 DEF Present
    <3>5. QED
      BY <1>7, <3>3, <3>4
  <2>4. QED
    BY <2>2, <2>3
<1>8. slot' = slot \/ \E t \in Thread : FillEmpty(t) \/ Replace(t) \/ Split(t) \/ PushDown(t)
  BY DEF Next, CallFind, CallInsert, Step, InsertStep, Return, RepinLoad, RepinPublish, RepinValidate,
     FindReturn, FindDescend, InsertDescend, RefuseAbsent, RefusePresent, SplitLost,
     Retry, GiveUp, Reclaim
<1>9. QED
  BY <1>4, <1>6, <1>7, <1>8

(* An insert of one key never takes another key, or its own, out of the    *)
(* map.                                                                    *)
THEOREM KeysAreKept == Spec => KeysStay
<1>1. IInv /\ [Next]_vars => [\A k \in Key : Present(k) => Present(k)']_vars
  BY KeyStays
<1>2. QED
  BY <1>1, Invariance, PTL DEF Spec, KeysStay

-----------------------------------------------------------------------------
(* The trie implements ConcurrentMap, and only an insert whose slot was    *)
(* changed under it is lost, for any number of threads, keys, nodes and    *)
(* levels and for any hash function.  Both follow from what an insert knows of    *)
(* the node it found when the slot has changed under it.                   *)

(* A call has a request, and its return value when it is done.             *)
Calls(t) ==
  /\ pc[t] = "idle" => req[t] = NULL
  /\ ret[t] = PENDING <=> pc[t] # "done"

(* The key of the node a call has found is in the map ever since, and the  *)
(* node leaves the call's slot only by a compare_exchange of another one.  *)
Found(t) ==
  pc[t] = "act" /\ node[t] \in Node =>
    /\ Present(data[node[t]].key)
    /\ slot[NodePtr(t)] # node[t] => raced[t]

(* What UndisturbedInsertKept says of a thread.                            *)
Kept(t) ==
  pc[t] = "done" /\ req[t].op = "Insert" /\ ret[t] = TRUE /\ ~raced[t] =>
    Present(req[t].key)

RInv ==
  /\ IInv
  /\ \A t \in Thread : Calls(t) /\ Found(t) /\ Kept(t)

-----------------------------------------------------------------------------
(* The contents of the map, as the set of the linked nodes tells them.     *)

LinkedWith(a, k) == Linked(a) /\ data[a].key = k

ContentsAre ==
  \A k \in Key :
    /\ \A a \in Node : LinkedWith(a, k) => Contents[k] = data[a].val
    /\ (~\E a \in Node : LinkedWith(a, k)) => Contents[k] = ABSENT

LEMMA LinkedContents == IInv => ContentsAre
<1> SUFFICES ASSUME IInv, NEW k \in Key
             PROVE  /\ \A a \in Node : LinkedWith(a, k) => Contents[k] = data[a].val
                    /\ (~\E a \in Node : LinkedWith(a, k)) => Contents[k] = ABSENT
  BY DEF ContentsAre
<1>1. ASSUME NEW a \in Node, LinkedWith(a, k)
      PROVE  Contents[k] = data[a].val
  <2>1. PICK s \in Slot : slot[s] = a /\ data[slot[s]].key = k
    BY <1>1 DEF LinkedWith, Linked
  <2>2. PICK l \in Level : s = SlotOf[k][l] /\ Holds(k, l)
    BY <2>1, LinkedHolds
  <2>3. \A m \in Level : Holds(k, m) => m = l
    BY <2>2, HoldsOnce
  <2>4. (CHOOSE m \in Level : Holds(k, m)) = l
    BY <2>2, <2>3
  <2>5. Present(k) /\ ValueOf(k) = data[a].val
    BY <2>1, <2>2, <2>4 DEF Present, ValueOf
  <2>6. QED
    BY <2>5 DEF Contents
<1>2. ASSUME Present(k)
      PROVE  \E a \in Node : LinkedWith(a, k)
  BY <1>2, SlotIn DEF Present, Holds, LinkedWith, Linked
<1>3. QED
  BY <1>1, <1>2 DEF Contents

(* A key whose path ends in no node of its own is not in the map.          *)
LEMMA NotOnPath ==
  ASSUME IInv, NEW k \in Key, NEW l \in Level,
         \A m \in Level : m < l => slot[SlotOf[k][m]] = ARRAY,
         slot[SlotOf[k][l]] # ARRAY,
         slot[SlotOf[k][l]] \in Node => data[slot[SlotOf[k][l]]].key # k
  PROVE  Contents[k] = ABSENT
<1>1. ASSUME NEW a \in Node, LinkedWith(a, k)
      PROVE  FALSE
  <2>1. PICK s \in Slot : slot[s] = a /\ data[slot[s]].key = k
    BY <1>1 DEF LinkedWith, Linked
  <2>2. PICK m \in Level : s = SlotOf[k][m]
    BY <2>1, LinkedHolds
  <2>3. m < l \/ m = l \/ m > l
    BY DEF Level
  <2>4. m > l => slot[s] = NULL
    BY <2>2 DEF IInv, TreeShape
  <2>5. QED
    BY <2>1, <2>2, <2>3, <2>4
<1>2. QED
  BY <1>1, LinkedContents DEF ContentsAre

(* A key with a linked node is in the map.                                 *)
LEMMA LinkedIsIn ==
  ASSUME IInv, NEW a \in Node, Linked(a)
  PROVE  /\ data[a].key \in Key
         /\ Contents[data[a].key] = data[a].val
         /\ Contents[data[a].key] \in Value
<1>1. data[a] # FREE
  BY DEF IInv, LinkedNodes, Linked
<1>2. data[a].key \in Key /\ data[a].val \in Value
  BY <1>1 DEF IInv, TypeOK
<1>3. QED
  BY <1>2, LinkedContents DEF ContentsAre, LinkedWith

LEMMA PresentIsIn == IInv => \A k \in Key : Present(k) <=> Contents[k] # ABSENT
<1> SUFFICES ASSUME IInv, NEW k \in Key PROVE Present(k) <=> Contents[k] # ABSENT
  OBVIOUS
<1>1. ASSUME Present(k)
      PROVE  Contents[k] # ABSENT
  <2>1. PICK l \in Level : Holds(k, l)
    BY <1>1 DEF Present
  <2>2. PICK a \in Node : Linked(a) /\ data[a].key = k
    BY <2>1, SlotIn DEF Holds, Linked
  <2>3. QED
    BY <2>2, LinkedIsIn
<1>2. QED
  BY <1>1 DEF Contents

-----------------------------------------------------------------------------
(* What the steps do to the contents.                                      *)

Cas(t) == FillEmpty(t) \/ Replace(t) \/ Split(t) \/ PushDown(t)

LEMMA OnlyCas == Next => slot' = slot \/ \E t \in Thread : Cas(t)
BY DEF Next, Cas, CallFind, CallInsert, Step, InsertStep, Return, RepinLoad, RepinPublish,
   RepinValidate, FindReturn, FindDescend, InsertDescend, RefuseAbsent, RefusePresent,
   SplitLost, Retry, GiveUp, Reclaim

LEMMA SameSlots ==
  ASSUME IInv, IInv', Next, slot' = slot
  PROVE  \A k \in Key : Contents'[k] = Contents[k]
<1>1. \A a \in Node : (Linked(a)' <=> Linked(a)) /\ (Linked(a) => data'[a] = data[a])
  BY LinkedDataStays DEF Linked
<1>2. ContentsAre /\ ContentsAre'
  BY LinkedContents, PTL
<1>3. QED
  BY <1>1, <1>2 DEF ContentsAre, LinkedWith

(* What a compare_exchange links and unlinks.                              *)
LEMMA CasLinks ==
  ASSUME IInv, NEW t \in Thread
  PROVE  /\ FillEmpty(t) \/ Split(t) =>
              \A a \in Node : Linked(a)' <=> Linked(a) \/ a = ptr[t]
         /\ Replace(t) =>
              \A a \in Node : Linked(a)' <=> (Linked(a) /\ a # node[t]) \/ a = ptr[t]
         /\ PushDown(t) => \A a \in Node : Linked(a)' <=> Linked(a)
<1> DEFINE np == NodePtr(t)
<1>1. ASSUME Inserting(t)
      PROVE  np \in Slot /\ ptr[t] \in Node /\ ~Linked(ptr[t])
  BY <1>1, NewNode, InCall
<1>2. CASE FillEmpty(t)
  <2>1. slot[np] = NULL /\ slot' = [slot EXCEPT ![np] = ptr[t]] /\ Inserting(t)
    BY <1>2 DEF FillEmpty, WantsEmpty, CasSucceeds
  <2>2. slot'[np] = ptr[t] /\ \A s \in Slot \ {np} : slot'[s] = slot[s]
    BY <1>1, <2>1 DEF IInv, TypeOK
  <2>3. \A a \in Node : Linked(a)' <=> Linked(a) \/ a = ptr[t]
    BY <1>1, <2>1, <2>2 DEF Linked
  <2>4. ~Replace(t) /\ ~PushDown(t)
    BY <1>2 DEF FillEmpty, Replace, PushDown, WantsEmpty, WantsReplace, WantsSplit, SawData
  <2>5. QED
    BY <2>3, <2>4
<1>3. CASE Replace(t)
  <2>1. /\ slot[np] = node[t] /\ node[t] \in Node /\ slot' = [slot EXCEPT ![np] = ptr[t]]
        /\ Inserting(t)
    BY <1>3 DEF Replace, WantsReplace, SawData, CasSucceeds
  <2>2. slot'[np] = ptr[t] /\ \A s \in Slot \ {np} : slot'[s] = slot[s]
    BY <1>1, <2>1 DEF IInv, TypeOK
  <2>3. \A s \in Slot : slot[s] = node[t] => s = np
    BY <1>1, <2>1 DEF IInv, LinkedNodes
  <2>4. \A a \in Node : Linked(a)' <=> (Linked(a) /\ a # node[t]) \/ a = ptr[t]
    BY <1>1, <2>1, <2>2, <2>3 DEF Linked
  <2>5. ~FillEmpty(t) /\ ~Split(t) /\ ~PushDown(t)
    BY <1>3 DEF FillEmpty, Replace, Split, PushDown, WantsEmpty, WantsReplace, WantsSplit, SawData
  <2>6. QED
    BY <2>4, <2>5
<1>4. ASSUME Split(t) \/ PushDown(t)
      PROVE  /\ Split(t) => \A a \in Node : Linked(a)' <=> Linked(a) \/ a = ptr[t]
             /\ PushDown(t) => \A a \in Node : Linked(a)' <=> Linked(a)
  <2> DEFINE c1 == Child(np, TmpIdx(t))
             c2 == Child(np, NextIdx(t))
  <2>1. /\ WantsSplit(t) /\ CasSucceeds(t) /\ Inserting(t) /\ SawData(t)
        /\ data[node[t]].key \in Key /\ req[t].key \in Key
    BY <1>4, NewNode, InCall, OtherData DEF Split, PushDown, WantsSplit
  <2>2. /\ np \in Slot /\ c1 \in Slot /\ c2 \in Slot /\ c1 # np /\ c2 # np
        /\ slot[np] = node[t] /\ node[t] \in Node /\ slot[c1] = NULL /\ slot[c2] = NULL
        /\ Split(t) => c1 # c2
    <3> DEFINE j == data[node[t]].key
               k == req[t].key
    <3>1. Split(t) => NextIdx(t) # TmpIdx(t)
      BY DEF Split
    <3> HIDE DEF np
    <3>2. /\ NodePtr(t) \in Slot /\ slot[NodePtr(t)] = node[t] /\ node[t] \in Node
          /\ Child(NodePtr(t), TmpIdx(t)) = SlotOf[j][depth[t] + 1]
          /\ Child(NodePtr(t), NextIdx(t)) = SlotOf[k][depth[t] + 1]
          /\ NextIdx(t) = TmpIdx(t) <=> SlotOf[k][depth[t] + 1] = SlotOf[j][depth[t] + 1]
          /\ SlotOf[j][depth[t] + 1] # NodePtr(t) /\ SlotOf[k][depth[t] + 1] # NodePtr(t)
          /\ slot[SlotOf[j][depth[t] + 1]] = NULL /\ slot[SlotOf[k][depth[t] + 1]] = NULL
          /\ SlotOf[j][depth[t] + 1] \in Slot /\ SlotOf[k][depth[t] + 1] \in Slot
      BY <2>1, SplitSlots
    <3>3. QED
      BY <3>1, <3>2 DEF np
  <2>3. CASE Split(t)
    <3>1. slot' = [slot EXCEPT ![np] = ARRAY, ![c1] = node[t], ![c2] = ptr[t]]
      BY <2>3 DEF Split
    <3>2. /\ slot'[np] = ARRAY /\ slot'[c1] = node[t] /\ slot'[c2] = ptr[t]
          /\ \A s \in Slot \ {np, c1, c2} : slot'[s] = slot[s]
      BY <2>2, <2>3, <3>1 DEF IInv, TypeOK
    <3>3. \A a \in Node : Linked(a)' <=> Linked(a) \/ a = ptr[t]
      BY <1>1, <2>1, <2>2, <3>2 DEF Linked
    <3>4. ~PushDown(t)
      BY <2>3 DEF Split, PushDown
    <3>5. QED
      BY <3>3, <3>4
  <2>4. CASE PushDown(t)
    <3>1. slot' = [slot EXCEPT ![np] = ARRAY, ![c1] = node[t]]
      BY <2>4 DEF PushDown
    <3>2. /\ slot'[np] = ARRAY /\ slot'[c1] = node[t]
          /\ \A s \in Slot \ {np, c1} : slot'[s] = slot[s]
      BY <2>2, <3>1 DEF IInv, TypeOK
    <3>3. \A a \in Node : Linked(a)' <=> Linked(a)
      BY <2>2, <3>2 DEF Linked
    <3>4. ~Split(t)
      BY <2>4 DEF Split, PushDown
    <3>5. QED
      BY <3>3, <3>4
  <2>5. QED
    BY <1>4, <2>3, <2>4
<1>5. ~Replace(t) \/ ~(Split(t) \/ PushDown(t))
  BY DEF Replace, Split, PushDown, WantsReplace, WantsSplit
<1>6. ~FillEmpty(t) \/ ~(Split(t) \/ PushDown(t))
  BY DEF FillEmpty, Split, PushDown, WantsEmpty, WantsSplit, SawData
<1>7. QED
  BY <1>2, <1>3, <1>4, <1>5, <1>6

(* It stores the new value, or moves a node and changes nothing.           *)
LEMMA CasContents ==
  ASSUME IInv, IInv', NEW t \in Thread, Cas(t)
  PROVE  \A k \in Key :
           Contents'[k] = IF ~PushDown(t) /\ k = req[t].key THEN req[t].val ELSE Contents[k]
<1>1. data' = data
  BY DEF Cas, FillEmpty, Replace, Split, PushDown
<1>2. Inserting(t)
  BY DEF Cas, FillEmpty, Replace, Split, PushDown, WantsEmpty, WantsReplace, WantsSplit
<1>3. /\ ptr[t] \in Node /\ data[ptr[t]].key = req[t].key /\ data[ptr[t]].val = req[t].val
      /\ req[t].key \in Key
  <2>1. OwnedNode(t)
    BY DEF IInv
  <2>2. ptr[t] \in Node /\ ptr[t] # NULL /\ pc[t] # "idle"
    BY <1>2, NewNode
  <2>3. data[ptr[t]] = [key |-> req[t].key, val |-> req[t].val]
    BY <2>1, <2>2 DEF OwnedNode
  <2>4. QED
    BY <2>2, <2>3, InCall
<1>4. ContentsAre /\ ContentsAre'
  BY LinkedContents, PTL
<1>5. Replace(t) => node[t] \in Node /\ data[node[t]].key = req[t].key
  BY DEF Replace, WantsReplace, SameKey, SawData
<1>6. ~PushDown(t) => FillEmpty(t) \/ Replace(t) \/ Split(t)
  BY DEF Cas
<1>7. ASSUME NEW k \in Key, ~PushDown(t), k = req[t].key
      PROVE  Contents'[k] = req[t].val
  <2>1. PICK a \in Node : a = ptr[t]
    BY <1>3
  <2>2. Linked(a)'
    BY <1>6, <1>7, <2>1, CasLinks
  <2>3. data'[a].key = k /\ data'[a].val = req[t].val
    BY <1>1, <1>3, <1>7, <2>1
  <2>4. QED
    BY <1>4, <1>7, <2>2, <2>3 DEF ContentsAre, LinkedWith
<1>8. ASSUME NEW k \in Key, PushDown(t) \/ k # req[t].key
      PROVE  Contents'[k] = Contents[k]
  <2>1. \A a \in Node : LinkedWith(a, k)' <=> LinkedWith(a, k)
    BY <1>1, <1>3, <1>5, <1>8, CasLinks DEF Cas, LinkedWith
  <2>2. QED
    BY <1>1, <1>4, <2>1 DEF ContentsAre
<1>9. QED
  BY <1>7, <1>8

(* The data of a node that a call has pinned changes in no step.           *)
LEMMA PinnedDataStays ==
  ASSUME IInv, Next, NEW u \in Thread, pc[u] = "act", node[u] \in Node
  PROVE  data'[node[u]] = data[node[u]]
<1>1. /\ data[node[u]] # FREE /\ hazard[u] = node[u]
      /\ node[u] \in retired \/ Linked(node[u])
  BY DEF IInv, Position
<1>2. CASE Linked(node[u])
  BY <1>2, LinkedDataStays
<1>3. CASE node[u] \in retired
  <2>1. ASSUME NEW t \in Thread, CallInsert(t)
        PROVE  data'[node[u]] = data[node[u]]
    BY <1>1, <2>1 DEF CallInsert, IInv, TypeOK
  <2>2. ASSUME NEW t \in Thread, RefuseAbsent(t) \/ RefusePresent(t)
        PROVE  data'[node[u]] = data[node[u]]
    <3>1. Inserting(t) /\ LeaveEmptyHanded(t)
      BY <2>2 DEF RefuseAbsent, RefusePresent
    <3>2. ptr[t] # node[u]
      BY <1>3, <3>1, NewNode
    <3>3. QED
      BY <3>1, <3>2 DEF LeaveEmptyHanded, IInv, TypeOK
  <2>3. ASSUME NEW a \in Node, Reclaim(a)
        PROVE  data'[node[u]] = data[node[u]]
    BY <1>1, <2>3 DEF Reclaim, IInv, TypeOK
  <2>4. ASSUME NEW t \in Thread, CallFind(t) \/ Step(t), ~RefuseAbsent(t), ~RefusePresent(t)
        PROVE  data' = data
    BY <2>4 DEF Step, InsertStep, CallFind, Return, RepinLoad, RepinPublish, RepinValidate,
       FindReturn, FindDescend, InsertDescend, FillEmpty, Replace, Split, SplitLost,
       PushDown, Retry, GiveUp
  <2>5. QED
    BY <2>1, <2>2, <2>3, <2>4 DEF Next
<1>4. QED
  BY <1>1, <1>2, <1>3

(* What Find answers.                                                      *)
LEMMA PinnedValue ==
  ASSUME IInv, NEW t \in Thread, Finding(t)
  PROVE  FindAnswer(t) \in Value \cup {ABSENT}
<1>1. ASSUME SawData(t)
      PROVE  data[node[t]].val \in Value
  BY <1>1 DEF IInv, TypeOK, Position, SawData, Finding
<1>2. QED
  BY <1>1 DEF FindAnswer

-----------------------------------------------------------------------------
(* The steps of a thread leave the locals of the others alone.             *)

Others(t) ==
  \A u \in Thread \ {t} :
    /\ pc'[u] = pc[u] /\ req'[u] = req[u] /\ depth'[u] = depth[u]
    /\ node'[u] = node[u] /\ ret'[u] = ret[u]

LEMMA OthersStay ==
  ASSUME IInv, NEW t \in Thread, CallFind(t) \/ CallInsert(t) \/ Step(t)
  PROVE  Others(t)
<1> USE DEF IInv, TypeOK, Goto, Restart, Leave, Others
<1>1. CASE CallFind(t) \/ CallInsert(t) \/ Return(t)
  BY <1>1 DEF CallFind, CallInsert, Return
<1>2. CASE RepinLoad(t) \/ RepinPublish(t) \/ RepinValidate(t)
  BY <1>2 DEF RepinLoad, RepinPublish, RepinValidate
<1>3. CASE FindReturn(t) \/ FindDescend(t) \/ InsertDescend(t) \/ Retry(t) \/ GiveUp(t)
  BY <1>3 DEF FindReturn, FindDescend, InsertDescend, Retry, GiveUp, locals
<1>4. CASE RefuseAbsent(t) \/ RefusePresent(t)
  BY <1>4 DEF RefuseAbsent, RefusePresent, LeaveEmptyHanded
<1>5. CASE FillEmpty(t) \/ Replace(t) \/ Split(t) \/ SplitLost(t) \/ PushDown(t)
  BY <1>5 DEF FillEmpty, Replace, Split, SplitLost, PushDown
<1>6. QED
  BY <1>1, <1>2, <1>3, <1>4, <1>5 DEF Step, InsertStep

LEMMA ReclaimStays ==
  ASSUME NEW a \in Node, Reclaim(a)
  PROVE  /\ UNCHANGED <<slot, pc, req, depth, node, ret, raced>>
         /\ \A t \in Thread : Others(t)
BY DEF Reclaim, locals, Others

(* A compare_exchange races with the calls that have read its slot, and    *)
(* ends the caller's round.                                                *)
LEMMA CasRaces ==
  ASSUME IInv, NEW t \in Thread, Cas(t)
  PROVE  /\ pc[t] = "act" /\ pc'[t] \in {"load", "done"} /\ req'[t] = req[t]
         /\ RaceOthers(t) /\ req' = req
         /\ \A u \in Thread \ {t} :
              /\ raced[u] => raced'[u]
              /\ pc[u] = "act" /\ NodePtr(u) = NodePtr(t) => raced'[u]
<1>1. /\ pc[t] = "act" /\ pc'[t] \in {"load", "done"} /\ req'[t] = req[t]
      /\ RaceOthers(t) /\ req' = req
  BY DEF Cas, FillEmpty, Replace, Split, PushDown, WantsEmpty, WantsReplace, WantsSplit,
     Inserting, Leave, Goto, IInv, TypeOK
<1>2. QED
  BY <1>1 DEF RaceOthers, Reading, IInv, TypeOK

(* It changes no other slot but empty ones.                                *)
LEMMA CasElsewhere ==
  ASSUME IInv, NEW t \in Thread, Cas(t), NEW r \in Slot, r # NodePtr(t), slot[r] # NULL
  PROVE  slot'[r] = slot[r]
<1>1. CASE FillEmpty(t) \/ Replace(t)
  BY <1>1 DEF FillEmpty, Replace, IInv, TypeOK
<1>2. CASE Split(t) \/ PushDown(t)
  <2>1. /\ WantsSplit(t) /\ CasSucceeds(t) /\ Inserting(t) /\ SawData(t)
        /\ data[node[t]].key \in Key /\ req[t].key \in Key
    BY <1>2, NewNode, InCall, OtherData DEF Split, PushDown, WantsSplit
  <2>2. /\ Child(NodePtr(t), TmpIdx(t)) # r
        /\ Child(NodePtr(t), NextIdx(t)) # r
    BY <2>1, SplitSlots
  <2>3. QED
    BY <1>2, <2>2 DEF Split, PushDown, IInv, TypeOK
<1>3. QED
  BY <1>1, <1>2 DEF Cas

(* In the other steps no call in progress becomes raced.                   *)
LEMMA OnlyCasRaces ==
  ASSUME IInv, NEW t \in Thread, CallFind(t) \/ CallInsert(t) \/ Step(t), ~Cas(t)
  PROVE  /\ slot' = slot
         /\ raced' = raced \/ raced' = [raced EXCEPT ![t] = FALSE]
         /\ \A u \in Thread \ {t} : raced'[u] = raced[u]
<1>1. slot' = slot /\ (raced' = raced \/ raced' = [raced EXCEPT ![t] = FALSE])
  BY DEF Cas, CallFind, CallInsert, Step, InsertStep, Return, RepinLoad, RepinPublish,
     RepinValidate, FindReturn, FindDescend, InsertDescend, RefuseAbsent, RefusePresent,
     SplitLost, Retry, GiveUp, Restart
<1>2. QED
  BY <1>1 DEF IInv, TypeOK

-----------------------------------------------------------------------------
(* RInv is inductive.                                                      *)

LEMMA InitRInv == Init => RInv
<1> SUFFICES ASSUME Init PROVE RInv
  OBVIOUS
<1>1. IInv
  BY InitInv
<1>2. \A t \in Thread : Calls(t) /\ Found(t) /\ Kept(t)
  BY DEF Init, Calls, Found, Kept
<1>3. QED
  BY <1>1, <1>2 DEF RInv

(* The answer of a call is no PENDING, and there is one when it is done.   *)
LEMMA CallsNext ==
  ASSUME IInv, NEW t \in Thread, CallFind(t) \/ CallInsert(t) \/ Step(t), Calls(t)
  PROVE  Calls(t)'
<1> USE DEF IInv, TypeOK, Goto, Restart, Leave, Calls
<1>1. CASE CallFind(t) \/ CallInsert(t) \/ Return(t)
  BY <1>1 DEF CallFind, CallInsert, Return
<1>2. CASE RepinLoad(t) \/ RepinPublish(t) \/ RepinValidate(t)
  BY <1>2 DEF RepinLoad, RepinPublish, RepinValidate
<1>3. CASE FindDescend(t) \/ InsertDescend(t) \/ Retry(t) \/ GiveUp(t) \/ PushDown(t)
  <2>1. pc[t] = "act"
    BY <1>3 DEF FindDescend, InsertDescend, Retry, GiveUp, PushDown, Finding, Inserting,
       WantsEmpty, WantsReplace, WantsSplit
  <2>2. ret' = ret /\ req' = req /\ pc'[t] \in {"act", "load"}
    BY <1>3, <2>1 DEF FindDescend, InsertDescend, Retry, GiveUp, PushDown, locals
  <2>3. QED
    BY <2>1, <2>2
<1>4. CASE FindReturn(t)
  <2>1. FindAnswer(t) \in Value \cup {ABSENT}
    BY <1>4, PinnedValue DEF FindReturn
  <2>2. QED
    BY <1>4, <2>1 DEF FindReturn
<1>5. CASE RefuseAbsent(t) \/ RefusePresent(t)
  BY <1>5 DEF RefuseAbsent, RefusePresent, LeaveEmptyHanded
<1>6. CASE FillEmpty(t) \/ Replace(t) \/ Split(t) \/ SplitLost(t)
  BY <1>6 DEF FillEmpty, Replace, Split, SplitLost
<1>7. QED
  BY <1>1, <1>2, <1>3, <1>4, <1>5, <1>6 DEF Step, InsertStep

(* How a call comes to hold a node: it has just seen it in its slot, or it *)
(* has held it before.                                                     *)
LEMMA HowFound ==
  ASSUME IInv, NEW t \in Thread, CallFind(t) \/ CallInsert(t) \/ Step(t),
         pc'[t] = "act", node'[t] \in Node
  PROVE  /\ pc[t] \in {"act", "validate"}
         /\ pc[t] = "validate" => slot[NodePtr(t)] = node[t]
         /\ node'[t] = node[t] /\ req'[t] = req[t] /\ depth'[t] = depth[t]
         /\ slot' = slot /\ raced' = raced
<1> USE DEF IInv, TypeOK, Goto, Restart, Leave
<1>1. CASE CallFind(t) \/ CallInsert(t) \/ Return(t)
  BY <1>1 DEF CallFind, CallInsert, Return
<1>2. CASE RepinLoad(t) \/ RepinPublish(t)
  BY <1>2 DEF RepinLoad, RepinPublish
<1>3. CASE RepinValidate(t)
  BY <1>3 DEF RepinValidate
<1>4. CASE FindReturn(t) \/ FindDescend(t) \/ InsertDescend(t) \/ Retry(t) \/ PushDown(t)
  BY <1>4 DEF FindReturn, FindDescend, InsertDescend, Retry, PushDown
<1>5. CASE GiveUp(t)
  BY <1>5 DEF GiveUp, Inserting, locals
<1>6. CASE RefuseAbsent(t) \/ RefusePresent(t)
  BY <1>6 DEF RefuseAbsent, RefusePresent, LeaveEmptyHanded
<1>7. CASE FillEmpty(t) \/ Replace(t) \/ Split(t) \/ SplitLost(t)
  BY <1>7 DEF FillEmpty, Replace, Split, SplitLost
<1>8. QED
  BY <1>1, <1>2, <1>3, <1>4, <1>5, <1>6, <1>7 DEF Step, InsertStep

(* The key of a node that a call sees in its slot is present.              *)
LEMMA SeenIsPresent ==
  ASSUME IInv, NEW a \in Node, Linked(a)
  PROVE  data[a].key \in Key /\ Present(data[a].key)
BY LinkedHolds DEF Linked, Present

(* Whoever has found a node still knows what it knew after a step.         *)
LEMMA FoundKept ==
  ASSUME IInv, Next, NEW t \in Thread,
         pc[t] = "act" \/ (pc[t] = "validate" /\ slot[NodePtr(t)] = node[t]),
         pc[t] = "act" => Found(t),
         node[t] \in Node, node'[t] = node[t], req'[t] = req[t], depth'[t] = depth[t],
         \/ raced'[t]
         \/ slot'[NodePtr(t)] = slot[NodePtr(t)] /\ (raced[t] => raced'[t])
  PROVE  Found(t)'
<1>1. /\ NodePtr(t) \in Slot /\ NodePtr(t)' = NodePtr(t)
      /\ data[node[t]].key \in Key /\ Present(data[node[t]].key)
      /\ data'[node[t]] = data[node[t]]
  <2>1. NodePtr(t) \in Slot /\ NodePtr(t)' = NodePtr(t)
    BY InCall DEF NodePtr
  <2>2. CASE pc[t] = "act"
    <3>1. data[node[t]] # FREE
      BY <2>2 DEF IInv, Position
    <3>2. data[node[t]].key \in Key
      BY <3>1 DEF IInv, TypeOK
    <3>3. QED
      BY <2>1, <2>2, <3>2, PinnedDataStays DEF Found
  <2>3. CASE pc[t] = "validate" /\ slot[NodePtr(t)] = node[t]
    <3>1. Linked(node[t])
      BY <2>1, <2>3 DEF Linked
    <3>2. QED
      BY <2>1, <3>1, SeenIsPresent, LinkedDataStays
  <2>4. QED
    BY <2>2, <2>3
<1>2. Present(data[node[t]].key)'
  <2> DEFINE k == data[node[t]].key
  <2>1. \A j \in Key : Present(j) => Present(j)'
    BY KeyStays
  <2>2. ASSUME NEW j \in Key, j = k
        PROVE  /\ Present(j)'
               /\ data'[node'[t]].key = j
    BY <1>1, <2>1, <2>2
  <2>3. PICK j \in Key : j = k
    BY <1>1
  <2>4. Present(j)' /\ data'[node'[t]].key = j
    BY <2>2, <2>3
  <2>5. QED
    BY <2>4
<1>3. slot'[NodePtr(t)'] # node'[t] => raced'[t]
  BY <1>1 DEF Found
<1>4. QED
  BY <1>2, <1>3 DEF Found

LEMMA FoundNext ==
  ASSUME IInv, Next, NEW t \in Thread, CallFind(t) \/ CallInsert(t) \/ Step(t),
         \A u \in Thread : Found(u)
  PROVE  \A u \in Thread : Found(u)'
<1>1. ASSUME pc'[t] = "act", node'[t] \in Node
      PROVE  Found(t)'
  <2>1. /\ pc[t] = "act" \/ (pc[t] = "validate" /\ slot[NodePtr(t)] = node[t])
        /\ node[t] \in Node /\ node'[t] = node[t] /\ req'[t] = req[t] /\ depth'[t] = depth[t]
        /\ slot' = slot /\ raced'[t] = raced[t]
    BY <1>1, HowFound
  <2>2. QED
    BY <2>1, FoundKept
<1>2. Found(t)'
  BY <1>1 DEF Found
<1>3. ASSUME NEW u \in Thread \ {t}, pc'[u] = "act", node'[u] \in Node
      PROVE  Found(u)'
  <2>1. /\ pc[u] = "act" /\ node[u] \in Node /\ req[u] # NULL
        /\ node'[u] = node[u] /\ req'[u] = req[u] /\ depth'[u] = depth[u]
    BY <1>3, OthersStay, InCall DEF Others
  <2>2. CASE Cas(t)
    <3>1. /\ raced[u] => raced'[u]
          /\ NodePtr(u) = NodePtr(t) => raced'[u]
      BY <2>1, <2>2, CasRaces
    <3>2. slot[NodePtr(u)] # node[u] => raced[u]
      BY <2>1 DEF Found
    <3>3. NodePtr(u) \in Slot /\ node[u] # NULL
      BY <2>1, InCall, PointerAssumption
    <3>4. raced'[u] \/ slot'[NodePtr(u)] = slot[NodePtr(u)]
      BY <2>2, <3>1, <3>2, <3>3, CasElsewhere
    <3>5. QED
      BY <2>1, <3>1, <3>4, FoundKept
  <2>3. CASE ~Cas(t)
    <3>1. slot' = slot /\ raced'[u] = raced[u]
      BY <2>3, OnlyCasRaces
    <3>2. QED
      BY <2>1, <3>1, FoundKept
  <2>4. QED
    BY <2>2, <2>3
<1>4. ASSUME NEW u \in Thread \ {t}
      PROVE  Found(u)'
  BY <1>3 DEF Found
<1>5. QED
  BY <1>2, <1>4

(* An insert that loses its value has been raced, for the node it found    *)
(* has left its slot since.                                                *)
LEMMA LostIsRaced ==
  ASSUME IInv, NEW t \in Thread, Found(t), SplitLost(t)
  PROVE  /\ raced[t]
         /\ \E j \in Key \ {req[t].key} : Contents[j] # ABSENT
<1>1. /\ Inserting(t) /\ SawData(t) /\ ~SameKey(t) /\ slot[NodePtr(t)] # node[t]
      /\ pc[t] = "act" /\ node[t] \in Node
  BY DEF SplitLost, WantsSplit, CasSucceeds, Inserting, SawData
<1>2. data[node[t]].key \in Key \ {req[t].key}
  BY <1>1, OtherData DEF SameKey
<1>3. Contents[data[node[t]].key] # ABSENT
  BY <1>1, <1>2, PresentIsIn DEF Found
<1>4. QED
  BY <1>1, <1>2, <1>3 DEF Found

(* The key of an insert that was not lost stays.                           *)
LEMMA KeptNext ==
  ASSUME IInv, IInv', Next, NEW t \in Thread, CallFind(t) \/ CallInsert(t) \/ Step(t),
         \A u \in Thread : Found(u) /\ Kept(u)
  PROVE  \A u \in Thread : Kept(u)'
<1>1. ASSUME NEW u \in Thread \ {t}, pc[u] = "done", pc'[u] = "done",
             req'[u] = req[u], ret'[u] = ret[u]
      PROVE  Kept(u)'
  <2>1. req[u].key \in Key
    BY <1>1, InCall
  <2>2. raced[u] => raced'[u]
    BY CasRaces, OnlyCasRaces
  <2>3. \A k \in Key : Present(k) => Present(k)'
    BY KeyStays
  <2>4. ASSUME NEW k \in Key, k = req[u].key, Present(k)'
        PROVE  Present(req[u].key)'
    BY <1>1, <2>4
  <2>5. QED
    BY <1>1, <2>1, <2>2, <2>3, <2>4 DEF Kept
<1>2. ASSUME NEW u \in Thread \ {t}
      PROVE  Kept(u)'
  <2>1. pc'[u] = pc[u] /\ req'[u] = req[u] /\ ret'[u] = ret[u]
    BY OthersStay DEF Others
  <2>2. QED
    BY <1>1, <2>1 DEF Kept
<1>3. (\A k \in Key : Present(k) <=> Contents[k] # ABSENT)'
  BY PresentIsIn, PTL
<1>4. Kept(t)'
  <2> USE DEF IInv, TypeOK, Goto, Restart, Leave
  <2>1. CASE Cas(t)
    <3>1. CASE PushDown(t)
      BY <3>1 DEF PushDown, Kept
    <3>2. CASE ~PushDown(t)
      <4>1. req' = req /\ Inserting(t)
        BY <2>1, CasRaces DEF Cas, FillEmpty, Replace, Split, PushDown, WantsEmpty,
           WantsReplace, WantsSplit
      <4>2. req[t].key \in Key /\ req[t].val \in Value
        BY <4>1, InCall DEF Inserting, InsertRequest
      <4>3. Contents'[req[t].key] = req[t].val
        BY <2>1, <3>2, <4>2, CasContents
      <4>4. ASSUME NEW k \in Key, k = req[t].key
            PROVE  Present(req[t].key)'
        BY <1>3, <4>1, <4>2, <4>3, <4>4, AnswerAssumption
      <4>5. QED
        BY <4>1, <4>2, <4>4 DEF Kept
    <3>3. QED
      BY <3>1, <3>2
  <2>2. CASE SplitLost(t)
    BY <2>2, LostIsRaced DEF SplitLost, Kept
  <2>3. CASE RefuseAbsent(t) \/ RefusePresent(t)
    BY <2>3 DEF RefuseAbsent, RefusePresent, LeaveEmptyHanded, Kept
  <2>4. CASE FindReturn(t)
    BY <2>4 DEF FindReturn, Finding, Kept
  <2>5. CASE CallFind(t) \/ CallInsert(t) \/ Return(t)
    BY <2>5 DEF CallFind, CallInsert, Return, Kept
  <2>6. CASE \/ RepinLoad(t) \/ RepinPublish(t) \/ RepinValidate(t)
             \/ FindDescend(t) \/ InsertDescend(t) \/ Retry(t)
    BY <2>6 DEF RepinLoad, RepinPublish, RepinValidate, FindDescend, InsertDescend, Retry, Kept
  <2>7. CASE GiveUp(t)
    BY <2>7 DEF GiveUp, Inserting, locals, Kept
  <2>8. QED
    BY <2>1, <2>2, <2>3, <2>4, <2>5, <2>6, <2>7 DEF Step, InsertStep, Cas
<1>5. QED
  BY <1>2, <1>4

LEMMA NextRInv == RInv /\ [Next]_vars => RInv'
<1> SUFFICES ASSUME RInv, [Next]_vars PROVE RInv'
  OBVIOUS
<1>1. IInv /\ IInv'
  BY NextInv DEF RInv
<1>2. CASE UNCHANGED vars
  <2>1. /\ \A k, l : Holds(k, l)' <=> Holds(k, l)
        /\ \A k : Present(k)' <=> Present(k)
        /\ \A k : ValueOf(k)' = ValueOf(k)
    BY <1>2 DEF vars, Holds, Present, ValueOf
  <2>2. Contents' = Contents
    BY <2>1 DEF Contents
  <2>3. \A t \in Thread : Calls(t)' /\ Found(t)' /\ Kept(t)'
    BY <1>2, <2>1, <2>2 DEF RInv, vars, locals, Calls, Found, Kept, NodePtr
  <2>4. QED
    BY <1>1, <2>3 DEF RInv
<1>3. ASSUME Next, NEW t \in Thread, CallFind(t) \/ CallInsert(t) \/ Step(t)
      PROVE  RInv'
  <2>1. \A u \in Thread : Found(u)' /\ Kept(u)'
    BY <1>1, <1>3, FoundNext, KeptNext DEF RInv
  <2>2. Calls(t)'
    BY <1>1, <1>3, CallsNext DEF RInv
  <2>3. \A u \in Thread \ {t} : Calls(u)'
    BY <1>1, <1>3, OthersStay DEF RInv, Calls, Others
  <2>4. QED
    BY <1>1, <2>1, <2>2, <2>3 DEF RInv
<1>4. ASSUME Next, NEW a \in Node, Reclaim(a)
      PROVE  RInv'
  <2>1. UNCHANGED <<slot, pc, req, depth, node, ret, raced>>
    BY <1>4, ReclaimStays
  <2>2. \A t \in Thread : Calls(t)'
    BY <2>1 DEF RInv, Calls
  <2>3. ASSUME NEW t \in Thread
        PROVE  Found(t)'
    <3>1. CASE pc[t] = "act" /\ node[t] \in Node
      BY <1>1, <1>4, <2>1, <3>1, FoundKept DEF RInv
    <3>2. CASE ~(pc[t] = "act" /\ node[t] \in Node)
      BY <2>1, <3>2 DEF Found
    <3>3. QED
      BY <3>1, <3>2
  <2>4. ASSUME NEW t \in Thread
        PROVE  Kept(t)'
    <3>1. pc[t] = "done" => req[t].key \in Key
      BY <1>1, InCall
    <3>2. \A k \in Key : Present(k) => Present(k)'
      BY <1>1, <1>4, KeyStays
    <3>3. ASSUME NEW k \in Key, k = req[t].key, Present(k)'
          PROVE  Present(req[t].key)'
      BY <2>1, <3>3
    <3>4. QED
      BY <2>1, <3>1, <3>2, <3>3 DEF RInv, Kept
  <2>5. QED
    BY <1>1, <2>2, <2>3, <2>4 DEF RInv
<1>5. QED
  BY <1>2, <1>3, <1>4 DEF Next

LEMMA RInvariance == Spec => []RInv
BY InitRInv, NextRInv, PTL DEF Spec

(* An insert that returned true is in the map, unless another thread's     *)
(* compare_exchange changed its slot between its last Repin of that slot   *)
(* and its own compare_exchange there.                                     *)
THEOREM UndisturbedInsertStays == Spec => []UndisturbedInsertKept
<1>1. ASSUME RInv PROVE UndisturbedInsertKept
  BY <1>1 DEF RInv, Kept, UndisturbedInsertKept
<1>2. QED
  BY <1>1, RInvariance, PTL

-----------------------------------------------------------------------------
(* Each step is one of ConcurrentMap's, or changes nothing it knows of.    *)

LEMMA SameContents ==
  ASSUME IInv, IInv', Next, slot' = slot
  PROVE  Contents' = Contents
BY SameSlots DEF Contents

(* The answer of a call that does not move stays, for the node it answers  *)
(* from is pinned.                                                         *)
LEMMA AnswerStays ==
  ASSUME IInv, Next, NEW u \in Thread,
         pc'[u] = pc[u], req'[u] = req[u], node'[u] = node[u], ret'[u] = ret[u]
  PROVE  AbstractAnswer'[u] = AbstractAnswer[u]
<1>1. Decided(u)' <=> Decided(u)
  BY DEF Decided
<1>2. ASSUME Decided(u)
      PROVE  FindAnswer(u)' = FindAnswer(u)
  BY <1>2, PinnedDataStays DEF Decided, FindAnswer, SawData, SameKey
<1>3. QED
  BY <1>1, <1>2 DEF AbstractAnswer

LEMMA AnswersOfOthers ==
  ASSUME IInv, Next, NEW t \in Thread, CallFind(t) \/ CallInsert(t) \/ Step(t)
  PROVE  /\ \A x : AbstractAnswer'[t] = x => Map!Answer(t, x)
         /\ AbstractAnswer'[t] = AbstractAnswer[t] => AbstractAnswer' = AbstractAnswer
<1>1. \A u \in Thread \ {t} : AbstractAnswer'[u] = AbstractAnswer[u]
  BY OthersStay, AnswerStays DEF Others
<1>2. /\ AbstractAnswer = [u \in Thread |-> AbstractAnswer[u]]
      /\ AbstractAnswer' = [u \in Thread |-> AbstractAnswer'[u]]
  BY DEF AbstractAnswer
<1> DEFINE f == AbstractAnswer
           g == AbstractAnswer'
<1>3. f = [u \in Thread |-> f[u]] /\ g = [u \in Thread |-> g[u]]
  BY <1>2
<1>4. \A u \in Thread \ {t} : g[u] = f[u]
  BY <1>1
<1> HIDE DEF f, g
<1>5. \A x : g[t] = x => g = [f EXCEPT ![t] = x]
  BY <1>3, <1>4
<1>6. g[t] = f[t] => g = f
  BY <1>3, <1>4
<1>7. QED
  BY <1>5, <1>6 DEF f, g, Map!Answer

(* A step that a caller cannot tell from doing nothing.                    *)
LEMMA Stutters ==
  ASSUME IInv, IInv', Next, NEW t \in Thread, CallFind(t) \/ CallInsert(t) \/ Step(t),
         UNCHANGED <<slot, req, raced>>, AbstractAnswer'[t] = AbstractAnswer[t]
  PROVE  UNCHANGED Map!mapVars
BY SameContents, AnswersOfOthers DEF Map!mapVars

(* A call that has not taken effect has no answer yet.                     *)
LEMMA Undecided ==
  ASSUME RInv, NEW t \in Thread, pc[t] # "done", ~Decided(t)
  PROVE  AbstractAnswer[t] = PENDING /\ (pc[t] # "idle" => Map!Pending(t))
BY InCall DEF RInv, Calls, AbstractAnswer, Map!Pending

LEMMA CallRefines ==
  ASSUME RInv, RInv', Next, NEW t \in Thread, CallFind(t) \/ CallInsert(t)
  PROVE  Map!Invoke(t)
<1> USE DEF RInv, IInv, TypeOK
<1>1. /\ pc[t] = "idle" /\ pc'[t] = "load" /\ ret' = ret /\ raced' = raced /\ slot' = slot
      /\ \E r \in Request : req' = [req EXCEPT ![t] = r]
  BY DEF CallFind, CallInsert, Goto, Request
<1>2. req[t] = NULL /\ ret[t] = PENDING
  BY <1>1 DEF Calls
<1>3. AbstractAnswer'[t] = AbstractAnswer[t]
  BY <1>1, <1>2 DEF AbstractAnswer, Decided
<1>4. Contents' = Contents /\ AbstractAnswer' = AbstractAnswer
  BY <1>1, <1>3, SameContents, AnswersOfOthers
<1>5. Map!Request = Request
  BY DEF Map!Request, Request, Map!FindRequest, FindRequest, Map!InsertRequest, InsertRequest,
     Map!InsertType, InsertType
<1>6. QED
  BY <1>1, <1>2, <1>4, <1>5 DEF Map!Invoke

LEMMA ReturnRefines ==
  ASSUME RInv, RInv', Next, NEW t \in Thread, Return(t)
  PROVE  Map!Return(t)
<1> USE DEF RInv, IInv, TypeOK
<1>1. /\ pc[t] = "done" /\ pc'[t] = "idle" /\ slot' = slot
      /\ req' = [req EXCEPT ![t] = NULL] /\ ret'[t] = PENDING
      /\ raced' = [raced EXCEPT ![t] = FALSE]
  BY DEF Return, Goto
<1>2. req[t] # NULL /\ ret[t] # PENDING
  BY <1>1, InCall DEF Calls
<1>3. AbstractAnswer[t] # PENDING /\ AbstractAnswer'[t] = PENDING
  BY <1>1, <1>2 DEF AbstractAnswer, Decided
<1>4. Contents' = Contents /\ Map!Answer(t, PENDING)
  BY <1>1, <1>3, SameContents, AnswersOfOthers DEF Step
<1>5. QED
  BY <1>1, <1>2, <1>3, <1>4 DEF Map!Return

(* A call at a slot that holds no node of its key, nor an array, is at the *)
(* end of the path of its key.                                             *)
LEMMA PathEnds ==
  ASSUME IInv, NEW t \in Thread, Busy(t), slot[NodePtr(t)] # ARRAY,
         slot[NodePtr(t)] \in Node => data[slot[NodePtr(t)]].key # req[t].key
  PROVE  Contents[req[t].key] = ABSENT
<1>1. /\ req[t].key \in Key /\ depth[t] \in Level
      /\ NodePtr(t) = SlotOf[req[t].key][depth[t]]
  BY InCall DEF Busy
<1>2. \A m \in Level : m < depth[t] => slot[SlotOf[req[t].key][m]] = ARRAY
  BY DEF IInv, Position
<1>3. QED
  BY <1>1, <1>2, NotOnPath

(* The load that finds a slot empty is where a Find, or an insert that     *)
(* must find something, takes effect.                                      *)
LEMMA LoadRefines ==
  ASSUME RInv, RInv', Next, NEW t \in Thread, RepinLoad(t)
  PROVE  [Map!Next]_Map!mapVars
<1> USE DEF RInv, IInv, TypeOK
<1> DEFINE np == NodePtr(t)
           k == req[t].key
<1>1. /\ pc[t] = "load" /\ pc'[t] = (IF slot[np] \in Node THEN "pin" ELSE "act")
      /\ node'[t] = slot[np] /\ UNCHANGED <<slot, data, req, ret, raced>>
  BY DEF RepinLoad, Goto
<1>2. np \in Slot /\ k \in Key /\ Busy(t) /\ req[t].op \in {"Find", "Insert"} /\ ret[t] = PENDING
  BY <1>1, InCall DEF Busy, Calls
<1>3. AbstractAnswer[t] = PENDING /\ Map!Pending(t)
  BY <1>1, Undecided DEF Decided
<1>4. Contents' = Contents
  BY <1>1, SameContents
<1>5. Step(t)
  BY DEF Step
<1>6. CASE Decided(t)'
  <2>1. slot[np] = NULL /\ (req[t].op = "Insert" => req[t].type = "MUST_EXIST")
    BY <1>1, <1>2, <1>6 DEF Decided
  <2>2. Contents[k] = ABSENT
    BY <1>2, <2>1, PathEnds
  <2>3. CASE req[t].op = "Find"
    <3>1. AbstractAnswer'[t] = ABSENT
      BY <1>1, <1>6, <2>1, <2>3 DEF AbstractAnswer, FindAnswer, SawData
    <3>2. Map!Lookup(t)
      BY <1>1, <1>3, <1>4, <1>5, <2>2, <2>3, <3>1, AnswersOfOthers DEF Map!Lookup
    <3>3. QED
      BY <3>2 DEF Map!Next
  <2>4. CASE req[t].op = "Insert"
    <3>1. AbstractAnswer'[t] = FALSE
      BY <1>1, <1>6, <2>4 DEF AbstractAnswer
    <3>2. Map!Refuse(t)
      BY <1>1, <1>3, <1>4, <1>5, <2>1, <2>2, <2>4, <3>1, AnswersOfOthers
         DEF Map!Refuse, Map!PendingInsert
    <3>3. QED
      BY <3>2 DEF Map!Next
  <2>5. QED
    BY <1>2, <2>3, <2>4
<1>7. CASE ~Decided(t)'
  <2>1. AbstractAnswer'[t] = PENDING
    BY <1>1, <1>2, <1>7 DEF AbstractAnswer
  <2>2. QED
    BY <1>1, <1>3, <1>5, <2>1, Stutters
<1>8. QED
  BY <1>6, <1>7

(* A Find takes effect when it sees that the node it published is still in *)
(* the slot.                                                               *)
LEMMA ValidateRefines ==
  ASSUME RInv, RInv', Next, NEW t \in Thread, RepinValidate(t)
  PROVE  [Map!Next]_Map!mapVars
<1> USE DEF RInv, IInv, TypeOK
<1> DEFINE np == NodePtr(t)
           k == req[t].key
<1>1. /\ pc[t] = "validate" /\ pc'[t] = (IF slot[np] = node[t] THEN "act" ELSE "load")
      /\ UNCHANGED <<slot, data, req, node, ret>>
      /\ slot[np] = node[t] => raced' = raced
      /\ slot[np] # node[t] => raced' = [raced EXCEPT ![t] = FALSE]
  BY DEF RepinValidate, Restart, Goto
<1>2. /\ np \in Slot /\ k \in Key /\ Busy(t) /\ req[t].op \in {"Find", "Insert"}
      /\ ret[t] = PENDING /\ node[t] \in Node
  BY <1>1, InCall DEF Busy, Calls, Position
<1>3. AbstractAnswer[t] = PENDING /\ Map!Pending(t)
  BY <1>1, Undecided DEF Decided
<1>4. Contents' = Contents
  BY <1>1, SameContents
<1>5. Step(t)
  BY DEF Step
<1>6. CASE Decided(t)'
  <2>1. slot[np] = node[t] /\ req[t].op = "Find"
    BY <1>1, <1>2, <1>6 DEF Decided
  <2>2. AbstractAnswer'[t] = IF data[node[t]].key = k THEN data[node[t]].val ELSE ABSENT
    BY <1>1, <1>2, <1>6, <2>1 DEF AbstractAnswer, FindAnswer, SawData, SameKey
  <2>3. AbstractAnswer'[t] = Contents[k]
    <3>1. CASE data[node[t]].key = k
      BY <1>2, <2>1, <2>2, <3>1, LinkedIsIn DEF Linked
    <3>2. CASE data[node[t]].key # k
      BY <1>2, <2>1, <2>2, <3>2, PathEnds
    <3>3. QED
      BY <3>1, <3>2
  <2>4. Map!Lookup(t)
    BY <1>1, <1>3, <1>4, <1>5, <2>1, <2>3, AnswersOfOthers DEF Map!Lookup
  <2>5. QED
    BY <2>4 DEF Map!Next
<1>7. CASE ~Decided(t)'
  <2>1. AbstractAnswer'[t] = AbstractAnswer[t]
    BY <1>1, <1>2, <1>3, <1>7 DEF AbstractAnswer
  <2>2. CASE slot[np] = node[t]
    BY <1>1, <1>5, <2>1, <2>2, Stutters
  <2>3. CASE slot[np] # node[t]
    <3>1. Map!Restart(t)
      BY <1>1, <1>3, <1>4, <1>5, <2>1, <2>3, AnswersOfOthers DEF Map!Restart
    <3>2. QED
      BY <3>1 DEF Map!Next
  <2>4. QED
    BY <2>2, <2>3
<1>8. QED
  BY <1>6, <1>7

(* A call that starts over has not been decided.                           *)
LEMMA RestartRefines ==
  ASSUME RInv, RInv', Next, NEW t \in Thread,
         FindDescend(t) \/ InsertDescend(t) \/ Retry(t)
  PROVE  Map!Restart(t)
<1> USE DEF RInv, IInv, TypeOK
<1>1. /\ Step(t) /\ pc[t] = "act" /\ pc'[t] = "load" /\ ret' = ret
      /\ UNCHANGED <<slot, req>> /\ raced' = [raced EXCEPT ![t] = FALSE]
  BY DEF Step, InsertStep, FindDescend, InsertDescend, Retry, Restart, Goto, Finding,
     Inserting, WantsEmpty, WantsReplace, WantsSplit
<1>2. ~Decided(t)
  BY DEF FindDescend, InsertDescend, Retry, Finding, Inserting, WantsEmpty, WantsReplace,
     WantsSplit, SawData, Decided
<1>3. Map!Pending(t)
  BY <1>1, <1>2, Undecided
<1>4. AbstractAnswer'[t] = AbstractAnswer[t]
  BY <1>1, <1>2 DEF Decided, AbstractAnswer
<1>5. Contents' = Contents /\ AbstractAnswer' = AbstractAnswer
  BY <1>1, <1>4, SameContents, AnswersOfOthers
<1>6. QED
  BY <1>1, <1>3, <1>5 DEF Map!Restart

(* What happens after a call was decided, and before it is, is its own     *)
(* affair.                                                                 *)
LEMMA OwnStepsStutter ==
  ASSUME RInv, RInv', Next, NEW t \in Thread,
         RepinPublish(t) \/ FindReturn(t) \/ RefuseAbsent(t) \/ GiveUp(t)
  PROVE  UNCHANGED Map!mapVars
<1> USE DEF RInv, IInv, TypeOK, Goto, Leave
<1>1. Step(t) /\ UNCHANGED <<slot, req, raced>>
  BY DEF Step, InsertStep, RepinPublish, FindReturn, RefuseAbsent, LeaveEmptyHanded,
     GiveUp, locals
<1>2. CASE FindReturn(t)
  <2>1. Decided(t) /\ ~Decided(t)' /\ ret'[t] = FindAnswer(t) /\ req[t].op = "Find"
    BY <1>2 DEF FindReturn, Finding, Decided
  <2>2. QED
    BY <1>1, <2>1, Stutters DEF AbstractAnswer
<1>3. CASE RefuseAbsent(t)
  <2>1. Decided(t) /\ ~Decided(t)' /\ ret'[t] = FALSE /\ req[t].op # "Find"
    BY <1>3 DEF RefuseAbsent, LeaveEmptyHanded, Inserting, Decided
  <2>2. QED
    BY <1>1, <2>1, Stutters DEF AbstractAnswer
<1>4. CASE GiveUp(t)
  <2>1. AbstractAnswer'[t] = AbstractAnswer[t]
    BY <1>4, AnswerStays DEF GiveUp, locals
  <2>2. QED
    BY <1>1, <2>1, Stutters
<1>5. CASE RepinPublish(t)
  <2>1. ret' = ret /\ pc'[t] # "act"
    BY <1>5 DEF RepinPublish
  <2>2. ~Decided(t)
    BY <1>5 DEF RepinPublish, Decided
  <2>3. AbstractAnswer'[t] = AbstractAnswer[t]
    BY <2>1, <2>2 DEF Decided, AbstractAnswer
  <2>4. QED
    BY <1>1, <2>3, Stutters
<1>6. QED
  BY <1>2, <1>3, <1>4, <1>5

(* What an insert that has found a node of another key, or its own, says   *)
(* of the map.                                                             *)
LEMMA FoundIsIn ==
  ASSUME RInv, NEW t \in Thread, Inserting(t), SawData(t)
  PROVE  Contents[req[t].key] # ABSENT \/ Map!OtherKeyPresent(req[t].key)
<1>1. data[node[t]].key \in Key
  BY OtherData DEF RInv
<1>2. Contents[data[node[t]].key] # ABSENT
  BY <1>1, PresentIsIn DEF RInv, Found, Inserting, SawData
<1>3. QED
  BY <1>1, <1>2 DEF Map!OtherKeyPresent

LEMMA RefusePresentRefines ==
  ASSUME RInv, RInv', Next, NEW t \in Thread, RefusePresent(t)
  PROVE  Map!Refuse(t)
<1> USE DEF RInv, IInv, TypeOK
<1>1. /\ Inserting(t) /\ SawData(t) /\ pc[t] = "act" /\ req[t].op = "Insert"
      /\ req[t].type = "DOES_NOT_EXIST" /\ UNCHANGED <<slot, req, raced>>
      /\ pc'[t] = "done" /\ ret'[t] = FALSE
  BY DEF RefusePresent, LeaveEmptyHanded, Leave, Goto, Inserting
<1>2. ~Decided(t) /\ ~Decided(t)' /\ Step(t)
  BY <1>1 DEF Decided, SawData, Step, InsertStep
<1>3. Map!PendingInsert(t)
  BY <1>1, <1>2, Undecided DEF Map!PendingInsert
<1>4. Map!Answer(t, FALSE)
  BY <1>1, <1>2, AnswersOfOthers DEF AbstractAnswer
<1>5. Contents' = Contents
  BY <1>1, SameContents
<1>6. QED
  BY <1>1, <1>3, <1>4, <1>5, FoundIsIn DEF Map!Refuse

LEMMA SplitLostRefines ==
  ASSUME RInv, RInv', Next, NEW t \in Thread, SplitLost(t)
  PROVE  Map!Lose(t)
<1> USE DEF RInv, IInv, TypeOK
<1>1. /\ SawData(t) /\ pc[t] = "act" /\ req[t].op = "Insert"
      /\ req[t].type # "DOES_NOT_EXIST" /\ UNCHANGED <<slot, req, raced>>
      /\ pc'[t] = "done" /\ ret'[t] = TRUE
  BY DEF SplitLost, WantsSplit, Leave, Goto, Inserting
<1>2. ~Decided(t) /\ ~Decided(t)' /\ Step(t)
  BY <1>1 DEF Decided, SawData, Step, InsertStep
<1>3. Map!PendingInsert(t)
  BY <1>1, <1>2, Undecided DEF Map!PendingInsert
<1>4. Map!Answer(t, TRUE)
  BY <1>1, <1>2, AnswersOfOthers DEF AbstractAnswer
<1>5. Contents' = Contents
  BY <1>1, SameContents
<1>6. QED
  BY <1>1, <1>3, <1>4, <1>5, LostIsRaced DEF Map!Lose, Map!OtherKeyPresent

(* A successful compare_exchange stores the value, or rearranges the trie. *)
LEMMA CasRefines ==
  ASSUME RInv, RInv', Next, NEW t \in Thread, Cas(t)
  PROVE  Map!Store(t) \/ Map!Rearrange(t)
<1> USE DEF RInv, IInv, TypeOK
<1> DEFINE k == req[t].key
<1>1. /\ pc[t] = "act" /\ req[t].op = "Insert" /\ req' = req /\ Map!RaceOthers(t) /\ Step(t)
      /\ Inserting(t)
  <2>1. Map!RaceOthers(t)
    BY CasRaces, InCall DEF RaceOthers, Reading, Map!RaceOthers
  <2>2. QED
    BY <2>1, CasRaces DEF Cas, Step, InsertStep, FillEmpty, Replace, Split, PushDown,
       WantsEmpty, WantsReplace, WantsSplit, Inserting
<1>2. k \in Key
  BY <1>1, InCall
<1>3. ~Decided(t)
  BY DEF Cas, FillEmpty, Replace, Split, PushDown, WantsEmpty, WantsReplace, WantsSplit,
     Inserting, SawData, Decided
<1>4. Map!PendingInsert(t)
  BY <1>1, <1>3, Undecided DEF Map!PendingInsert
<1>5. CASE PushDown(t)
  <2>1. pc'[t] = "load" /\ ret'[t] = ret[t]
    BY <1>5 DEF PushDown, Goto
  <2>2. AbstractAnswer' = AbstractAnswer
    BY <1>1, <1>3, <2>1, AnswersOfOthers DEF AbstractAnswer, Decided
  <2>3. Contents' = Contents
    BY <1>5, CasContents DEF Contents
  <2>4. QED
    BY <1>1, <1>4, <2>2, <2>3 DEF Map!Rearrange
<1>6. CASE ~PushDown(t)
  <2>1. FillEmpty(t) \/ Replace(t) \/ Split(t)
    BY <1>6 DEF Cas
  <2>2. pc'[t] = "done" /\ ret'[t] = TRUE
    BY <2>1 DEF FillEmpty, Replace, Split, Leave, Goto
  <2>3. Map!Answer(t, TRUE)
    BY <1>1, <2>2, AnswersOfOthers DEF AbstractAnswer, Decided
  <2>4. Contents' = [Contents EXCEPT ![k] = req[t].val]
    <3>1. \A j \in Key : Contents'[j] = IF j = k THEN req[t].val ELSE Contents[j]
      BY <1>6, CasContents
    <3> DEFINE f == Contents
               g == Contents'
    <3>2. f = [j \in Key |-> f[j]] /\ g = [j \in Key |-> g[j]]
      BY DEF Contents
    <3>3. \A j \in Key : g[j] = IF j = k THEN req[t].val ELSE f[j]
      BY <3>1
    <3> HIDE DEF f, g, k
    <3>4. g = [f EXCEPT ![k] = req[t].val]
      BY <1>2, <3>2, <3>3
    <3>5. QED
      BY <3>4 DEF f, g, k
  <2>5. req[t].type = "DOES_NOT_EXIST" => Contents[k] = ABSENT
    <3>1. ASSUME req[t].type = "DOES_NOT_EXIST"
          PROVE  FillEmpty(t)
      BY <2>1, <3>1 DEF Replace, Split, WantsReplace, WantsSplit
    <3>2. FillEmpty(t) => slot[NodePtr(t)] = NULL
      BY DEF FillEmpty, WantsEmpty, CasSucceeds
    <3>3. QED
      BY <1>1, <3>1, <3>2, PathEnds DEF Busy
  <2>6. req[t].type = "MUST_EXIST" => Contents[k] # ABSENT \/ Map!OtherKeyPresent(k)
    <3>1. ASSUME req[t].type = "MUST_EXIST"
          PROVE  SawData(t)
      BY <2>1, <3>1 DEF FillEmpty, Replace, Split, WantsEmpty, WantsReplace, WantsSplit
    <3>2. QED
      BY <1>1, <3>1, FoundIsIn
  <2>7. QED
    BY <1>1, <1>4, <2>3, <2>4, <2>5, <2>6 DEF Map!Store
<1>7. QED
  BY <1>5, <1>6

LEMMA InitRefines == Init => Map!Init
<1> SUFFICES ASSUME Init PROVE Map!Init
  OBVIOUS
<1>1. \A k \in Key : ~Present(k)
  BY SlotIn DEF Init, Present, Holds
<1>2. \A t \in Thread : AbstractAnswer[t] = PENDING
  BY DEF Init, AbstractAnswer, Decided
<1>3. Contents = [k \in Key |-> ABSENT] /\ AbstractAnswer = [t \in Thread |-> PENDING]
  BY <1>1, <1>2 DEF Contents, AbstractAnswer
<1>4. QED
  BY <1>3 DEF Init, Map!Init

LEMMA StepRefines ==
  ASSUME RInv, RInv', [Next]_vars
  PROVE  [Map!Next]_Map!mapVars
<1>1. CASE UNCHANGED vars
  <2>1. /\ \A k, l : Holds(k, l)' <=> Holds(k, l)
        /\ \A k : Present(k)' <=> Present(k)
        /\ \A k : ValueOf(k)' = ValueOf(k)
    BY <1>1 DEF vars, Holds, Present, ValueOf
  <2>2. Contents' = Contents
    BY <2>1 DEF Contents
  <2>3. AbstractAnswer' = AbstractAnswer
    BY <1>1 DEF vars, locals, AbstractAnswer, Decided, FindAnswer, SawData, SameKey
  <2>4. QED
    BY <1>1, <2>2, <2>3 DEF vars, locals, Map!mapVars
<1>2. ASSUME Next, NEW a \in Node, Reclaim(a)
      PROVE  UNCHANGED Map!mapVars
  <2>1. UNCHANGED <<slot, pc, req, depth, node, ret, raced>>
    BY <1>2, ReclaimStays
  <2>2. Contents' = Contents
    BY <1>2, <2>1, SameContents DEF RInv
  <2>3. \A u \in Thread : AbstractAnswer'[u] = AbstractAnswer[u]
    BY <1>2, <2>1, AnswerStays DEF RInv
  <2>4. AbstractAnswer' = AbstractAnswer
    <3> DEFINE f == AbstractAnswer
               g == AbstractAnswer'
    <3>1. f = [u \in Thread |-> f[u]] /\ g = [u \in Thread |-> g[u]]
      BY DEF AbstractAnswer
    <3>2. \A u \in Thread : f[u] = g[u]
      BY <2>3
    <3> HIDE DEF f, g
    <3>3. f = g
      BY <3>1, <3>2
    <3>4. QED
      BY <3>3 DEF f, g
  <2>5. QED
    BY <2>1, <2>2, <2>4 DEF Map!mapVars
<1>3. ASSUME Next, NEW t \in Thread, CallFind(t) \/ CallInsert(t) \/ Step(t)
      PROVE  [Map!Next]_Map!mapVars
  <2>1. CASE CallFind(t) \/ CallInsert(t)
    BY <1>3, <2>1, CallRefines DEF Map!Next
  <2>2. CASE RepinLoad(t) \/ RepinValidate(t)
    BY <1>3, <2>2, LoadRefines, ValidateRefines
  <2>3. CASE \/ RepinPublish(t) \/ FindReturn(t) \/ RefuseAbsent(t) \/ GiveUp(t)
             \/ FindDescend(t) \/ InsertDescend(t) \/ Retry(t)
    BY <1>3, <2>3, OwnStepsStutter, RestartRefines DEF Map!Next
  <2>4. CASE RefusePresent(t)
    BY <1>3, <2>4, RefusePresentRefines DEF Map!Next
  <2>5. CASE SplitLost(t)
    BY <1>3, <2>5, SplitLostRefines DEF Map!Next
  <2>6. CASE Cas(t)
    BY <1>3, <2>6, CasRefines DEF Map!Next
  <2>7. CASE Return(t)
    BY <1>3, <2>7, ReturnRefines DEF Map!Next
  <2>8. QED
    BY <1>3, <2>1, <2>2, <2>3, <2>4, <2>5, <2>6, <2>7 DEF Step, InsertStep, Cas
<1>4. QED
  BY <1>1, <1>2, <1>3 DEF Next

(* Find and Insert take effect atomically between call and return, as      *)
(* ConcurrentMap says, with exactly the exceptions it allows.              *)
THEOREM TrieImplementsMap == Spec => ImplementsMap
<1>1. RInv /\ RInv' /\ [Next]_vars => [Map!Next]_Map!mapVars
  BY StepRefines
<1>2. QED
  BY InitRefines, RInvariance, <1>1, PTL DEF Spec, ImplementsMap, Map!Spec

=============================================================================
