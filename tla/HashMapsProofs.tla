--------------------------- MODULE HashMapsProofs ---------------------------
(***************************************************************************)
(* Proofs about the implementations of HashMap, for any number of threads, *)
(* slots, values and addresses.  Each implementation has an inductive      *)
(* invariant of its own; IInv is that of the one in use.  Then, that each  *)
(* of them implements SlotMap, and what its calls return.                  *)
(***************************************************************************)
EXTENDS HashMaps, TLAPS

USE NodeAssumption, ValueAssumption, RequestAssumption,
    ImplementationAssumptions
USE DEF Owning!SlotAssumption, InPlace!SlotAssumption, Unq!MarkAssumption,
        Arc!TriesAssumption, Folly!ZeroAssumption

(* What the compiler knows of every implementation.                        *)
Typed ==
  /\ data \in [Node -> Value \cup {FREE}]
  /\ req \in [Thread -> Request \cup {NULL}]
  /\ target \in [Thread -> Node \cup {NULL, kOccupied}]
  /\ desired \in [Thread -> Node \cup {NULL}]

InCall == \A t \in Thread : pc[t] # "idle" => req[t] \in Request

LEMMA RequestFields ==
  ASSUME NEW r \in Request
  PROVE  /\ r.key \in Key
         /\ r.op \in {"Get", "Put"}
         /\ r.op = "Put" => r.val \in Value /\ r.overwrite \in BOOLEAN
BY DEF Request, GetRequest, PutRequest

-----------------------------------------------------------------------------
(* The mutex maps.                                                         *)

LockInv ==
  /\ Typed
  /\ Owning!TypeOK
  /\ InCall
  /\ Owning!OneOwner

LEMMA LockInit == Owning!Init \/ InPlace!Init => LockInv
<1> SUFFICES ASSUME Owning!Init \/ InPlace!Init PROVE LockInv
  OBVIOUS
<1> USE DEF Owning!Init, InPlace!Init, Owning!InitCalls, InPlace!InitCalls,
            Owning!InitThreads, InPlace!InitThreads
<1>1. Typed /\ Owning!TypeOK /\ InCall
  BY DEF Typed, Owning!TypeOK, InCall
<1>2. Owning!OneOwner
  BY DEF Owning!OneOwner, Owning!Owns
<1>3. QED
  BY <1>1, <1>2 DEF LockInv

LEMMA LockCall ==
  ASSUME LockInv, NEW t \in Thread, Owning!Call(t) \/ InPlace!Call(t)
  PROVE  LockInv'
<1> USE DEF Owning!Call, InPlace!Call, Owning!Invoke, InPlace!Invoke,
            Owning!shared, InPlace!shared, Owning!Goto, InPlace!Goto
<1>1. PICK r \in Request :
        /\ req' = [req EXCEPT ![t] = r]
        /\ pc' = [pc EXCEPT ![t] = "lock"]
        /\ pc[t] = "idle"
        /\ UNCHANGED <<slot, data, target, desired, lock>>
  BY DEF Request, Owning!Request, InPlace!Request, GetRequest, Owning!GetRequest,
         InPlace!GetRequest, PutRequest, Owning!PutRequest, InPlace!PutRequest
<1>2. Typed' /\ Owning!TypeOK' /\ InCall'
  BY <1>1 DEF LockInv, Typed, Owning!TypeOK, InCall
<1>3. Owning!OneOwner'
  BY <1>1 DEF LockInv, Typed, Owning!TypeOK, Owning!OneOwner, Owning!Owns, Owning!KeyOf
<1>4. QED
  BY <1>2, <1>3 DEF LockInv

LEMMA LockStep ==
  ASSUME LockInv, NEW t \in Thread, Owning!Step(t) \/ InPlace!Step(t)
  PROVE  LockInv'
<1> DEFINE k == req[t].key
           Frame == UNCHANGED <<data, target, desired>>
           Moves(l) == pc' = [pc EXCEPT ![t] = l]
<1>1. pc[t] # "idle"
  BY DEF Owning!Step, InPlace!Step, Owning!Lock, InPlace!Lock, Owning!Look,
         InPlace!Look, Owning!Get, InPlace!Get, Owning!Put, InPlace!Put,
         Owning!Unlock, InPlace!Unlock, Owning!Return, InPlace!Return,
         Owning!At, InPlace!At
<1>2. req[t] \in Request /\ k \in Key
  BY <1>1, RequestFields DEF LockInv, InCall
<1>3. CASE Owning!Lock(t) \/ InPlace!Lock(t)
  <2>1. /\ pc[t] = "lock" /\ lock[k] = NULL
        /\ lock' = [lock EXCEPT ![k] = t]
        /\ Moves("look") /\ Frame /\ UNCHANGED <<slot, req>>
    BY <1>3 DEF Owning!Lock, InPlace!Lock, Owning!Goto, InPlace!Goto, Owning!KeyOf,
                InPlace!KeyOf, Owning!shared, InPlace!shared
  <2>2. Typed' /\ Owning!TypeOK' /\ InCall'
    BY <1>2, <2>1 DEF LockInv, Typed, Owning!TypeOK, InCall
  <2>3. Owning!OneOwner'
    BY <1>2, <2>1 DEF LockInv, Owning!TypeOK, Owning!OneOwner, Owning!Owns, Owning!KeyOf
  <2>4. QED
    BY <2>2, <2>3 DEF LockInv
<1>4. CASE \/ Owning!Look(t) \/ InPlace!Look(t) \/ Owning!Get(t) \/ InPlace!Get(t)
           \/ Owning!Put(t) \/ InPlace!Put(t)
  <2>1. /\ pc[t] \in {"look", "access"}
        /\ Moves("access") \/ Moves("done")
        /\ Frame /\ UNCHANGED <<req, lock>>
    BY <1>4 DEF Owning!Look, InPlace!Look, Owning!Get, InPlace!Get, Owning!Put,
                InPlace!Put, Owning!Goto, InPlace!Goto, Owning!Finish, InPlace!Finish,
                Owning!At, InPlace!At, Owning!shared, InPlace!shared
  <2>2. slot' \in [Key -> Value \cup {ABSENT}]
    <3>1. CASE UNCHANGED slot
      BY <3>1 DEF LockInv, Owning!TypeOK
    <3>2. CASE Owning!Put(t) \/ InPlace!Put(t)
      <4>1. req[t].op = "Put" /\ slot' = [slot EXCEPT ![k] = req[t].val]
        BY <3>2 DEF Owning!Put, InPlace!Put, Owning!At, InPlace!At, Owning!Set,
                    InPlace!Set, Owning!KeyOf, InPlace!KeyOf
      <4>2. QED
        BY <1>2, <4>1, RequestFields DEF LockInv, Owning!TypeOK
    <3>3. QED
      BY <1>4, <3>1, <3>2 DEF Owning!Look, InPlace!Look, Owning!Get, InPlace!Get,
         Owning!shared, InPlace!shared
  <2>3. Typed' /\ Owning!TypeOK' /\ InCall'
    BY <1>2, <2>1, <2>2 DEF LockInv, Typed, Owning!TypeOK, InCall
  <2>4. \A u \in Thread, j \in Key : Owning!Owns(u, j)' <=> Owning!Owns(u, j)
    BY <2>1 DEF LockInv, Owning!TypeOK, Owning!Owns, Owning!KeyOf
  <2>5. QED
    BY <2>1, <2>3, <2>4 DEF LockInv, Owning!TypeOK, Owning!OneOwner
<1>5. CASE Owning!Unlock(t) \/ InPlace!Unlock(t)
  <2>1. /\ pc[t] = "done" /\ Moves("idle")
        /\ req' = [req EXCEPT ![t] = NULL]
        /\ lock' = [lock EXCEPT ![k] = NULL]
        /\ target' = [target EXCEPT ![t] = NULL]
        /\ desired' = [desired EXCEPT ![t] = NULL]
        /\ UNCHANGED <<slot, data>>
    BY <1>5 DEF Owning!Unlock, InPlace!Unlock, Owning!Return, InPlace!Return, Owning!Goto,
                InPlace!Goto, Owning!KeyOf, InPlace!KeyOf
  <2>2. Typed' /\ Owning!TypeOK' /\ InCall'
    BY <1>2, <2>1 DEF LockInv, Typed, Owning!TypeOK, InCall
  <2>3. Owning!OneOwner'
    BY <1>2, <2>1 DEF LockInv, Typed, Owning!TypeOK, Owning!OneOwner, Owning!Owns, Owning!KeyOf
  <2>4. QED
    BY <2>2, <2>3 DEF LockInv
<1>6. QED
  BY <1>3, <1>4, <1>5 DEF Owning!Step, InPlace!Step

-----------------------------------------------------------------------------
(* The ownership transfer map.                                             *)

(* What is in a slot, in a reader's hand or in a writer's is alive, and in *)
(* none of the other places.                                               *)
UnqInSlot(k) ==
  slot[k] \in Node =>
    /\ data[slot[k]] # FREE
    /\ \A j \in Key : slot[j] = slot[k] => j = k
    /\ \A t \in Thread : Unq!Reads(t) => target[t] # slot[k]
    /\ \A t \in Thread : desired[t] # slot[k]

UnqReader(t) ==
  Unq!Reads(t) =>
    /\ req[t].op = "Get"
    /\ target[t] \in Node
    /\ data[target[t]] # FREE
    /\ \A u \in Thread : Unq!Reads(u) /\ target[u] = target[t] => u = t
    /\ \A u \in Thread : desired[u] # target[t]

UnqWriter(t) ==
  /\ desired[t] # NULL <=> pc[t] = "loop" /\ req[t].op = "Put"
  /\ desired[t] # NULL =>
       /\ data[desired[t]] # FREE
       /\ \A u \in Thread : desired[u] = desired[t] => u = t

UnqHeld(a) ==
  \/ \E k \in Key : slot[k] = a
  \/ \E t \in Thread : Unq!Reads(t) /\ target[t] = a
  \/ \E t \in Thread : desired[t] = a

UnqInv ==
  /\ Typed
  /\ Unq!TypeOK
  /\ InCall
  /\ Unq!OneOwner
  /\ \A k \in Key : UnqInSlot(k)
  /\ \A t \in Thread : UnqReader(t) /\ UnqWriter(t)
  /\ \A a \in Node : data[a] # FREE => UnqHeld(a)

LEMMA UnqInit == Unq!Init => UnqInv
<1> SUFFICES ASSUME Unq!Init PROVE UnqInv
  OBVIOUS
<1> USE DEF Unq!Init, Unq!InitCalls, Unq!InitThreads
<1>1. Typed /\ Unq!TypeOK /\ InCall
  BY DEF Typed, Unq!TypeOK, InCall
<1>2. Unq!OneOwner /\ \A k \in Key : UnqInSlot(k)
  BY DEF Unq!OneOwner, Unq!Owns, Unq!Reads, UnqInSlot
<1>3. \A t \in Thread : UnqReader(t) /\ UnqWriter(t)
  BY DEF UnqReader, UnqWriter, Unq!Reads
<1>4. QED
  BY <1>1, <1>2, <1>3 DEF UnqInv

LEMMA UnqCall ==
  ASSUME UnqInv, NEW t \in Thread, Unq!Call(t)
  PROVE  UnqInv'
<1>1. PICK r \in Request :
        /\ req' = [req EXCEPT ![t] = r]
        /\ pc' = [pc EXCEPT ![t] = "load"]
        /\ pc[t] = "idle"
        /\ UNCHANGED <<slot, data, target, desired, first>>
  BY DEF Unq!Call, Unq!Invoke, Unq!shared, Unq!Goto, Request, GetRequest, PutRequest,
         Unq!Request, Unq!GetRequest, Unq!PutRequest
<1>2. Typed' /\ Unq!TypeOK' /\ InCall'
  BY <1>1 DEF UnqInv, Typed, Unq!TypeOK, InCall
<1>3. \A u \in Thread : /\ Unq!Reads(u)' <=> Unq!Reads(u)
                        /\ Unq!Reads(u) => req'[u] = req[u]
                        /\ pc[u] # "idle" => req'[u] = req[u]
  BY <1>1 DEF UnqInv, Typed, Unq!TypeOK, Unq!Reads
<1>4. Unq!OneOwner'
  BY <1>1, <1>3 DEF UnqInv, Unq!OneOwner, Unq!Owns, Unq!KeyOf
<1>5. (\A k \in Key : UnqInSlot(k)') /\ \A a \in Node : data'[a] # FREE => UnqHeld(a)'
  BY <1>1, <1>3 DEF UnqInv, UnqInSlot, UnqHeld
<1>6. \A u \in Thread : UnqReader(u)'
  BY <1>1, <1>3 DEF UnqInv, UnqReader
<1>7. \A u \in Thread : UnqWriter(u)'
  BY <1>1 DEF UnqInv, Typed, Unq!TypeOK, UnqWriter
<1>8. QED
  BY <1>2, <1>4, <1>5, <1>6, <1>7 DEF UnqInv

(* A step of a thread that neither takes nor gives back a pointer, whether *)
(* or not it goes on to another label.                                     *)
LEMMA UnqQuiet ==
  ASSUME UnqInv, NEW t \in Thread, pc[t] # "idle",
         UNCHANGED <<slot, data, desired, req>>,
         \A u \in Thread \ {t} : pc'[u] = pc[u] /\ target'[u] = target[u],
         Unq!Reads(t)' <=> Unq!Reads(t), Unq!Reads(t) => target'[t] = target[t],
         desired[t] # NULL <=> pc'[t] = "loop" /\ req[t].op = "Put",
         Typed', Unq!TypeOK'
  PROVE  UnqInv'
<1>1. req[t] \in Request
  BY DEF UnqInv, InCall
<1>2. \A u \in Thread : /\ Unq!Reads(u)' <=> Unq!Reads(u)
                        /\ Unq!Reads(u) => target'[u] = target[u]
  BY DEF Unq!Reads
<1>3. InCall'
  BY <1>1 DEF UnqInv, InCall
<1>4. Unq!OneOwner'
  BY <1>2 DEF UnqInv, Unq!OneOwner, Unq!Owns, Unq!KeyOf
<1>5. \A k \in Key : UnqInSlot(k)'
  BY <1>2 DEF UnqInv, UnqInSlot
<1>6. \A u \in Thread : UnqReader(u)'
  BY <1>2 DEF UnqInv, UnqReader
<1>7. \A u \in Thread : UnqWriter(u)'
  BY DEF UnqInv, UnqWriter
<1>8. \A a \in Node : data'[a] # FREE => UnqHeld(a)'
  BY <1>2 DEF UnqInv, UnqHeld
<1>9. QED
  BY <1>3, <1>4, <1>5, <1>6, <1>7, <1>8 DEF UnqInv

LEMMA UnqQuietSteps ==
  ASSUME UnqInv, NEW t \in Thread,
         \/ Unq!Spin(t) \/ Unq!GetAbsent(t) \/ Unq!ReadOwned(t) \/ Unq!Reread(t)
         \/ Unq!Load(t) /\ req[t].op # "Put"
  PROVE  UnqInv'
<1> USE DEF Unq!Finish, Unq!Goto, Unq!At, Unq!shared, Unq!Read, Unq!Current, Unq!KeyOf
<1>1. pc[t] # "idle" /\ req[t] \in Request /\ req[t].key \in Key
  BY RequestFields DEF UnqInv, InCall, Unq!Spin, Unq!GetAbsent, Unq!ReadOwned, Unq!Reread,
     Unq!Load
<1>2. CASE Unq!Spin(t)
  <2>1. Typed' /\ Unq!TypeOK'
    BY <1>1, <1>2 DEF Unq!Spin, UnqInv, Typed, Unq!TypeOK
  <2>2. QED
    BY <1>1, <1>2, <2>1, UnqQuiet DEF Unq!Spin, Unq!Reads, UnqInv, Typed, UnqWriter
<1>3. CASE Unq!GetAbsent(t)
  <2>1. Typed' /\ Unq!TypeOK'
    BY <1>3 DEF Unq!GetAbsent, UnqInv, Typed, Unq!TypeOK
  <2>2. QED
    BY <1>1, <1>3, <2>1, UnqQuiet DEF Unq!GetAbsent, Unq!Reads, UnqInv, Unq!TypeOK, UnqWriter
<1>4. CASE Unq!ReadOwned(t)
  <2>1. data[target[t]] \in Value
    BY <1>4 DEF Unq!ReadOwned, UnqInv, UnqReader, Unq!Reads, Typed
  <2>2. Typed' /\ Unq!TypeOK'
    BY <1>4, <2>1 DEF Unq!ReadOwned, UnqInv, Typed, Unq!TypeOK
  <2>3. QED
    BY <1>1, <1>4, <2>2, UnqQuiet DEF Unq!ReadOwned, Unq!Reads, UnqInv, Unq!TypeOK, UnqWriter
<1>5. CASE Unq!Reread(t)
  <2>1. Typed' /\ Unq!TypeOK'
    BY <1>5 DEF Unq!Reread, UnqInv, Typed, Unq!TypeOK
  <2>2. QED
    BY <1>1, <1>5, <2>1, UnqQuiet DEF Unq!Reread, Unq!Reads, UnqInv, Unq!TypeOK, UnqWriter
<1>6. CASE Unq!Load(t) /\ req[t].op # "Put"
  <2>1. Typed' /\ Unq!TypeOK'
    BY <1>1, <1>6 DEF Unq!Load, UnqInv, Typed, Unq!TypeOK
  <2>2. QED
    BY <1>1, <1>6, <2>1, UnqQuiet DEF Unq!Load, Unq!Reads, UnqInv, Typed, Unq!TypeOK, UnqWriter
<1>7. QED
  BY <1>2, <1>3, <1>4, <1>5, <1>6

(* Put allocates: the new value is in the writer's hand and nowhere else.  *)
LEMMA UnqLoadPut ==
  ASSUME UnqInv, NEW t \in Thread, Unq!Load(t), req[t].op = "Put"
  PROVE  UnqInv'
<1>1. pc[t] = "load" /\ req[t] \in Request /\ req[t].key \in Key /\ req[t].val \in Value
  BY RequestFields DEF UnqInv, InCall, Unq!Load
<1>2. PICK a \in Node :
        /\ data[a] = FREE
        /\ data' = [data EXCEPT ![a] = req[t].val]
        /\ desired' = [desired EXCEPT ![t] = a]
  BY DEF Unq!Load, Unq!Allocate
<1>3. /\ target' = [target EXCEPT ![t] = slot[req[t].key]]
      /\ pc' = [pc EXCEPT ![t] = "loop"]
      /\ UNCHANGED <<slot, req, first>>
  BY DEF Unq!Load, Unq!Read, Unq!Current, Unq!KeyOf, Unq!Goto
<1>4. desired[t] = NULL
  BY <1>1 DEF UnqInv, UnqWriter
<1>5. /\ \A b \in Node \ {a} : data'[b] = data[b]
      /\ data'[a] # FREE
  BY <1>1, <1>2 DEF UnqInv, Typed
<1>6. /\ \A k \in Key : slot[k] # a
      /\ \A u \in Thread : (Unq!Reads(u) => target[u] # a) /\ desired[u] # a
  BY <1>2 DEF UnqInv, UnqInSlot, UnqReader, UnqWriter
<1>7. Typed' /\ Unq!TypeOK' /\ InCall'
  BY <1>1, <1>2, <1>3 DEF UnqInv, Typed, Unq!TypeOK, InCall
<1>8. \A u \in Thread : /\ Unq!Reads(u)' <=> Unq!Reads(u)
                        /\ Unq!Reads(u) => target'[u] = target[u]
  BY <1>1, <1>3 DEF UnqInv, Typed, Unq!TypeOK, Unq!Reads
<1>9. Unq!OneOwner'
  BY <1>3, <1>8 DEF UnqInv, Unq!OneOwner, Unq!Owns, Unq!KeyOf
<1>10. /\ desired'[t] = a
       /\ \A u \in Thread \ {t} : desired'[u] = desired[u]
  BY <1>2 DEF UnqInv, Typed
<1>11. \A k \in Key : UnqInSlot(k)'
  BY <1>3, <1>5, <1>6, <1>8, <1>10 DEF UnqInv, UnqInSlot
<1>12. \A u \in Thread : UnqReader(u)'
  BY <1>3, <1>5, <1>6, <1>8, <1>10 DEF UnqInv, UnqReader
<1>13. \A u \in Thread : UnqWriter(u)'
  BY <1>3, <1>5, <1>6, <1>10 DEF UnqInv, Typed, Unq!TypeOK, UnqWriter
<1>14. \A b \in Node : data'[b] # FREE => UnqHeld(b)'
  BY <1>3, <1>4, <1>5, <1>8, <1>10 DEF UnqInv, UnqHeld
<1>15. QED
  BY <1>7, <1>9, <1>11, <1>12, <1>13, <1>14 DEF UnqInv

(* The pointer goes from the slot to the reader, a mark takes its place.   *)
LEMMA UnqOwn ==
  ASSUME UnqInv, NEW t \in Thread, Unq!Own(t)
  PROVE  UnqInv'
<1> DEFINE k == req[t].key
<1>1. /\ pc[t] = "loop" /\ req[t].op = "Get"
      /\ target[t] \in Node /\ slot[k] = target[t]
      /\ slot' = [slot EXCEPT ![k] = kOccupied]
      /\ pc' = [pc EXCEPT ![t] = "own"]
      /\ UNCHANGED <<data, req, target, desired, first>>
  BY DEF Unq!Own, Unq!At, Unq!CasSucceeds, Unq!Current, Unq!KeyOf, Unq!Set, Unq!Goto
<1>2. req[t] \in Request /\ k \in Key
  BY <1>1, RequestFields DEF UnqInv, InCall
<1>3. Typed' /\ Unq!TypeOK' /\ InCall'
  BY <1>1, <1>2 DEF UnqInv, Typed, Unq!TypeOK, InCall
<1>4. /\ Unq!Reads(t)' /\ ~Unq!Reads(t)
      /\ \A u \in Thread \ {t} : Unq!Reads(u)' <=> Unq!Reads(u)
  BY <1>1 DEF UnqInv, Unq!TypeOK, Unq!Reads
<1>5. slot'[k] = kOccupied /\ \A j \in Key \ {k} : slot'[j] = slot[j]
  BY <1>1, <1>2 DEF UnqInv, Unq!TypeOK
<1>6. Unq!OneOwner'
  <2>1. slot[k] # kOccupied
    BY <1>1
  <2>2. \A u \in Thread : ~Unq!Owns(u, k)
    BY <1>2, <2>1 DEF UnqInv, Unq!OneOwner
  <2>3. \A u \in Thread, j \in Key :
          Unq!Owns(u, j)' <=> Unq!Owns(u, j) \/ (u = t /\ j = k)
    BY <1>1, <1>4 DEF Unq!Owns, Unq!KeyOf
  <2>4. QED
    BY <1>2, <1>4, <1>5, <2>2, <2>3 DEF UnqInv, Unq!OneOwner, Unq!Owns
<1>7. /\ data[slot[k]] # FREE
      /\ \A j \in Key : slot[j] = slot[k] => j = k
      /\ \A u \in Thread : (Unq!Reads(u) => target[u] # slot[k]) /\ desired[u] # slot[k]
  BY <1>1, <1>2 DEF UnqInv, UnqInSlot
<1>8. \A j \in Key : UnqInSlot(j)'
  <2> SUFFICES ASSUME NEW j \in Key, j # k PROVE UnqInSlot(j)'
    BY <1>5 DEF UnqInSlot
  <2>1. QED
    BY <1>1, <1>4, <1>5, <1>7 DEF UnqInv, UnqInSlot
<1>9. \A u \in Thread : UnqReader(u)'
  BY <1>1, <1>4, <1>7 DEF UnqInv, UnqReader
<1>10. \A u \in Thread : UnqWriter(u)'
  BY <1>1 DEF UnqInv, Unq!TypeOK, UnqWriter
<1>11. \A b \in Node : data'[b] # FREE => UnqHeld(b)'
  BY <1>1, <1>4, <1>5 DEF UnqInv, UnqHeld
<1>12. QED
  BY <1>3, <1>6, <1>8, <1>9, <1>10, <1>11 DEF UnqInv

(* The pointer goes back to its slot, where only this thread's mark was.   *)
LEMMA UnqRestore ==
  ASSUME UnqInv, NEW t \in Thread, Unq!Restore(t)
  PROVE  UnqInv'
<1> DEFINE k == req[t].key
<1>1. /\ pc[t] = "restore"
      /\ slot' = [slot EXCEPT ![k] = target[t]]
      /\ pc' = [pc EXCEPT ![t] = "reread"]
      /\ UNCHANGED <<data, req, target, desired, first>>
  BY DEF Unq!Restore, Unq!KeyOf, Unq!Set, Unq!Goto
<1>2. req[t] \in Request /\ k \in Key
  BY <1>1, RequestFields DEF UnqInv, InCall
<1>3. Unq!Reads(t) /\ Unq!Owns(t, k)
  BY <1>1 DEF Unq!Reads, Unq!Owns, Unq!KeyOf
<1>4. /\ target[t] \in Node /\ data[target[t]] # FREE
      /\ \A u \in Thread : Unq!Reads(u) /\ target[u] = target[t] => u = t
      /\ \A u \in Thread : desired[u] # target[t]
  BY <1>3 DEF UnqInv, UnqReader
<1>5. Typed' /\ Unq!TypeOK' /\ InCall'
  BY <1>1, <1>2, <1>4 DEF UnqInv, Typed, Unq!TypeOK, InCall
<1>6. /\ ~Unq!Reads(t)'
      /\ \A u \in Thread \ {t} : Unq!Reads(u)' <=> Unq!Reads(u)
  BY <1>1 DEF UnqInv, Unq!TypeOK, Unq!Reads
<1>7. slot'[k] = target[t] /\ \A j \in Key \ {k} : slot'[j] = slot[j]
  BY <1>1, <1>2 DEF UnqInv, Unq!TypeOK
<1>8. slot[k] = kOccupied /\ \A u \in Thread : Unq!Owns(u, k) => u = t
  BY <1>2, <1>3 DEF UnqInv, Unq!OneOwner
<1>9. Unq!OneOwner'
  <2>1. \A u \in Thread, j \in Key : Unq!Owns(u, j)' <=> Unq!Owns(u, j) /\ u # t
    BY <1>1, <1>6 DEF Unq!Owns, Unq!KeyOf
  <2>2. \A j \in Key \ {k} : ~Unq!Owns(t, j)
    BY DEF Unq!Owns, Unq!KeyOf
  <2>3. QED
    BY <1>4, <1>7, <1>8, <2>1, <2>2 DEF UnqInv, Unq!OneOwner
<1>10. \A j \in Key : slot[j] # target[t]
  BY <1>3, <1>4 DEF UnqInv, UnqInSlot
<1>11. \A j \in Key : UnqInSlot(j)'
  BY <1>1, <1>4, <1>6, <1>7, <1>10 DEF UnqInv, UnqInSlot
<1>12. \A u \in Thread : UnqReader(u)'
  BY <1>1, <1>6 DEF UnqInv, UnqReader
<1>13. \A u \in Thread : UnqWriter(u)'
  BY <1>1 DEF UnqInv, Unq!TypeOK, UnqWriter
<1>14. \A b \in Node : data'[b] # FREE => UnqHeld(b)'
  <2> SUFFICES ASSUME NEW b \in Node, data[b] # FREE PROVE UnqHeld(b)'
    BY <1>1
  <2>1. CASE b = target[t]
    BY <1>2, <1>7, <2>1 DEF UnqHeld
  <2>2. CASE b # target[t]
    <3>1. UnqHeld(b)
      BY DEF UnqInv
    <3>2. QED
      BY <1>1, <1>2, <1>6, <1>7, <1>8, <2>2, <3>1 DEF UnqHeld
  <2>3. QED
    BY <2>1, <2>2
<1>15. QED
  BY <1>5, <1>9, <1>11, <1>12, <1>13, <1>14 DEF UnqInv

(* What was allocated for nothing is deleted.                              *)
LEMMA UnqPutRefused ==
  ASSUME UnqInv, NEW t \in Thread, Unq!PutRefused(t)
  PROVE  UnqInv'
<1>1. /\ pc[t] = "loop" /\ req[t].op = "Put"
      /\ data' = [data EXCEPT ![desired[t]] = FREE]
      /\ desired' = [desired EXCEPT ![t] = NULL]
      /\ pc' = [pc EXCEPT ![t] = "done"]
      /\ UNCHANGED <<slot, req, target, first>>
  BY DEF Unq!PutRefused, Unq!At, Unq!Finish, Unq!Goto
<1>2. req[t] \in Request
  BY <1>1 DEF UnqInv, InCall
<1>3. /\ desired[t] \in Node
      /\ \A u \in Thread : desired[u] = desired[t] => u = t
      /\ \A k \in Key : slot[k] # desired[t]
      /\ \A u \in Thread : Unq!Reads(u) => target[u] # desired[t]
  BY <1>1 DEF UnqInv, Typed, UnqWriter, UnqInSlot, UnqReader
<1>4. Typed' /\ Unq!TypeOK' /\ InCall'
  BY <1>1, <1>2, <1>3 DEF UnqInv, Typed, Unq!TypeOK, InCall
<1>5. \A u \in Thread : Unq!Reads(u)' <=> Unq!Reads(u)
  BY <1>1 DEF UnqInv, Unq!TypeOK, Unq!Reads
<1>6. /\ data'[desired[t]] = FREE
      /\ \A b \in Node \ {desired[t]} : data'[b] = data[b]
      /\ desired'[t] = NULL
      /\ \A u \in Thread \ {t} : desired'[u] = desired[u]
  BY <1>1, <1>3 DEF UnqInv, Typed
<1>7. Unq!OneOwner'
  BY <1>1, <1>5 DEF UnqInv, Unq!OneOwner, Unq!Owns, Unq!KeyOf
<1>8. \A k \in Key : UnqInSlot(k)'
  BY <1>1, <1>3, <1>5, <1>6 DEF UnqInv, UnqInSlot
<1>9. \A u \in Thread : UnqReader(u)'
  BY <1>1, <1>3, <1>5, <1>6 DEF UnqInv, UnqReader
<1>10. \A u \in Thread : UnqWriter(u)'
  BY <1>1, <1>3, <1>6 DEF UnqInv, Typed, Unq!TypeOK, UnqWriter
<1>11. \A b \in Node : data'[b] # FREE => UnqHeld(b)'
  BY <1>1, <1>3, <1>5, <1>6 DEF UnqInv, UnqHeld
<1>12. QED
  BY <1>4, <1>7, <1>8, <1>9, <1>10, <1>11 DEF UnqInv

(* The new value takes the place of the old one, which is deleted.         *)
LEMMA UnqPut ==
  ASSUME UnqInv, NEW t \in Thread, Unq!Put(t)
  PROVE  UnqInv'
<1> DEFINE k == req[t].key
           new == desired[t]
<1>1. /\ pc[t] = "loop" /\ req[t].op = "Put"
      /\ target[t] # kOccupied /\ slot[k] = target[t]
      /\ slot' = [slot EXCEPT ![k] = new]
      /\ data' = [a \in Node |-> IF a = target[t] THEN FREE ELSE data[a]]
      /\ desired' = [desired EXCEPT ![t] = NULL]
      /\ pc' = [pc EXCEPT ![t] = "done"]
      /\ UNCHANGED <<req, target, first>>
  BY DEF Unq!Put, Unq!At, Unq!CasSucceeds, Unq!Current, Unq!KeyOf, Unq!Set, Unq!Finish,
         Unq!Goto
<1>2. req[t] \in Request /\ k \in Key
  BY <1>1, RequestFields DEF UnqInv, InCall
<1>3. /\ new \in Node /\ data[new] # FREE
      /\ \A u \in Thread : desired[u] = new => u = t
      /\ \A j \in Key : slot[j] # new
      /\ \A u \in Thread : Unq!Reads(u) => target[u] # new
  BY <1>1 DEF UnqInv, Typed, UnqWriter, UnqInSlot, UnqReader
<1>4. slot[k] \in Node =>
        /\ \A j \in Key : slot[j] = slot[k] => j = k
        /\ \A u \in Thread : (Unq!Reads(u) => target[u] # slot[k]) /\ desired[u] # slot[k]
  BY <1>2 DEF UnqInv, UnqInSlot
<1>5. Typed' /\ Unq!TypeOK' /\ InCall'
  BY <1>1, <1>2, <1>3 DEF UnqInv, Typed, Unq!TypeOK, InCall
<1>6. \A u \in Thread : Unq!Reads(u)' <=> Unq!Reads(u)
  BY <1>1 DEF UnqInv, Unq!TypeOK, Unq!Reads
<1>7. /\ slot'[k] = new /\ \A j \in Key \ {k} : slot'[j] = slot[j]
      /\ desired'[t] = NULL /\ \A u \in Thread \ {t} : desired'[u] = desired[u]
      /\ \A b \in Node \ {slot[k]} : data'[b] = data[b]
      /\ slot[k] \in Node => data'[slot[k]] = FREE
  BY <1>1, <1>2 DEF UnqInv, Typed, Unq!TypeOK
<1>8. Unq!OneOwner'
  <2>1. \A u \in Thread, j \in Key : Unq!Owns(u, j)' <=> Unq!Owns(u, j)
    BY <1>1, <1>6 DEF Unq!Owns, Unq!KeyOf
  <2>2. \A u \in Thread : ~Unq!Owns(u, k)
    BY <1>1, <1>2 DEF UnqInv, Unq!OneOwner
  <2>3. QED
    BY <1>3, <1>7, <2>1, <2>2 DEF UnqInv, Unq!OneOwner
<1>9. \A j \in Key : UnqInSlot(j)'
  BY <1>1, <1>3, <1>4, <1>6, <1>7 DEF UnqInv, UnqInSlot
<1>10. \A u \in Thread : UnqReader(u)'
  BY <1>1, <1>4, <1>6, <1>7 DEF UnqInv, UnqReader
<1>11. \A u \in Thread : UnqWriter(u)'
  BY <1>1, <1>4, <1>7 DEF UnqInv, Typed, Unq!TypeOK, UnqWriter
<1>12. \A b \in Node : data'[b] # FREE => UnqHeld(b)'
  <2> SUFFICES ASSUME NEW b \in Node, data'[b] # FREE PROVE UnqHeld(b)'
    OBVIOUS
  <2>1. b # slot[k] /\ data[b] # FREE
    BY <1>7
  <2>2. UnqHeld(b)
    BY <2>1 DEF UnqInv
  <2>3. QED
    BY <1>1, <1>2, <1>6, <1>7, <2>1, <2>2 DEF UnqHeld
<1>13. QED
  BY <1>5, <1>8, <1>9, <1>10, <1>11, <1>12 DEF UnqInv

LEMMA UnqLeave ==
  ASSUME UnqInv, NEW t \in Thread, Unq!Leave(t)
  PROVE  UnqInv'
<1>1. /\ pc[t] = "done"
      /\ pc' = [pc EXCEPT ![t] = "idle"]
      /\ req' = [req EXCEPT ![t] = NULL]
      /\ target' = [target EXCEPT ![t] = NULL]
      /\ desired' = [desired EXCEPT ![t] = NULL]
      /\ first' = [first EXCEPT ![t] = PENDING]
      /\ UNCHANGED <<slot, data>>
  BY DEF Unq!Leave, Unq!Return, Unq!Goto
<1>2. Typed' /\ Unq!TypeOK' /\ InCall'
  BY <1>1 DEF UnqInv, Typed, Unq!TypeOK, InCall
<1>3. desired[t] = NULL
  BY <1>1 DEF UnqInv, UnqWriter
<1>4. desired' = desired
  BY <1>1, <1>3 DEF UnqInv, Typed
<1>5. /\ \A u \in Thread \ {t} :
           pc'[u] = pc[u] /\ req'[u] = req[u] /\ target'[u] = target[u]
      /\ pc'[t] = "idle"
  BY <1>1 DEF UnqInv, Typed, Unq!TypeOK
<1>6. \A u \in Thread : Unq!Reads(u)' <=> Unq!Reads(u)
  BY <1>1, <1>5 DEF Unq!Reads
<1>7. ~Unq!Reads(t)
  BY <1>1 DEF Unq!Reads
<1>8. Unq!OneOwner'
  <2>1. \A u \in Thread, j \in Key : Unq!Owns(u, j)' <=> Unq!Owns(u, j)
    BY <1>5, <1>6, <1>7 DEF Unq!Owns, Unq!KeyOf
  <2>2. QED
    BY <1>1, <2>1 DEF UnqInv, Unq!OneOwner
<1>9. \A k \in Key : UnqInSlot(k)'
  BY <1>1, <1>4, <1>5, <1>6, <1>7 DEF UnqInv, UnqInSlot
<1>10. \A u \in Thread : UnqReader(u)'
  BY <1>1, <1>4, <1>5, <1>6, <1>7 DEF UnqInv, UnqReader
<1>11. \A u \in Thread : UnqWriter(u)'
  BY <1>1, <1>3, <1>4, <1>5 DEF UnqInv, UnqWriter
<1>12. \A b \in Node : data'[b] # FREE => UnqHeld(b)'
  BY <1>1, <1>4, <1>5, <1>6, <1>7 DEF UnqInv, UnqHeld
<1>13. QED
  BY <1>2, <1>8, <1>9, <1>10, <1>11, <1>12 DEF UnqInv

LEMMA UnqStep ==
  ASSUME UnqInv, NEW t \in Thread, Unq!Step(t)
  PROVE  UnqInv'
BY UnqQuietSteps, UnqLoadPut, UnqOwn, UnqRestore, UnqPutRefused, UnqPut, UnqLeave
   DEF Unq!Step

-----------------------------------------------------------------------------
(* The maps with hazard pointers.                                          *)

HazSlot(k) ==
  slot[k] # NULL =>
    /\ data[slot[k]] # FREE
    /\ slot[k] \notin retired
    /\ \A j \in Key : slot[j] = slot[k] => j = k

(* What Pin has established, as in FastTable.                              *)
HazPosition(t) ==
  /\ pc[t] \in {"pin", "validate"} => target[t] \in Node
  /\ pc[t] = "validate" => hazard[t] = target[t]
  /\ pc[t] = "look" /\ target[t] # NULL =>
       hazard[t] = target[t] /\ data[target[t]] # FREE
  /\ pc[t] = "exchange" => req[t].op = "Put"

HazInv ==
  /\ Typed
  /\ Haz!TypeOK
  /\ InCall
  /\ target \in [Thread -> Node \cup {NULL}]
  /\ \A k \in Key : HazSlot(k)
  /\ \A a \in retired : data[a] # FREE
  /\ \A a \in Node : data[a] # FREE => a \in retired \/ \E k \in Key : slot[k] = a
  /\ \A t \in Thread : HazPosition(t)

LEMMA HazInit == Haz!Init \/ Folly!InitFilled => HazInv
<1> SUFFICES ASSUME Haz!Init \/ Folly!InitFilled PROVE HazInv
  OBVIOUS
<1> USE DEF Haz!Init, Haz!InitCalls, Haz!InitThreads, Folly!InitFilled, Folly!InitThreads
<1>1. Typed /\ Haz!TypeOK /\ InCall /\ target \in [Thread -> Node \cup {NULL}]
  BY DEF Typed, Haz!TypeOK, InCall
<1>2. \A k \in Key : HazSlot(k)
  BY DEF HazSlot
<1>3. \A t \in Thread : HazPosition(t)
  BY DEF HazPosition
<1>4. QED
  BY <1>1, <1>2, <1>3 DEF HazInv

(* A step that leaves slots and memory alone and starts no new call.       *)
LEMMA HazQuiet ==
  ASSUME HazInv, NEW t \in Thread,
         UNCHANGED <<slot, data, retired>>,
         \A u \in Thread \ {t} :
           /\ pc'[u] = pc[u] /\ req'[u] = req[u]
           /\ target'[u] = target[u] /\ hazard'[u] = hazard[u],
         Typed', Haz!TypeOK', target' \in [Thread -> Node \cup {NULL}],
         pc'[t] # "idle" => req'[t] \in Request, HazPosition(t)'
  PROVE  HazInv'
<1>1. InCall'
  BY DEF HazInv, InCall
<1>2. \A k \in Key : HazSlot(k)'
  BY DEF HazInv, HazSlot
<1>3. \A u \in Thread : HazPosition(u)'
  BY DEF HazInv, HazPosition
<1>4. QED
  BY <1>1, <1>2, <1>3 DEF HazInv

LEMMA HazCall ==
  ASSUME HazInv, NEW t \in Thread, Haz!Call(t)
  PROVE  HazInv'
<1>1. PICK r \in Request :
        /\ req' = [req EXCEPT ![t] = r]
        /\ pc' = [pc EXCEPT ![t] = IF r.op = "Put" /\ r.overwrite THEN "exchange" ELSE "load"]
        /\ UNCHANGED <<slot, data, target, desired, retired, hazard>>
  BY DEF Haz!Call, Haz!Invoke, Haz!shared, Haz!Goto, Request, GetRequest, PutRequest,
         Haz!Request, Haz!GetRequest, Haz!PutRequest
<1>2. Typed' /\ Haz!TypeOK' /\ target' \in [Thread -> Node \cup {NULL}]
  BY <1>1 DEF HazInv, Typed, Haz!TypeOK
<1>3. HazPosition(t)' /\ req'[t] \in Request
  BY <1>1 DEF HazInv, Typed, Haz!TypeOK, HazPosition
<1>4. QED
  BY <1>1, <1>2, <1>3, HazQuiet DEF HazInv, Typed, Haz!TypeOK

LEMMA HazQuietSteps ==
  ASSUME HazInv, NEW t \in Thread,
         \/ Haz!PinLoad(t) \/ Haz!PinPublish(t) \/ Haz!PinValidate(t)
         \/ Haz!Get(t) \/ Haz!PutRefused(t) \/ Haz!PutCleared(t) \/ Haz!Leave(t)
  PROVE  HazInv'
<1> USE DEF Haz!Finish, Haz!Goto, Haz!At, Haz!shared, Haz!Read, Haz!Current, Haz!KeyOf,
            Haz!Unpin, Haz!Return
<1>1. pc[t] # "idle" /\ req[t] \in Request /\ req[t].key \in Key
  BY RequestFields DEF HazInv, InCall, Haz!PinLoad, Haz!PinPublish, Haz!PinValidate,
     Haz!Get, Haz!PutRefused, Haz!PutCleared, Haz!Leave
<1>2. CASE Haz!PinLoad(t)
  <2>1. slot[req[t].key] \in Node \cup {NULL}
    BY <1>1 DEF HazInv, Haz!TypeOK
  <2>2. Typed' /\ Haz!TypeOK' /\ target' \in [Thread -> Node \cup {NULL}]
    BY <1>2, <2>1 DEF Haz!PinLoad, HazInv, Typed, Haz!TypeOK
  <2>3. HazPosition(t)'
    BY <1>2, <2>1 DEF Haz!PinLoad, HazInv, Typed, Haz!TypeOK, HazPosition
  <2>4. QED
    BY <1>1, <1>2, <2>2, <2>3, HazQuiet DEF Haz!PinLoad, HazInv, Typed, Haz!TypeOK
<1>3. CASE Haz!PinPublish(t)
  <2>1. target[t] \in Node
    BY <1>3 DEF Haz!PinPublish, HazInv, HazPosition
  <2>2. Typed' /\ Haz!TypeOK' /\ target' \in [Thread -> Node \cup {NULL}]
    BY <1>3, <2>1 DEF Haz!PinPublish, HazInv, Typed, Haz!TypeOK
  <2>3. HazPosition(t)'
    BY <1>3, <2>1 DEF Haz!PinPublish, HazInv, Haz!TypeOK, HazPosition
  <2>4. QED
    BY <1>1, <1>3, <2>2, <2>3, HazQuiet DEF Haz!PinPublish, HazInv, Haz!TypeOK
<1>4. CASE Haz!PinValidate(t)
  <2>1. target[t] \in Node /\ hazard[t] = target[t]
    BY <1>4 DEF Haz!PinValidate, HazInv, HazPosition
  <2>2. slot[req[t].key] = target[t] => data[target[t]] # FREE
    BY <1>1, <2>1 DEF HazInv, HazSlot
  <2>3. Typed' /\ Haz!TypeOK' /\ target' \in [Thread -> Node \cup {NULL}]
    BY <1>4 DEF Haz!PinValidate, HazInv, Typed, Haz!TypeOK
  <2>4. HazPosition(t)'
    BY <1>4, <2>1, <2>2 DEF Haz!PinValidate, HazInv, Haz!TypeOK, HazPosition
  <2>5. QED
    BY <1>1, <1>4, <2>3, <2>4, HazQuiet DEF Haz!PinValidate, HazInv, Haz!TypeOK
<1>5. CASE Haz!Get(t) \/ Haz!PutRefused(t) \/ Haz!PutCleared(t)
  <2> USE DEF Haz!Get, Haz!PutRefused, Haz!PutCleared
  <2>1. Typed' /\ Haz!TypeOK' /\ target' \in [Thread -> Node \cup {NULL}]
    BY <1>5 DEF HazInv, Typed, Haz!TypeOK
  <2>2. HazPosition(t)'
    BY <1>5 DEF HazInv, Haz!TypeOK, HazPosition
  <2>3. QED
    BY <1>1, <1>5, <2>1, <2>2, HazQuiet DEF HazInv, Haz!TypeOK
<1>6. CASE Haz!Leave(t)
  <2> USE DEF Haz!Leave
  <2>1. Typed' /\ Haz!TypeOK' /\ target' \in [Thread -> Node \cup {NULL}]
    BY <1>6 DEF HazInv, Typed, Haz!TypeOK
  <2>2. HazPosition(t)' /\ pc'[t] = "idle"
    BY <1>6 DEF HazInv, Haz!TypeOK, HazPosition
  <2>3. QED
    BY <1>1, <1>6, <2>1, <2>2, HazQuiet DEF HazInv, Typed, Haz!TypeOK
<1>7. QED
  BY <1>2, <1>3, <1>4, <1>5, <1>6

(* The new value goes in, the old one goes from its slot to the retired.   *)
LEMMA HazExchange ==
  ASSUME HazInv, NEW t \in Thread, Haz!Exchange(t)
  PROVE  HazInv'
<1> DEFINE k == req[t].key
<1>1. PICK a \in Node :
        /\ data[a] = FREE
        /\ data' = [n \in Node |-> IF n = a THEN req[t].val
                                   ELSE IF n \in {} THEN FREE ELSE data[n]]
        /\ slot' = [slot EXCEPT ![k] = a]
  BY DEF Haz!Exchange, Haz!ExchangeAnd, Haz!Set, Haz!KeyOf
<1>2. /\ pc[t] = "exchange"
      /\ pc' = [pc EXCEPT ![t] = "done"]
      /\ retired' = retired \cup ({slot[k]} \ {NULL})
      /\ UNCHANGED <<hazard, req, target, desired>>
  BY DEF Haz!Exchange, Haz!ExchangeAnd, Haz!Current, Haz!KeyOf, Haz!Finish, Haz!Goto
<1>3. req[t] \in Request /\ k \in Key /\ req[t].val \in Value
  BY <1>2, RequestFields DEF HazInv, InCall, HazPosition
<1>4. /\ data'[a] # FREE
      /\ \A b \in Node \ {a} : data'[b] = data[b]
      /\ \A b \in Node : data[b] # FREE => data'[b] # FREE
  BY <1>1, <1>3
<1>5. a \notin retired /\ a # NULL /\ \A j \in Key : slot[j] # a
  BY <1>1 DEF HazInv, HazSlot
<1>6. slot'[k] = a /\ \A j \in Key \ {k} : slot'[j] = slot[j]
  BY <1>1, <1>3 DEF HazInv, Haz!TypeOK
<1>7. Typed' /\ Haz!TypeOK' /\ target' \in [Thread -> Node \cup {NULL}] /\ InCall'
  BY <1>1, <1>2, <1>3 DEF HazInv, Typed, Haz!TypeOK, InCall
<1>8. \A j \in Key : HazSlot(j)'
  BY <1>2, <1>3, <1>4, <1>5, <1>6 DEF HazInv, Haz!TypeOK, HazSlot
<1>9. \A b \in retired' : data'[b] # FREE
  BY <1>2, <1>3, <1>4 DEF HazInv, Haz!TypeOK, HazSlot
<1>10. \A b \in Node : data'[b] # FREE => b \in retired' \/ \E j \in Key : slot'[j] = b
  BY <1>2, <1>3, <1>4, <1>6 DEF HazInv
<1>11. \A u \in Thread : HazPosition(u)'
  <2>1. \A u \in Thread \ {t} : pc'[u] = pc[u]
    BY <1>2 DEF HazInv, Haz!TypeOK
  <2>2. pc'[t] = "done"
    BY <1>2 DEF HazInv, Haz!TypeOK
  <2>3. QED
    BY <1>2, <1>4, <2>1, <2>2 DEF HazInv, HazPosition
<1>12. QED
  BY <1>7, <1>8, <1>9, <1>10, <1>11 DEF HazInv

LEMMA HazReclaim ==
  ASSUME HazInv, NEW a \in Node, Haz!Reclaim(a)
  PROVE  HazInv'
<1> USE DEF Haz!Reclaim
<1>1. \A b \in Node \ {a} : data'[b] = data[b]
  BY DEF HazInv, Typed
<1>2. a \in retired /\ data'[a] = FREE
  BY DEF HazInv, Typed
<1>3. Typed' /\ Haz!TypeOK' /\ InCall' /\ target' \in [Thread -> Node \cup {NULL}]
  BY DEF HazInv, Typed, Haz!TypeOK, InCall
<1>4. \A k \in Key : HazSlot(k)'
  BY <1>1, <1>2 DEF HazInv, Haz!TypeOK, HazSlot
<1>5. /\ \A b \in retired' : data'[b] # FREE
      /\ \A b \in Node : data'[b] # FREE => b \in retired' \/ \E k \in Key : slot'[k] = b
  BY <1>1, <1>2 DEF HazInv, Haz!TypeOK
<1>6. \A u \in Thread : HazPosition(u)'
  BY <1>1 DEF HazInv, HazPosition
<1>7. QED
  BY <1>3, <1>4, <1>5, <1>6 DEF HazInv

LEMMA HazStep ==
  ASSUME HazInv, NEW t \in Thread, Haz!Step(t)
  PROVE  HazInv'
BY HazQuietSteps, HazExchange DEF Haz!Step

(* haz_ptr_impl takes the steps of my_haz_ptr_impl.                        *)
LEMMA FollyIsHaz ==
  ASSUME NEW t \in Thread, Folly!FollyStep(t)
  PROVE  Haz!Step(t)
<1> USE DEF Folly!Finish, Folly!Goto, Folly!At, Folly!shared, Folly!Read, Folly!Current,
            Folly!KeyOf, Folly!Unpin, Folly!Return, Folly!Set,
            Haz!Finish, Haz!Goto, Haz!At, Haz!shared, Haz!Read, Haz!Current, Haz!KeyOf,
            Haz!Unpin, Haz!Return, Haz!Set
<1>1. Folly!PinLoad(t) => Haz!PinLoad(t)
  BY DEF Folly!PinLoad, Haz!PinLoad
<1>2. Folly!PinPublish(t) => Haz!PinPublish(t)
  BY DEF Folly!PinPublish, Haz!PinPublish
<1>3. Folly!PinValidate(t) => Haz!PinValidate(t)
  BY DEF Folly!PinValidate, Haz!PinValidate
<1>4. Folly!Get(t) => Haz!Get(t)
  BY DEF Folly!Get, Haz!Get, Folly!GetAnswer, Haz!GetAnswer
<1>5. Folly!PutRefused(t) => Haz!PutRefused(t)
  BY DEF Folly!PutRefused, Haz!PutRefused
<1>6. Folly!PutCleared(t) => Haz!PutCleared(t)
  BY DEF Folly!PutCleared, Haz!PutCleared
<1>7. Folly!Exchange(t) => Haz!Exchange(t)
  BY DEF Folly!Exchange, Haz!Exchange, Folly!ExchangeAnd, Haz!ExchangeAnd
<1>8. Folly!Leave(t) => Haz!Leave(t)
  BY DEF Folly!Leave, Haz!Leave
<1>9. QED
  BY <1>1, <1>2, <1>3, <1>4, <1>5, <1>6, <1>7, <1>8 DEF Folly!FollyStep, Folly!GetSteps,
     Folly!PutSteps, Folly!get_protected, Haz!Step

(* Every slot of the filled map keeps a pointer.                           *)
LEMMA SlotsStayFilled ==
  ASSUME HazInv, \A k \in Key : slot[k] # NULL,
         \/ \E t \in Thread : Haz!Call(t) \/ Haz!Step(t)
         \/ \E a \in Node : Haz!Reclaim(a)
  PROVE  \A k \in Key : slot'[k] # NULL
<1>1. ASSUME NEW t \in Thread, Haz!Exchange(t)
      PROVE  \A k \in Key : slot'[k] # NULL
  BY <1>1 DEF Haz!Exchange, Haz!ExchangeAnd, Haz!Set, HazInv, Haz!TypeOK
<1>2. ASSUME NEW t \in Thread,
             \/ Haz!Call(t) \/ Haz!PinLoad(t) \/ Haz!PinPublish(t) \/ Haz!PinValidate(t)
             \/ Haz!Get(t) \/ Haz!PutRefused(t) \/ Haz!PutCleared(t) \/ Haz!Leave(t)
      PROVE  UNCHANGED slot
  BY <1>2 DEF Haz!Call, Haz!Invoke, Haz!PinLoad, Haz!PinPublish, Haz!PinValidate, Haz!Get,
              Haz!PutRefused, Haz!PutCleared, Haz!Leave, Haz!Return, Haz!shared
<1>3. QED
  BY <1>1, <1>2 DEF Haz!Step, Haz!Reclaim

-----------------------------------------------------------------------------
(* The map with counted pointers.                                          *)

Referenced(a) ==
  \/ \E k \in Key : slot[k] = a
  \/ \E t \in Thread : target[t] = a \/ desired[t] = a

(* A Put holds the value it allocated until it is through, and only one    *)
(* that is not to overwrite looks at the slot.                             *)
ArcWriter(t) ==
  /\ pc[t] = "new" => req[t].op = "Put"
  /\ pc[t] \in {"cas", "store"} => req[t].op = "Put" /\ desired[t] \in Node
  /\ pc[t] = "store" => req[t].overwrite
  /\ pc[t] \in {"load", "look", "cas"} /\ req[t].op = "Put" =>
       ~req[t].overwrite /\ desired[t] \in Node

ArcInv ==
  /\ Typed
  /\ Arc!TypeOK
  /\ InCall
  /\ target \in [Thread -> Node \cup {NULL}]
  /\ \A a \in Node : Referenced(a) => data[a] # FREE
  /\ \A t \in Thread : ArcWriter(t)

LEMMA ArcInit == Arc!Init => ArcInv
<1> SUFFICES ASSUME Arc!Init PROVE ArcInv
  OBVIOUS
<1> USE DEF Arc!Init, Arc!InitCalls, Arc!InitThreads
<1>1. Typed /\ Arc!TypeOK /\ InCall /\ target \in [Thread -> Node \cup {NULL}]
  BY DEF Typed, Arc!TypeOK, InCall
<1>2. \A a \in Node : ~Referenced(a)
  BY DEF Referenced
<1>3. QED
  BY <1>1, <1>2 DEF ArcInv, ArcWriter

(* What is let go is deleted only if nothing else refers to it.            *)
LEMMA ArcCounted ==
  ASSUME ArcInv, data' = Arc!Counted \/ data' = data,
         \A a \in Node : Referenced(a)' => Referenced(a)
  PROVE  /\ data' \in [Node -> Value \cup {FREE}]
         /\ \A a \in Node : Referenced(a)' => data'[a] # FREE /\ data'[a] = data[a]
<1>1. CASE data' = data
  BY <1>1 DEF ArcInv, Typed
<1>2. CASE data' = Arc!Counted
  <2>1. \A a \in Node : data'[a] = IF Referenced(a)' THEN data[a] ELSE FREE
    BY <1>2 DEF Arc!Counted, Referenced
  <2>2. data' \in [Node -> Value \cup {FREE}]
    BY <1>2 DEF Arc!Counted, ArcInv, Typed
  <2>3. QED
    BY <2>1, <2>2 DEF ArcInv
<1>3. QED
  BY <1>1, <1>2

LEMMA ArcCall ==
  ASSUME ArcInv, NEW t \in Thread, Arc!Call(t)
  PROVE  ArcInv'
<1>1. PICK r \in Request :
        /\ req' = [req EXCEPT ![t] = r]
        /\ pc' = [pc EXCEPT ![t] = IF r.op = "Get" THEN "load" ELSE "new"]
        /\ UNCHANGED <<slot, data, target, desired, tries>>
  BY DEF Arc!Call, Arc!Invoke, Arc!shared, Arc!Goto, Request, GetRequest, PutRequest,
         Arc!Request, Arc!GetRequest, Arc!PutRequest
<1>2. /\ Typed' /\ Arc!TypeOK' /\ InCall'
      /\ target' \in [Thread -> Node \cup {NULL}]
  BY <1>1 DEF ArcInv, Typed, Arc!TypeOK, InCall
<1>3. \A a \in Node : Referenced(a)' => data'[a] # FREE
  BY <1>1 DEF ArcInv, Referenced
<1>4. \A u \in Thread : ArcWriter(u)'
  <2>1. ArcWriter(t)'
    BY <1>1, RequestFields DEF ArcInv, Typed, Arc!TypeOK, ArcWriter
  <2>2. QED
    BY <1>1, <2>1 DEF ArcInv, Typed, Arc!TypeOK, ArcWriter
<1>5. QED
  BY <1>2, <1>3, <1>4 DEF ArcInv

LEMMA ArcNew ==
  ASSUME ArcInv, NEW t \in Thread, Arc!New(t)
  PROVE  ArcInv'
<1>1. PICK a \in Node :
        /\ data[a] = FREE
        /\ data' = [data EXCEPT ![a] = req[t].val]
        /\ desired' = [desired EXCEPT ![t] = a]
  BY DEF Arc!New, Arc!Allocate
<1>2. /\ pc[t] = "new"
      /\ pc' = [pc EXCEPT ![t] = IF req[t].op = "Put" /\ ~req[t].overwrite
                                 THEN "load" ELSE "store"]
      /\ UNCHANGED <<slot, req, target, tries>>
  BY DEF Arc!New, Arc!Goto, Arc!Keeps
<1>3. req[t] \in Request /\ req[t].op = "Put" /\ req[t].val \in Value /\ req[t].overwrite \in BOOLEAN
  BY <1>2, RequestFields DEF ArcInv, InCall, ArcWriter
<1>4. /\ Typed' /\ Arc!TypeOK' /\ InCall'
      /\ target' \in [Thread -> Node \cup {NULL}]
  BY <1>1, <1>2, <1>3 DEF ArcInv, Typed, Arc!TypeOK, InCall
<1>5. \A b \in Node : Referenced(b)' => data'[b] # FREE
  <2>1. \A b \in Node : Referenced(b)' => b = a \/ Referenced(b)
    BY <1>1, <1>2 DEF ArcInv, Typed, Referenced
  <2>2. QED
    BY <1>1, <1>3, <2>1 DEF ArcInv, Typed
<1>6. \A u \in Thread : ArcWriter(u)'
  BY <1>1, <1>2, <1>3 DEF ArcInv, Typed, Arc!TypeOK, ArcWriter
<1>7. QED
  BY <1>4, <1>5, <1>6 DEF ArcInv

LEMMA ArcOtherSteps ==
  ASSUME ArcInv, NEW t \in Thread,
         \/ Arc!Load(t) \/ Arc!Get(t) \/ Arc!PutRefused(t) \/ Arc!PutCleared(t)
         \/ Arc!PutStored(t) \/ Arc!PutFailed(t) \/ Arc!Store(t) \/ Arc!Leave(t)
  PROVE  ArcInv'
<1> DEFINE k == req[t].key
<1>1. pc[t] # "idle" /\ (data' = Arc!Counted \/ data' = data)
  BY DEF Arc!Load, Arc!Get, Arc!PutRefused, Arc!PutCleared, Arc!PutStored, Arc!PutFailed, Arc!Store, Arc!Leave, Arc!Return, Arc!At, Arc!shared
<1>2. req[t] \in Request /\ k \in Key
  BY <1>1, RequestFields DEF ArcInv, InCall
<1>3. /\ slot' = slot \/ (pc[t] \in {"cas", "store"} /\ slot' = [slot EXCEPT ![k] = desired[t]])
      /\ target' \in {target, [target EXCEPT ![t] = slot[k]], [target EXCEPT ![t] = NULL]}
      /\ desired' = desired \/ desired' = [desired EXCEPT ![t] = NULL]
  <2>1. CASE Arc!Load(t) \/ Arc!Get(t) \/ Arc!PutRefused(t) \/ Arc!PutCleared(t)
    BY <2>1 DEF Arc!Load, Arc!Get, Arc!PutRefused, Arc!PutCleared, Arc!shared, Arc!Read,
                Arc!Current, Arc!KeyOf
  <2>2. CASE Arc!PutStored(t) \/ Arc!Store(t)
    BY <2>2 DEF Arc!PutStored, Arc!Store, Arc!Set, Arc!KeyOf
  <2>3. CASE Arc!PutFailed(t)
    BY <2>3 DEF Arc!PutFailed, Arc!Read, Arc!Current, Arc!KeyOf
  <2>4. CASE Arc!Leave(t)
    BY <2>4 DEF Arc!Leave, Arc!Return
  <2>5. QED
    BY <2>1, <2>2, <2>3, <2>4
<1>4. \A a \in Node : Referenced(a)' => Referenced(a)
  <2> SUFFICES ASSUME NEW a \in Node, Referenced(a)' PROVE Referenced(a)
    OBVIOUS
  <2>1. \A j \in Key : slot'[j] = a => Referenced(a)
    BY <1>2, <1>3 DEF ArcInv, Arc!TypeOK, Referenced
  <2>2. \A u \in Thread : target'[u] = a => Referenced(a)
    BY <1>2, <1>3 DEF ArcInv, Typed, Referenced
  <2>3. \A u \in Thread : desired'[u] = a => Referenced(a)
    BY <1>2, <1>3 DEF ArcInv, Typed, Referenced
  <2>4. QED
    BY <2>1, <2>2, <2>3 DEF Referenced
<1>5. /\ data' \in [Node -> Value \cup {FREE}]
      /\ \A a \in Node : Referenced(a)' => data'[a] # FREE
  BY <1>1, <1>4, ArcCounted
<1>6. slot[k] \in Node \cup {NULL}
  BY <1>2 DEF ArcInv, Arc!TypeOK
<1>7. /\ slot' \in [Key -> Node \cup {NULL}]
      /\ target' \in [Thread -> Node \cup {NULL}]
      /\ desired' \in [Thread -> Node \cup {NULL}]
  BY <1>2, <1>3, <1>6 DEF ArcInv, Arc!TypeOK, Typed
<1>8. \/ pc'[t] # "idle" /\ req' = req /\ pc' \in [Thread -> {"idle", "new", "load", "look", "cas", "store", "done"}]
      \/ /\ pc' = [pc EXCEPT ![t] = "idle"]
         /\ req' = [req EXCEPT ![t] = NULL]
  BY <1>1 DEF Arc!Load, Arc!Get, Arc!PutRefused, Arc!PutCleared, Arc!PutStored, Arc!PutFailed, Arc!Store, Arc!Leave, Arc!Return, Arc!At, Arc!Finish, Arc!Goto,
         ArcInv, Arc!TypeOK
<1>9. \A u \in Thread \ {t} : pc'[u] = pc[u]
  BY DEF Arc!Load, Arc!Get, Arc!PutRefused, Arc!PutCleared, Arc!PutStored, Arc!PutFailed, Arc!Store, Arc!Leave, Arc!Return, Arc!Finish, Arc!Goto,
         ArcInv, Arc!TypeOK
<1>10. tries' \in [Thread -> 0..(kTries - 1)]
  <2>1. CASE Arc!PutFailed(t)
    <3>1. \/ tries' = [tries EXCEPT ![t] = 0]
          \/ tries[t] + 1 # kTries /\ tries' = [tries EXCEPT ![t] = @ + 1]
      BY <2>1 DEF Arc!PutFailed
    <3>2. tries[t] \in 0..(kTries - 1) /\ kTries \in Nat \ {0}
      BY DEF ArcInv, Arc!TypeOK
    <3>3. tries[t] + 1 # kTries => tries[t] + 1 \in 0..(kTries - 1)
      BY <3>2
    <3>4. QED
      BY <3>1, <3>2, <3>3 DEF ArcInv, Arc!TypeOK
  <2>2. CASE Arc!Leave(t)
    BY <2>2 DEF Arc!Leave, ArcInv, Arc!TypeOK
  <2>3. QED
    BY <2>1, <2>2 DEF Arc!Load, Arc!Get, Arc!PutRefused, Arc!PutCleared, Arc!PutStored,
       Arc!Store, ArcInv, Arc!TypeOK
<1>11. Typed' /\ Arc!TypeOK' /\ InCall'
  BY <1>2, <1>5, <1>7, <1>8, <1>9, <1>10 DEF ArcInv, Typed, Arc!TypeOK, InCall
<1>12. \A u \in Thread \ {t} : ArcWriter(u)'
  BY <1>3, <1>8, <1>9 DEF ArcInv, Typed, ArcWriter
<1>13. ArcWriter(t)'
  BY <1>2, RequestFields DEF Arc!Load, Arc!Get, Arc!PutRefused, Arc!PutCleared, Arc!PutStored, Arc!PutFailed, Arc!Store, Arc!Leave, Arc!Return, Arc!At, Arc!Finish, Arc!Goto,
         ArcInv, Typed, Arc!TypeOK, ArcWriter
<1>14. QED
  BY <1>5, <1>7, <1>11, <1>12, <1>13 DEF ArcInv

LEMMA ArcStep ==
  ASSUME ArcInv, NEW t \in Thread, Arc!Step(t)
  PROVE  ArcInv'
BY ArcNew, ArcOtherSteps DEF Arc!Step

-----------------------------------------------------------------------------
(* The implementation in use.                                              *)

IInv ==
  \/ Locks /\ LockInv
  \/ impl = "unq_based" /\ UnqInv
  \/ impl = "boost_arc" /\ ArcInv
  \/ impl = "my_haz_ptr_impl" /\ HazInv
  \/ impl = "haz_ptr_impl" /\ HazInv /\ \A k \in Key : slot[k] # NULL

LEMMA InitInv == Init => IInv
<1>1. Folly!InitFilled => \A k \in Key : slot[k] # NULL
  BY DEF Folly!InitFilled
<1>2. QED
  BY <1>1, LockInit, UnqInit, ArcInit, HazInit DEF Init, IInv, Locks

LEMMA NextInv == IInv /\ [Next]_allVars => IInv'
<1> SUFFICES ASSUME IInv, [Next]_allVars PROVE IInv'
  OBVIOUS
<1>1. CASE UNCHANGED allVars
  <2> USE <1>1 DEF allVars, vars, shared, own
  <2>1. Locks' <=> Locks
    BY DEF Locks
  <2>2. LockInv => LockInv'
    BY DEF LockInv, Typed, InCall, Owning!TypeOK, Owning!OneOwner, Owning!Owns, Owning!KeyOf
  <2>3. UnqInv => UnqInv'
    BY DEF UnqInv, Typed, InCall, Unq!TypeOK, Unq!OneOwner, Unq!Owns, Unq!KeyOf, Unq!Reads,
           UnqInSlot, UnqReader, UnqWriter, UnqHeld
  <2>4. ArcInv => ArcInv'
    BY DEF ArcInv, Typed, InCall, Arc!TypeOK, Referenced, ArcWriter
  <2>5. HazInv => HazInv'
    BY DEF HazInv, Typed, InCall, Haz!TypeOK, HazSlot, HazPosition
  <2>6. QED
    BY <2>1, <2>2, <2>3, <2>4, <2>5 DEF IInv
<1>2. ASSUME Next
      PROVE  IInv'
  <2>1. impl' = impl
    BY <1>2 DEF Next, Call, Step, Reclaim
  <2>2. CASE Locks
    <3>1. \E t \in Thread : \/ Owning!Call(t) \/ InPlace!Call(t)
                            \/ Owning!Step(t) \/ InPlace!Step(t)
      BY <1>2, <2>2 DEF Next, Call, Step, Reclaim, Locks, Pinning
    <3>2. QED
      BY <2>1, <2>2, <3>1, LockCall, LockStep DEF IInv, Locks
  <2>3. CASE impl = "unq_based"
    <3>1. \E t \in Thread : Unq!Call(t) \/ Unq!Step(t)
      BY <1>2, <2>3 DEF Next, Call, Step, Reclaim, Pinning
    <3>2. QED
      BY <2>1, <2>3, <3>1, UnqCall, UnqStep DEF IInv, Locks
  <2>4. CASE impl = "boost_arc"
    <3>1. \E t \in Thread : Arc!Call(t) \/ Arc!Step(t)
      BY <1>2, <2>4 DEF Next, Call, Step, Reclaim, Pinning
    <3>2. QED
      BY <2>1, <2>4, <3>1, ArcCall, ArcStep DEF IInv, Locks
  <2>5. CASE Pinning
    <3>1. \/ \E t \in Thread : Haz!Call(t) \/ Haz!Step(t)
          \/ \E a \in Node : Haz!Reclaim(a)
      BY <1>2, <2>5, FollyIsHaz DEF Next, Call, Step, Reclaim, Pinning
    <3>2. HazInv
      BY <2>5 DEF IInv, Locks, Pinning
    <3>3. HazInv'
      BY <3>1, <3>2, HazCall, HazStep, HazReclaim
    <3>4. (\A k \in Key : slot[k] # NULL) => \A k \in Key : slot'[k] # NULL
      BY <3>1, <3>2, SlotsStayFilled
    <3>5. QED
      BY <2>1, <2>5, <3>3, <3>4 DEF IInv, Locks, Pinning
  <2>6. QED
    BY <2>2, <2>3, <2>4, <2>5 DEF IInv, Pinning
<1>3. QED
  BY <1>1, <1>2

(* Whatever implementation the map is, its invariant holds in every state. *)
THEOREM MapInvariance == Spec => []IInv
<1>1. QED
  BY InitInv, NextInv, PTL DEF Spec

-----------------------------------------------------------------------------
(* What follows from it.                                                   *)

(* A mutex that is locked and a mark in a slot have exactly one owner.     *)
THEOREM OwnersAreUnique == Spec => []OneOwner
<1>1. IInv => OneOwner
  BY DEF IInv, OneOwner, LockInv, UnqInv, Locks
<1>2. QED
  BY <1>1, MapInvariance, PTL

(* A value is alive while a reader that owns or pins it reads it.          *)
THEOREM ReadsAreAlive == Spec => []ReadAlive
<1>1. IInv => ReadAlive
  <2>1. UnqInv => \A t \in Thread : Unq!Reads(t) => data[target[t]] # FREE
    BY DEF UnqInv, UnqReader
  <2>2. HazInv => \A t \in Thread : Haz!Reads(t) => data[target[t]] # FREE
    BY DEF HazInv, HazPosition, Haz!Reads, Haz!At
  <2>3. QED
    BY <2>1, <2>2 DEF IInv, ReadAlive, Locks, Pinning
<1>2. QED
  BY <1>1, MapInvariance, PTL

(* The old value haz_ptr_impl retires without a look is never null.        *)
THEOREM RetiredIsNoNull == Spec => []RetiresPointer
<1>1. IInv => RetiresPointer
  <2>1. HazInv => \A t \in Thread : pc[t] = "exchange" => req[t].key \in Key
    BY RequestFields DEF HazInv, InCall
  <2>2. QED
    BY <2>1 DEF IInv, RetiresPointer, Folly!RetiresPointer, Folly!Current, Folly!KeyOf, Locks
<1>2. QED
  BY <1>1, MapInvariance, PTL

(* Every allocated value is in exactly one place: a slot, the hand of the  *)
(* reader or writer that has it, or the list of retired ones.  Nothing     *)
(* leaks, and nothing is deleted or retired twice.                         *)
THEOREM ValuesHaveOnePlace == Spec => []OnePlace
<1>1. ASSUME UnqInv, NEW a \in Node
      PROVE  /\ data[a] # FREE <=> Unq!Holders(a) # {}
             /\ \A g, h \in Unq!Holders(a) : g = h
  <2>1. \A h : h \in Unq!Holders(a) <=>
          \/ \E k \in Key : slot[k] = a /\ h = <<"slot", k>>
          \/ \E t \in Thread : Unq!Reads(t) /\ target[t] = a /\ h = <<"reader", t>>
          \/ \E t \in Thread : desired[t] = a /\ h = <<"writer", t>>
    BY DEF Unq!Holders
  <2>2. UnqHeld(a) <=> Unq!Holders(a) # {}
    BY <2>1 DEF UnqHeld
  <2>3. UnqHeld(a) => data[a] # FREE
    BY <1>1 DEF UnqHeld, UnqInv, UnqInSlot, UnqReader, UnqWriter
  <2>4. \A g, h \in Unq!Holders(a) : g = h
    BY <1>1, <2>1 DEF UnqInv, UnqInSlot, UnqReader, UnqWriter
  <2>5. QED
    BY <1>1, <2>2, <2>3, <2>4 DEF UnqInv
<1>2. ASSUME HazInv, NEW a \in Node
      PROVE  /\ data[a] # FREE <=> Haz!Holders(a) # {}
             /\ \A g, h \in Haz!Holders(a) : g = h
  <2>1. \A h : h \in Haz!Holders(a) <=>
          \/ \E k \in Key : slot[k] = a /\ h = <<"slot", k>>
          \/ a \in retired /\ h = <<"retired", a>>
    BY DEF Haz!Holders
  <2>2. \A k \in Key : slot[k] = a =>
          data[a] # FREE /\ a \notin retired /\ \A j \in Key : slot[j] = a => j = k
    BY <1>2 DEF HazInv, HazSlot
  <2>3. \A g, h \in Haz!Holders(a) : g = h
    BY <2>1, <2>2
  <2>4. data[a] # FREE <=> a \in retired \/ \E k \in Key : slot[k] = a
    BY <1>2, <2>2 DEF HazInv
  <2>5. QED
    BY <2>1, <2>3, <2>4
<1>3. IInv => OnePlace
  BY <1>1, <1>2 DEF IInv, OnePlace, Locks, Pinning
<1>4. QED
  BY <1>3, MapInvariance, PTL

-----------------------------------------------------------------------------
(* Every implementation of HashMap implements SlotMap, for any number of   *)
(* threads, slots, values and addresses.  The steps at which Get and Put   *)
(* take effect depend on the implementation; what the mapping needs of it, *)
(* beyond the invariant, is said first.                                    *)

(* A call has a request and its answer when it is done, and not before.    *)
Calls ==
  /\ ret \in [Thread -> Value \cup BOOLEAN \cup {ABSENT, FREE, PENDING}]
  /\ \A t \in Thread : /\ pc[t] = "idle" => req[t] = NULL
                       /\ ret[t] = PENDING <=> pc[t] # "done"

(* lock_based: a Put that keeps a value goes on where it has found none.   *)
LockKeeps(t) == pc[t] = "access" /\ Keeps(t) => slot[KeyOf(t)] = ABSENT

(* unq_based: a Get reads again by a pointer; a Put holds its value until  *)
(* it is stored.                                                           *)
UnqAnswers(t) ==
  /\ pc[t] = "reread" => target[t] \in Node /\ req[t].op = "Get"
  /\ desired[t] # NULL => data[desired[t]] = req[t].val

(* boost_arc: a Put that retries has found a value; no slot loses its own. *)
ArcRetries(t) ==
  /\ pc[t] = "cas" /\ target[t] # NULL => slot[req[t].key] # NULL
  /\ pc[t] \in {"load", "look", "cas", "store"} /\ req[t].op = "Put" =>
       data[desired[t]] = req[t].val

(* my_haz_ptr_impl, haz_ptr_impl: an overwriting Put looks at nothing.     *)
HazLooks(t) ==
  pc[t] \in {"load", "pin", "validate", "look"} /\ req[t].op = "Put" => ~req[t].overwrite

RInv ==
  /\ IInv
  /\ Calls
  /\ \A t \in Thread :
       /\ impl = "lock_based" => LockKeeps(t)
       /\ impl = "unq_based" => UnqAnswers(t)
       /\ impl = "boost_arc" => ArcRetries(t)
       /\ Pinning => HazLooks(t)

-----------------------------------------------------------------------------
(* The actions of SlotMap, thread by thread and index by index.            *)

(* What each implementation allows itself.                                 *)
LEMMA Allowed ==
  ASSUME RInv
  PROVE  /\ "late" \in MapAllows <=> ~Locks /\ impl # "unq_based"
         /\ "forced" \in MapAllows <=> impl = "lock_based_no_alloc"
         /\ "denied" \in MapAllows <=> impl = "boost_arc"
         /\ "reread" \in MapAllows <=> impl = "unq_based"
BY DEF MapAllows, RInv, IInv, Locks

IsMap ==
  /\ req = [t \in Thread |-> req[t]]
  /\ MapContents = [k \in Key |-> MapContents[k]]
  /\ MapAnswer = [t \in Thread |-> MapAnswer[t]]
  /\ MapCleared = [t \in Thread |-> MapCleared[t]]
  /\ MapOvertaken \in [Thread -> BOOLEAN]

SameContents == \A k \in Key : MapContents'[k] = MapContents[k]

SameThread(t) ==
  req'[t] = req[t] /\ MapAnswer'[t] = MapAnswer[t] /\ MapCleared'[t] = MapCleared[t]

Asks(t, op) ==
  /\ req[t] # NULL /\ req[t].op = op /\ MapAnswer[t] = PENDING
  /\ req'[t] = req[t]

Invokes(t) ==
  /\ req[t] = NULL /\ req'[t] \in Request
  /\ MapAnswer'[t] = MapAnswer[t] /\ MapCleared'[t] = MapCleared[t]

Looks(t) ==
  /\ Asks(t, "Get")
  /\ MapAnswer'[t] = MapContents[req[t].key] /\ MapCleared'[t] = MapCleared[t]

Rereads(t) ==
  /\ Asks(t, "Get")
  /\ MapAnswer'[t] \in Value \cup {FREE} /\ MapCleared'[t] = MapCleared[t]

Clears(t) ==
  /\ ~Locks /\ impl # "unq_based"
  /\ Asks(t, "Put") /\ ~req[t].overwrite
  /\ MapContents[req[t].key] = ABSENT
  /\ MapAnswer'[t] = MapAnswer[t] /\ MapCleared'[t] = TRUE

Refuses(t) ==
  /\ impl # "lock_based_no_alloc"
  /\ Asks(t, "Put") /\ ~req[t].overwrite
  /\ MapContents[req[t].key] # ABSENT
  /\ MapAnswer'[t] = FALSE /\ MapCleared'[t] = FALSE

Stores(t) ==
  /\ Asks(t, "Put")
  /\ \/ req[t].overwrite
     \/ MapContents[req[t].key] = ABSENT
     \/ MapCleared[t]
     \/ impl = "lock_based_no_alloc"
  /\ MapAnswer'[t] = IF impl = "boost_arc" /\ req[t].overwrite THEN FALSE ELSE TRUE
  /\ MapCleared'[t] = FALSE
  /\ \A k \in Key : MapContents'[k] = IF k = req[t].key THEN req[t].val ELSE MapContents[k]

Returns(t) ==
  /\ req[t] # NULL /\ MapAnswer[t] # PENDING
  /\ req'[t] = NULL /\ MapAnswer'[t] = PENDING /\ MapCleared'[t] = MapCleared[t]

(* What one step of thread t may do to the map, but for its rereading.     *)
Effect(t) ==
  /\ \A u \in Thread \ {t} : SameThread(u)
  /\ \/ Stores(t)
     \/ /\ SameContents
        /\ SameThread(t) \/ Invokes(t) \/ Looks(t) \/ Clears(t) \/ Refuses(t) \/ Returns(t)

(* Who is overtaken: a Get that looks is not, nor is anybody that was not  *)
(* but for the Gets of the index a Put of unq_based stores at.             *)
NotOvertaken(t) == ~MapOvertaken[t] /\ UNCHANGED MapOvertaken

Overtakes(t) ==
  /\ Stores(t)
  /\ \A u \in Thread :
       \/ MapOvertaken'[u] = MapOvertaken[u]
       \/ /\ impl = "unq_based"
          /\ req[u] # NULL /\ req[u].op = "Get" /\ MapAnswer[u] = PENDING
          /\ req[u].key = req[t].key

CatchesUp(t) ==
  /\ \A u \in Thread \ {t} : SameThread(u)
  /\ SameContents /\ Rereads(t)
  /\ MapOvertaken[t] /\ MapOvertaken' = [MapOvertaken EXCEPT ![t] = FALSE]

StepEffect(t) ==
  \/ Effect(t) /\ (NotOvertaken(t) \/ Overtakes(t))
  \/ CatchesUp(t)

LEMMA EffectIsStep ==
  ASSUME RInv, IsMap, IsMap', impl' = impl, NEW t \in Thread, StepEffect(t)
  PROVE  Map!Next \/ UNCHANGED Map!mapVars
<1>1. UNCHANGED MapAllows
  BY DEF MapAllows, Locks
<1>2. \A u \in Thread \ {t} : SameThread(u)
  BY DEF StepEffect, Effect, CatchesUp
<1>3. /\ SameContents => UNCHANGED MapContents
      /\ req'[t] = req[t] => UNCHANGED req
      /\ MapAnswer'[t] = MapAnswer[t] => UNCHANGED MapAnswer
      /\ MapCleared'[t] = MapCleared[t] => UNCHANGED MapCleared
  BY <1>2 DEF IsMap, SameContents, SameThread
<1>4. req' = [req EXCEPT ![t] = req'[t]]
  BY <1>2 DEF IsMap, SameThread
<1>5. MapAnswer' = [MapAnswer EXCEPT ![t] = MapAnswer'[t]]
  BY <1>2 DEF IsMap, SameThread
<1>6. MapCleared' = [MapCleared EXCEPT ![t] = MapCleared'[t]]
  BY <1>2 DEF IsMap, SameThread
<1>7. CASE Stores(t) /\ (NotOvertaken(t) \/ Overtakes(t))
  <2>1. MapContents' = [MapContents EXCEPT ![req[t].key] = req[t].val]
    BY <1>7 DEF IsMap, Stores
  <2>2. /\ MapOvertaken' \in [Thread -> BOOLEAN]
        /\ \A u \in Thread : MapOvertaken'[u] = MapOvertaken[u] \/ Map!Overtakable(u, req[t].key)
    BY <1>7, Allowed DEF IsMap, NotOvertaken, Overtakes, Map!Overtakable, Map!Pending
  <2>3. Map!Answer(t, IF "denied" \in MapAllows /\ req[t].overwrite THEN FALSE ELSE TRUE)
    <3>1. MapAnswer'[t] = IF "denied" \in MapAllows /\ req[t].overwrite THEN FALSE ELSE TRUE
      BY <1>7, Allowed DEF Stores
    <3>2. QED
      BY <1>5, <3>1 DEF Map!Answer
  <2>4. \/ req[t].overwrite
        \/ MapContents[req[t].key] = ABSENT
        \/ MapCleared[t]
        \/ "forced" \in MapAllows
    BY <1>7, Allowed DEF Stores
  <2>5. Map!Pending(t, "Put") /\ UNCHANGED req
    BY <1>3, <1>7 DEF Stores, Asks, Map!Pending
  <2>6. MapCleared' = [MapCleared EXCEPT ![t] = FALSE]
    BY <1>6, <1>7 DEF Stores
  <2>7. Map!Store(t)
    BY <1>1, <2>1, <2>2, <2>3, <2>4, <2>5, <2>6 DEF Map!Store
  <2>8. QED
    BY <2>7 DEF Map!Next
<1>8. CASE CatchesUp(t)
  <2>1. Map!Reread(t)
    BY <1>1, <1>3, <1>5, <1>8 DEF CatchesUp, Rereads, Asks, Map!Reread, Map!Pending, Map!Answer
  <2>2. QED
    BY <2>1 DEF Map!Next
<1>9. ASSUME SameContents, NotOvertaken(t),
             SameThread(t) \/ Invokes(t) \/ Looks(t) \/ Clears(t) \/ Refuses(t) \/ Returns(t)
      PROVE  Map!Next \/ UNCHANGED Map!mapVars
  <2> UNCHANGED MapContents /\ UNCHANGED MapOvertaken
    BY <1>3, <1>9 DEF NotOvertaken
  <2>1. CASE SameThread(t)
    BY <1>1, <1>3, <2>1 DEF SameThread, Map!mapVars
  <2>2. CASE Invokes(t)
    <3>1. Map!Invoke(t)
      BY <1>1, <1>3, <1>4, <2>2 DEF Invokes, Map!Invoke, Map!Request, Map!GetRequest,
         Map!PutRequest, Request, GetRequest, PutRequest
    <3>2. QED
      BY <3>1 DEF Map!Next
  <2>3. CASE Looks(t)
    <3>1. Map!Lookup(t)
      BY <1>1, <1>3, <1>5, <1>9, <2>3 DEF Looks, Asks, NotOvertaken, Map!Lookup, Map!Pending,
         Map!Answer
    <3>2. QED
      BY <3>1 DEF Map!Next
  <2>4. CASE Clears(t)
    <3>1. Map!Clear(t)
      BY <1>1, <1>3, <1>6, <2>4, Allowed DEF Clears, Asks, Map!Clear, Map!Pending
    <3>2. QED
      BY <3>1 DEF Map!Next
  <2>5. CASE Refuses(t)
    <3>1. Map!Refuse(t)
      BY <1>1, <1>3, <1>5, <1>6, <2>5, Allowed DEF Refuses, Asks, Pinning, Map!Refuse, Map!Pending,
         Map!Answer
    <3>2. QED
      BY <3>1 DEF Map!Next
  <2>6. CASE Returns(t)
    <3>1. Map!Return(t)
      BY <1>1, <1>3, <1>4, <1>5, <2>6 DEF Returns, Map!Return, Map!Answer
    <3>2. QED
      BY <3>1 DEF Map!Next
  <2>7. QED
    BY <1>9, <2>1, <2>2, <2>3, <2>4, <2>5, <2>6
<1>10. QED
  BY <1>7, <1>8, <1>9 DEF StepEffect, Effect, Overtakes

(* The mapping is one of functions, whichever implementation is in use.    *)
LEMMA MapIsMap == RInv => IsMap
<1>1. Locks /\ LockInv /\ Calls => IsMap
  BY DEF Locks, LockInv, Typed, Owning!TypeOK, Calls, IsMap, MapContents, MapAnswer,
         MapCleared, MapOvertaken, Pinning, None
<1>2. impl = "unq_based" /\ UnqInv => IsMap
  BY DEF Locks, UnqInv, Typed, IsMap, MapContents, MapAnswer,
         MapCleared, MapOvertaken, Pinning, None, Unq!Contents, Unq!Answer, Unq!Overtaken
<1>3. impl = "boost_arc" /\ ArcInv => IsMap
  BY DEF Locks, ArcInv, Typed, IsMap, MapContents, MapAnswer,
         MapCleared, MapOvertaken, Pinning, None, Arc!Contents, Arc!Answer, Arc!Cleared
<1>4. Pinning /\ HazInv => IsMap
  BY DEF Locks, HazInv, Typed, IsMap, MapContents, MapAnswer,
         MapCleared, MapOvertaken, Pinning, None, Haz!Contents, Haz!Answer, Haz!Cleared
<1>5. QED
  BY <1>1, <1>2, <1>3, <1>4 DEF RInv, IInv, Locks, Pinning

(* Nobody is overtaken but in unq_based.                                   *)
LEMMA NobodyOvertaken ==
  ASSUME impl # "unq_based", impl' = impl, NEW t \in Thread, Effect(t)
  PROVE  StepEffect(t)
BY DEF StepEffect, NotOvertaken, MapOvertaken, None

-----------------------------------------------------------------------------
(* The mutex maps.                                                         *)

LEMMA LockCallEffect ==
  ASSUME RInv, Locks, impl' = impl, LockInv, LockInv', NEW t \in Thread,
         Owning!Call(t) \/ InPlace!Call(t)
  PROVE  Calls' /\ (\A u \in Thread : LockKeeps(u) => LockKeeps(u)') /\ Effect(t)
<1>1. PICK r \in Request :
        /\ req' = [req EXCEPT ![t] = r]
        /\ pc' = [pc EXCEPT ![t] = "lock"]
        /\ pc[t] = "idle"
        /\ UNCHANGED <<slot, data, target, desired, lock, ret>>
  BY DEF Owning!Call, InPlace!Call, Owning!Invoke, InPlace!Invoke,
         Owning!shared, InPlace!shared, Owning!Goto, InPlace!Goto, Request, Owning!Request,
         InPlace!Request, GetRequest, Owning!GetRequest, InPlace!GetRequest, PutRequest,
         Owning!PutRequest, InPlace!PutRequest
<1>2. Typed /\ Owning!TypeOK /\ Calls
  BY DEF RInv, LockInv
<1>3. Calls'
  BY <1>1, <1>2 DEF Calls, Typed, Owning!TypeOK
<1>4. \A u \in Thread : LockKeeps(u) => LockKeeps(u)'
  BY <1>1, <1>2 DEF LockKeeps, KeyOf, Keeps, Typed, Owning!TypeOK
<1>5. /\ MapContents = slot /\ MapContents' = slot'
      /\ MapAnswer = ret /\ MapAnswer' = ret'
      /\ MapCleared = None /\ MapCleared' = None
  BY DEF MapContents, MapAnswer, MapCleared, Locks, Pinning, None
<1>6. \A u \in Thread \ {t} : req'[u] = req[u]
  BY <1>1, <1>2 DEF Typed
<1>7. req[t] = NULL /\ req'[t] \in Request
  BY <1>1, <1>2 DEF Calls, Typed
<1>8. QED
  BY <1>1, <1>3, <1>4, <1>5, <1>6, <1>7 DEF Effect, SameThread, SameContents, Invokes, None

LEMMA LockStepEffect ==
  ASSUME RInv, Locks, impl' = impl, LockInv, LockInv', NEW t \in Thread,
         \/ impl = "lock_based" /\ Owning!Step(t)
         \/ impl = "lock_based_no_alloc" /\ InPlace!Step(t)
  PROVE  /\ Calls'
         /\ \A u \in Thread : impl = "lock_based" => LockKeeps(u)'
         /\ Effect(t)
<1> DEFINE k == req[t].key
           Frame == UNCHANGED <<slot, req, ret>>
           Moves(l) == pc' = [pc EXCEPT ![t] = l]
           Replies(a) == ret' = [ret EXCEPT ![t] = a]
<1>1. /\ Typed /\ Owning!TypeOK /\ Calls /\ InCall /\ Owning!OneOwner
      /\ \A u \in Thread : impl = "lock_based" => LockKeeps(u)
  BY DEF RInv, LockInv
<1>2. pc[t] # "idle"
  BY DEF Owning!Step, InPlace!Step, Owning!Lock, InPlace!Lock, Owning!Look,
         InPlace!Look, Owning!Get, InPlace!Get, Owning!Put, InPlace!Put,
         Owning!Unlock, InPlace!Unlock, Owning!Return, InPlace!Return,
         Owning!At, InPlace!At
<1>3. req[t] \in Request /\ k \in Key /\ req[t].op \in {"Get", "Put"}
  BY <1>1, <1>2, RequestFields DEF InCall
<1>4. /\ MapContents = slot /\ MapContents' = slot'
      /\ MapAnswer = ret /\ MapAnswer' = ret'
      /\ MapCleared = None /\ MapCleared' = None
  BY DEF MapContents, MapAnswer, MapCleared, Locks, Pinning, None
<1>5. req[t] # NULL
  BY <1>3
<1>6. CASE Owning!Lock(t) \/ InPlace!Lock(t)
  <2>1. pc[t] = "lock" /\ Moves("look") /\ Frame
    BY <1>6 DEF Owning!Lock, InPlace!Lock, Owning!Goto, InPlace!Goto, Owning!shared, InPlace!shared
  <2>2. Calls' /\ \A u \in Thread : LockKeeps(u) => LockKeeps(u)'
    BY <1>1, <2>1 DEF Calls, LockKeeps, Keeps, KeyOf, Owning!TypeOK
  <2>3. Effect(t)
    BY <1>4, <2>1 DEF Effect, SameContents, SameThread
  <2>4. QED
    BY <1>1, <2>2, <2>3
<1>7. CASE \/ impl = "lock_based" /\ Owning!Look(t)
           \/ impl = "lock_based_no_alloc" /\ InPlace!Look(t)
  <2>1. /\ pc[t] = "look" /\ UNCHANGED <<slot, req>>
        /\ \/ req[t].op = "Get" /\ slot[k] = ABSENT /\ Moves("done") /\ Replies(ABSENT)
           \/ /\ impl = "lock_based" /\ req[t].op = "Put" /\ ~req[t].overwrite /\ slot[k] # ABSENT
              /\ Moves("done") /\ Replies(FALSE)
           \/ /\ Moves("access") /\ ret' = ret
              /\ impl = "lock_based" /\ Keeps(t) => slot[k] = ABSENT
    BY <1>7 DEF Owning!Look, InPlace!Look, Owning!Goto, InPlace!Goto, Owning!Finish, InPlace!Finish,
       Owning!Current, InPlace!Current, Owning!KeyOf, InPlace!KeyOf, Owning!Keeps, InPlace!Keeps,
       Keeps, Owning!shared, InPlace!shared
  <2>2. Calls' /\ \A u \in Thread : impl = "lock_based" => LockKeeps(u)'
    BY <1>1, <2>1 DEF Calls, LockKeeps, Keeps, KeyOf, Owning!TypeOK
  <2>3. ret[t] = PENDING
    BY <1>1, <2>1 DEF Calls
  <2>4. Effect(t)
    BY <1>1, <1>3, <1>4, <1>5, <2>1, <2>3 DEF Effect, SameContents, SameThread, Asks, Looks,
       Refuses, Calls, None
  <2>5. QED
    BY <2>2, <2>4
<1>8. CASE Owning!Get(t) \/ InPlace!Get(t)
  <2>1. /\ pc[t] = "access" /\ req[t].op = "Get" /\ UNCHANGED <<slot, req>>
        /\ Moves("done") /\ Replies(slot[k])
    BY <1>8 DEF Owning!Get, InPlace!Get, Owning!Goto, InPlace!Goto, Owning!Finish, InPlace!Finish,
       Owning!Current, InPlace!Current, Owning!KeyOf, InPlace!KeyOf, Owning!At, InPlace!At,
       Owning!shared, InPlace!shared
  <2>2. slot[k] \in Value \cup {ABSENT}
    BY <1>1, <1>3 DEF Owning!TypeOK
  <2>3. Calls' /\ \A u \in Thread : LockKeeps(u) => LockKeeps(u)'
    BY <1>1, <2>1, <2>2 DEF Calls, LockKeeps, Keeps, KeyOf, Owning!TypeOK
  <2>4. Effect(t)
    BY <1>1, <1>4, <1>5, <2>1 DEF Effect, SameContents, SameThread, Asks, Looks, Calls
  <2>5. QED
    BY <1>1, <2>3, <2>4
<1>9. CASE Owning!Put(t) \/ InPlace!Put(t)
  <2>1. /\ pc[t] = "access" /\ req[t].op = "Put" /\ UNCHANGED req
        /\ slot' = [slot EXCEPT ![k] = req[t].val]
        /\ Moves("done") /\ Replies(TRUE)
    BY <1>9 DEF Owning!Put, InPlace!Put, Owning!Goto, InPlace!Goto, Owning!Finish, InPlace!Finish,
       Owning!Set, InPlace!Set, Owning!KeyOf, InPlace!KeyOf, Owning!At, InPlace!At
  <2>2. \A u \in Thread \ {t} : pc[u] = "access" => KeyOf(u) # k
    BY <1>1, <1>3, <2>1 DEF Owning!OneOwner, Owning!Owns, Owning!KeyOf, KeyOf, InCall, RequestFields
  <2>3. Calls' /\ \A u \in Thread : impl = "lock_based" => LockKeeps(u)'
    <3>1. Calls'
      BY <1>1, <2>1 DEF Calls, Owning!TypeOK
    <3>2. \A u \in Thread \ {t} : impl = "lock_based" => LockKeeps(u)'
      BY <1>1, <1>3, <2>1, <2>2 DEF LockKeeps, Keeps, KeyOf, Owning!TypeOK
    <3>3. pc'[t] # "access"
      BY <1>1, <2>1 DEF Owning!TypeOK
    <3>4. QED
      BY <3>1, <3>2, <3>3 DEF LockKeeps
  <2>4. /\ impl = "lock_based" /\ ~req[t].overwrite => slot[k] = ABSENT
        /\ ret[t] = PENDING
    BY <1>1, <2>1 DEF LockKeeps, Keeps, KeyOf, Calls
  <2>5. Effect(t)
    <3>1. Stores(t)
      BY <1>1, <1>4, <1>5, <2>1, <2>4 DEF Stores, Asks, None, Calls, Owning!TypeOK, Locks
    <3>2. QED
      BY <1>1, <1>4, <2>1, <3>1 DEF Effect, SameThread, Calls
  <2>6. QED
    BY <2>3, <2>5
<1>10. CASE Owning!Unlock(t) \/ InPlace!Unlock(t)
  <2>1. /\ pc[t] = "done" /\ Moves("idle") /\ UNCHANGED slot /\ Replies(PENDING)
        /\ req' = [req EXCEPT ![t] = NULL]
    BY <1>10 DEF Owning!Unlock, InPlace!Unlock, Owning!Return, InPlace!Return, Owning!Goto,
                InPlace!Goto
  <2>2. Calls' /\ \A u \in Thread : LockKeeps(u) => LockKeeps(u)'
    BY <1>1, <2>1 DEF Calls, LockKeeps, Keeps, KeyOf, Owning!TypeOK, Typed
  <2>3. /\ req'[t] = NULL
        /\ \A u \in Thread \ {t} : req'[u] = req[u]
    BY <1>1, <2>1 DEF Typed
  <2>4. Effect(t)
    BY <1>1, <1>4, <1>5, <2>1, <2>3 DEF Effect, SameContents, SameThread, Returns, Calls, None
  <2>5. QED
    BY <1>1, <2>2, <2>4
<1>11. QED
  BY <1>6, <1>7, <1>8, <1>9, <1>10 DEF Owning!Step, InPlace!Step

-----------------------------------------------------------------------------
(* The ownership transfer map.                                             *)

(* The pointer of a slot that it was taken from is the owner's.            *)
UnqPlaces ==
  \A k \in Key :
    /\ Unq!Contents[k] = IF Unq!Pointer[k] = NULL THEN ABSENT ELSE data[Unq!Pointer[k]]
    /\ slot[k] # kOccupied => Unq!Pointer[k] = slot[k]
    /\ \A t \in Thread : Unq!Owns(t, k) => Unq!Pointer[k] = target[t] /\ target[t] \in Node

LEMMA UnqContents == UnqInv => UnqPlaces
<1> SUFFICES ASSUME UnqInv, NEW k \in Key
             PROVE  /\ slot[k] # kOccupied => Unq!Pointer[k] = slot[k]
                    /\ \A t \in Thread : Unq!Owns(t, k) =>
                         Unq!Pointer[k] = target[t] /\ target[t] \in Node
  BY DEF UnqPlaces, Unq!Contents
<1>1. slot[k] # kOccupied => Unq!Pointer[k] = slot[k]
  BY DEF Unq!Pointer
<1>2. ASSUME NEW t \in Thread, Unq!Owns(t, k)
      PROVE  Unq!Pointer[k] = target[t] /\ target[t] \in Node
  <2>1. slot[k] = kOccupied /\ \A u \in Thread : Unq!Owns(u, k) => u = t
    BY <1>2 DEF UnqInv, Unq!OneOwner
  <2>2. (CHOOSE u \in Thread : Unq!Owns(u, k)) = t
    BY <1>2, <2>1
  <2>3. target[t] \in Node
    BY <1>2 DEF UnqInv, UnqReader, Unq!Owns
  <2>4. QED
    BY <2>1, <2>2, <2>3 DEF Unq!Pointer
<1>3. QED
  BY <1>1, <1>2

(* What is left alone of a slot and of who owns its pointer leaves the     *)
(* pointer alone.                                                          *)
LEMMA UnqSamePointer ==
  ASSUME UnqInv, UnqPlaces, UnqPlaces', NEW k \in Key, UNCHANGED slot[k],
         \A u \in Thread : Unq!Reads(u) =>
           /\ req[u].key = k => Unq!Reads(u)'
           /\ target'[u] = target[u] /\ req'[u] = req[u]
  PROVE  Unq!Pointer'[k] = Unq!Pointer[k]
<1>1. CASE slot[k] = kOccupied
  <2>1. PICK u \in Thread : Unq!Owns(u, k)
    BY <1>1 DEF UnqInv, Unq!OneOwner
  <2>2. Unq!Owns(u, k)' /\ target'[u] = target[u]
    BY <2>1 DEF Unq!Owns, Unq!KeyOf
  <2>3. QED
    BY <2>1, <2>2 DEF UnqPlaces
<1>2. CASE slot[k] # kOccupied
  BY <1>2 DEF UnqPlaces
<1>3. QED
  BY <1>1, <1>2

LEMMA UnqSame ==
  ASSUME UnqInv, UnqPlaces, UnqPlaces', UNCHANGED slot,
         \A u \in Thread : Unq!Reads(u) =>
           /\ Unq!Reads(u)' /\ target'[u] = target[u] /\ req'[u] = req[u]
           /\ data'[target[u]] = data[target[u]],
         \A k \in Key : slot[k] \in Node => data'[slot[k]] = data[slot[k]]
  PROVE  \A k \in Key : /\ Unq!Pointer'[k] = Unq!Pointer[k]
                        /\ Unq!Contents'[k] = Unq!Contents[k]
<1> SUFFICES ASSUME NEW k \in Key
             PROVE  /\ Unq!Pointer'[k] = Unq!Pointer[k]
                    /\ Unq!Contents'[k] = Unq!Contents[k]
  OBVIOUS
<1>1. Unq!Pointer'[k] = Unq!Pointer[k]
  BY UnqSamePointer
<1>2. Unq!Pointer[k] # NULL => data'[Unq!Pointer[k]] = data[Unq!Pointer[k]]
  <2>1. CASE slot[k] = kOccupied
    <3>1. PICK u \in Thread : Unq!Owns(u, k)
      BY <2>1 DEF UnqInv, Unq!OneOwner
    <3>2. QED
      BY <3>1 DEF UnqPlaces, Unq!Owns
  <2>2. CASE slot[k] # kOccupied
    BY <2>2 DEF UnqPlaces, UnqInv, Unq!TypeOK
  <2>3. QED
    BY <2>1, <2>2
<1>3. QED
  BY <1>1, <1>2 DEF UnqPlaces

(* A step that leaves every pointer where it is overtakes nobody.          *)
LEMMA UnqNotOvertaken ==
  ASSUME impl = "unq_based", impl' = impl, InCall, NEW t \in Thread,
         \A u \in Thread \ {t} : pc'[u] = pc[u] /\ req'[u] = req[u] /\ target'[u] = target[u],
         \A k \in Key : Unq!Pointer'[k] = Unq!Pointer[k],
         pc[t] = "reread" => Unq!Pointer[req[t].key] = target[t],
         pc'[t] = "reread" => Unq!Pointer'[req'[t].key] = target'[t]
  PROVE  NotOvertaken(t)
<1>1. MapOvertaken = Unq!Overtaken /\ MapOvertaken' = Unq!Overtaken'
  BY DEF MapOvertaken
<1>2. ~Unq!Overtaken[t] /\ ~Unq!Overtaken'[t]
  BY DEF Unq!Overtaken, Unq!KeyOf
<1>3. \A u \in Thread \ {t} : Unq!Overtaken'[u] = Unq!Overtaken[u]
  <2> SUFFICES ASSUME NEW u \in Thread \ {t} PROVE Unq!Overtaken'[u] = Unq!Overtaken[u]
    OBVIOUS
  <2>1. CASE pc[u] = "reread"
    <3>1. req[u].key \in Key /\ req'[u] = req[u]
      BY <2>1, RequestFields DEF InCall
    <3>2. Unq!Pointer'[req'[u].key] = Unq!Pointer[req[u].key]
      BY <3>1
    <3>3. QED
      BY <3>2, <2>1 DEF Unq!Overtaken, Unq!KeyOf
  <2>2. CASE pc[u] # "reread"
    BY <2>2 DEF Unq!Overtaken
  <2>3. QED
    BY <2>1, <2>2
<1>4. QED
  BY <1>1, <1>2, <1>3 DEF NotOvertaken, Unq!Overtaken

LEMMA UnqCallEffect ==
  ASSUME RInv, impl = "unq_based", impl' = impl, UnqInv, UnqInv', NEW t \in Thread, Unq!Call(t)
  PROVE  Calls' /\ (\A u \in Thread : UnqAnswers(u)') /\ StepEffect(t)
<1>1. PICK r \in Request :
        /\ req' = [req EXCEPT ![t] = r]
        /\ pc' = [pc EXCEPT ![t] = "load"]
        /\ pc[t] = "idle"
        /\ UNCHANGED <<slot, data, target, desired, first, ret>>
  BY DEF Unq!Call, Unq!Invoke, Unq!shared, Unq!Goto, Request, GetRequest, PutRequest,
         Unq!Request, Unq!GetRequest, Unq!PutRequest
<1>2. /\ Typed /\ Unq!TypeOK /\ Calls /\ InCall
      /\ \A u \in Thread : UnqAnswers(u) /\ UnqWriter(u)
  BY DEF RInv, UnqInv
<1>3. Calls'
  BY <1>1, <1>2 DEF Calls, Typed, Unq!TypeOK
<1>4. \A u \in Thread : UnqAnswers(u)'
  BY <1>1, <1>2 DEF UnqAnswers, UnqWriter, Typed, Unq!TypeOK
<1>5. UnqPlaces /\ UnqPlaces'
  BY UnqContents, PTL
<1>6. /\ MapContents = Unq!Contents /\ MapContents' = Unq!Contents'
      /\ MapAnswer = Unq!Answer /\ MapAnswer' = Unq!Answer'
      /\ MapCleared = None /\ MapCleared' = None
  BY DEF MapContents, MapAnswer, MapCleared, Locks, Pinning, None
<1>7. SameContents /\ NotOvertaken(t)
  <2>1. \A u \in Thread : Unq!Reads(u) => Unq!Reads(u)' /\ req'[u] = req[u]
    BY <1>1, <1>2 DEF Unq!Reads, Unq!TypeOK, Typed
  <2>2. \A k \in Key : Unq!Pointer'[k] = Unq!Pointer[k] /\ Unq!Contents'[k] = Unq!Contents[k]
    BY <1>1, <1>5, <2>1, UnqSame
  <2>3. NotOvertaken(t)
    <3>1. pc[t] # "reread" /\ pc'[t] # "reread"
      BY <1>1, <1>2 DEF Unq!TypeOK
    <3>2. \A u \in Thread \ {t} : pc'[u] = pc[u] /\ req'[u] = req[u] /\ target'[u] = target[u]
      BY <1>1, <1>2 DEF Typed, Unq!TypeOK
    <3>3. QED
      BY <1>2, <2>2, <3>1, <3>2, UnqNotOvertaken
  <2>4. QED
    BY <1>6, <2>2, <2>3 DEF SameContents
<1>8. Effect(t)
  <2>1. \A u \in Thread \ {t} : SameThread(u)
    BY <1>1, <1>2, <1>6 DEF SameThread, Unq!Answer, Unq!At, Unq!Keeps, Typed, Unq!TypeOK
  <2>2. Invokes(t)
    BY <1>1, <1>2, <1>6 DEF Invokes, Unq!Answer, Unq!At, Unq!Keeps, Typed, Unq!TypeOK, Calls
  <2>3. QED
    BY <1>7, <2>1, <2>2 DEF Effect
<1>9. QED
  BY <1>3, <1>4, <1>7, <1>8 DEF StepEffect

(* What a step of unq_based that reads the slot shows of the map: a Get    *)
(* that finds no value and a Put that finds one are decided.               *)
LEMMA UnqReadEffect ==
  ASSUME RInv, impl = "unq_based", impl' = impl, UnqInv, UnqInv', NEW t \in Thread,
         Unq!Load(t) \/ Unq!Spin(t)
  PROVE  Calls' /\ (\A u \in Thread : UnqAnswers(u)') /\ StepEffect(t)
<1> DEFINE k == req[t].key
<1>1. /\ Typed /\ Unq!TypeOK /\ Calls /\ InCall
      /\ \A u \in Thread : UnqAnswers(u) /\ UnqWriter(u) /\ UnqReader(u)
      /\ \A j \in Key : UnqInSlot(j)
  BY DEF RInv, UnqInv
<1>2. /\ pc[t] \in {"load", "loop"}
      /\ pc' = [pc EXCEPT ![t] = "loop"]
      /\ target' = [target EXCEPT ![t] = slot[k]]
      /\ UNCHANGED <<slot, req, first, ret>>
  BY <1>1 DEF Unq!Load, Unq!Spin, Unq!Goto, Unq!Read, Unq!Current, Unq!KeyOf, Unq!shared,
     Unq!TypeOK
<1>3. /\ req[t] \in Request /\ k \in Key /\ req[t].op \in {"Get", "Put"}
      /\ req[t].op = "Put" => req[t].val \in Value /\ req[t].overwrite \in BOOLEAN
  BY <1>1, <1>2, RequestFields DEF InCall
<1>4. /\ \A a \in Node : data[a] # FREE => data'[a] = data[a]
      /\ \A u \in Thread \ {t} : desired'[u] = desired[u]
      /\ desired'[t] # NULL => data'[desired'[t]] = req[t].val
  <2>1. CASE UNCHANGED <<data, desired>>
    BY <1>1, <2>1 DEF UnqAnswers
  <2>2. CASE Unq!Allocate(t)
    BY <1>1, <2>2 DEF Unq!Allocate, Typed
  <2>3. QED
    BY <2>1, <2>2 DEF Unq!Load, Unq!Spin, Unq!shared
<1>5. \A u \in Thread : /\ Unq!Reads(u)' <=> Unq!Reads(u)
                        /\ Unq!Reads(u) => target'[u] = target[u]
  BY <1>1, <1>2 DEF Unq!Reads, Unq!TypeOK, Typed
<1>6. Calls'
  BY <1>1, <1>2 DEF Calls, Unq!TypeOK
<1>7. \A u \in Thread : UnqAnswers(u)'
  BY <1>1, <1>2, <1>4 DEF UnqAnswers, UnqWriter, Typed, Unq!TypeOK
<1>8. UnqPlaces /\ UnqPlaces'
  BY UnqContents, PTL
<1>9. /\ MapContents = Unq!Contents /\ MapContents' = Unq!Contents'
      /\ MapAnswer = Unq!Answer /\ MapAnswer' = Unq!Answer'
      /\ MapCleared = None /\ MapCleared' = None
  BY DEF MapContents, MapAnswer, MapCleared, Locks, Pinning, None
<1>10. SameContents /\ NotOvertaken(t)
  <2>1. \A j \in Key : Unq!Pointer'[j] = Unq!Pointer[j] /\ Unq!Contents'[j] = Unq!Contents[j]
    BY <1>1, <1>2, <1>4, <1>5, <1>8, UnqSame DEF UnqInSlot, UnqReader
  <2>2. NotOvertaken(t)
    <3>1. pc[t] # "reread" /\ pc'[t] # "reread"
      BY <1>1, <1>2 DEF Unq!TypeOK
    <3>2. \A u \in Thread \ {t} : pc'[u] = pc[u] /\ req'[u] = req[u] /\ target'[u] = target[u]
      BY <1>1, <1>2 DEF Typed, Unq!TypeOK
    <3>3. QED
      BY <1>1, <2>1, <3>1, <3>2, UnqNotOvertaken
  <2>3. QED
    BY <1>9, <2>1, <2>2 DEF SameContents
<1>11. \A u \in Thread \ {t} : SameThread(u)
  BY <1>1, <1>2, <1>9 DEF SameThread, Unq!Answer, Unq!At, Unq!Keeps, Typed, Unq!TypeOK
<1>12. MapAnswer[t] = PENDING
  <2>1. ret[t] = PENDING
    BY <1>1, <1>2 DEF Calls
  <2>2. pc[t] = "loop" => /\ ~(req[t].op = "Get" /\ target[t] = NULL)
                          /\ ~(req[t].op = "Put" /\ target[t] \in Node /\ ~req[t].overwrite)
    BY DEF Unq!Load, Unq!Spin, Unq!Keeps
  <2>3. QED
    BY <1>9, <2>1, <2>2 DEF Unq!Answer, Unq!At, Unq!Keeps
<1>13. MapAnswer'[t] =
         IF req[t].op = "Get" /\ slot[k] = NULL THEN ABSENT
         ELSE IF req[t].op = "Put" /\ slot[k] \in Node /\ ~req[t].overwrite THEN FALSE
         ELSE PENDING
  <2>1. ret'[t] = PENDING /\ pc'[t] = "loop" /\ target'[t] = slot[k]
    BY <1>1, <1>2 DEF Calls, Typed, Unq!TypeOK
  <2>2. QED
    BY <1>2, <1>9, <2>1 DEF Unq!Answer, Unq!At, Unq!Keeps
<1>14. /\ slot[k] = NULL => MapContents[k] = ABSENT
       /\ slot[k] \in Node => MapContents[k] # ABSENT
  <2>1. slot[k] \in Node => data[slot[k]] \in Value
    BY <1>1, <1>3 DEF UnqInSlot, Typed
  <2>2. QED
    BY <1>3, <1>8, <1>9, <2>1 DEF UnqPlaces
<1>15. SameThread(t) \/ Looks(t) \/ Refuses(t)
  BY <1>2, <1>3, <1>9, <1>12, <1>13, <1>14 DEF SameThread, Looks, Refuses, Asks, Pinning, None
<1>16. QED
  BY <1>6, <1>7, <1>10, <1>11, <1>15 DEF Effect, StepEffect

(* The steps that leave the map as it is: a Get takes the pointer, reads   *)
(* and gives it back; GetAbsent and PutRefused are decided already.        *)
LEMMA UnqQuietEffect ==
  ASSUME RInv, impl = "unq_based", impl' = impl, UnqInv, UnqInv', NEW t \in Thread,
         \/ Unq!GetAbsent(t) \/ Unq!Own(t) \/ Unq!ReadOwned(t) \/ Unq!Restore(t)
         \/ Unq!PutRefused(t)
  PROVE  Calls' /\ (\A u \in Thread : UnqAnswers(u)') /\ StepEffect(t)
<1> DEFINE k == req[t].key
           Moves(l) == pc' = [pc EXCEPT ![t] = l]
           Replies(a) == ret' = [ret EXCEPT ![t] = a]
<1> USE DEF Unq!Finish, Unq!Goto, Unq!shared, Unq!Set, Unq!Current, Unq!KeyOf, Unq!At,
            Unq!CasSucceeds, Unq!Keeps
<1>1. /\ Typed /\ Unq!TypeOK /\ Calls /\ InCall
      /\ \A u \in Thread : UnqAnswers(u) /\ UnqWriter(u) /\ UnqReader(u)
      /\ \A j \in Key : UnqInSlot(j)
  BY DEF RInv, UnqInv
<1>2. UNCHANGED <<req, target>> /\ pc[t] \notin {"idle", "reread"}
  BY DEF Unq!GetAbsent, Unq!Own, Unq!ReadOwned, Unq!Restore, Unq!PutRefused
<1>3. req[t] \in Request /\ k \in Key
  BY <1>1, <1>2, RequestFields DEF InCall
<1>4. UnqPlaces /\ UnqPlaces'
  BY UnqContents, PTL
<1>5. /\ MapContents = Unq!Contents /\ MapContents' = Unq!Contents'
      /\ MapAnswer = Unq!Answer /\ MapAnswer' = Unq!Answer'
      /\ MapCleared = None /\ MapCleared' = None
  BY DEF MapContents, MapAnswer, MapCleared, Locks, Pinning, None
<1>6. /\ \A u \in Thread \ {t} : pc'[u] = pc[u] /\ ret'[u] = ret[u]
      /\ \A u \in Thread \ {t} : desired'[u] = desired[u]
  BY <1>1 DEF Unq!GetAbsent, Unq!Own, Unq!ReadOwned, Unq!Restore, Unq!PutRefused, Calls, Typed,
     Unq!TypeOK
<1>7. \A u \in Thread \ {t} : SameThread(u)
  BY <1>2, <1>5, <1>6 DEF SameThread, Unq!Answer
(* What there is still to show of each of them.                            *)
<1>8. ASSUME \A j \in Key : Unq!Pointer'[j] = Unq!Pointer[j]
                              /\ Unq!Contents'[j] = Unq!Contents[j],
             pc'[t] = "reread" => Unq!Pointer'[k] = target[t],
             Unq!Answer'[t] = Unq!Answer[t]
      PROVE  StepEffect(t)
  <2>1. NotOvertaken(t)
    BY <1>1, <1>2, <1>6, <1>8, UnqNotOvertaken
  <2>2. SameContents /\ SameThread(t)
    BY <1>2, <1>5, <1>8 DEF SameContents, SameThread, None
  <2>3. QED
    BY <1>7, <2>1, <2>2 DEF StepEffect, Effect
<1>9. CASE Unq!GetAbsent(t)
  <2>1. /\ pc[t] = "loop" /\ req[t].op = "Get" /\ target[t] = NULL
        /\ Moves("done") /\ Replies(ABSENT) /\ UNCHANGED <<slot, data, desired>>
    BY <1>9 DEF Unq!GetAbsent
  <2>2. Calls' /\ \A u \in Thread : UnqAnswers(u)'
    BY <1>1, <1>2, <2>1 DEF Calls, UnqAnswers, Unq!TypeOK
  <2>3. \A j \in Key : Unq!Pointer'[j] = Unq!Pointer[j] /\ Unq!Contents'[j] = Unq!Contents[j]
    BY <1>1, <1>2, <1>4, <2>1, UnqSame DEF Unq!Reads, Unq!TypeOK
  <2>4. Unq!Answer'[t] = Unq!Answer[t] /\ pc'[t] # "reread"
    BY <1>1, <1>2, <2>1 DEF Unq!Answer, Calls, Unq!TypeOK
  <2>5. QED
    BY <1>8, <2>2, <2>3, <2>4
<1>10. CASE Unq!Own(t)
  <2>1. /\ pc[t] = "loop" /\ req[t].op = "Get" /\ target[t] \in Node /\ slot[k] = target[t]
        /\ slot' = [slot EXCEPT ![k] = kOccupied]
        /\ Moves("own") /\ UNCHANGED <<data, desired, ret>>
    BY <1>10 DEF Unq!Own
  <2>2. Calls' /\ \A u \in Thread : UnqAnswers(u)'
    BY <1>1, <1>2, <2>1 DEF Calls, UnqAnswers, Unq!TypeOK
  <2>3. \A j \in Key : Unq!Pointer'[j] = Unq!Pointer[j]
    <3>1. Unq!Pointer'[k] = Unq!Pointer[k]
      <4>1. Unq!Owns(t, k)'
        BY <1>1, <1>2, <2>1 DEF Unq!Owns, Unq!Reads, Unq!TypeOK
      <4>2. QED
        BY <1>2, <1>3, <1>4, <2>1, <4>1 DEF UnqPlaces
    <3>2. ASSUME NEW j \in Key, j # k PROVE Unq!Pointer'[j] = Unq!Pointer[j]
      BY <1>1, <1>2, <1>4, <2>1, <3>2, UnqSamePointer DEF Unq!Reads, Unq!TypeOK
    <3>3. QED
      BY <3>1, <3>2
  <2>4. \A j \in Key : Unq!Contents'[j] = Unq!Contents[j]
    BY <1>4, <2>1, <2>3 DEF UnqPlaces
  <2>5. Unq!Answer'[t] = Unq!Answer[t] /\ pc'[t] # "reread"
    BY <1>1, <1>2, <2>1 DEF Unq!Answer, Calls, Unq!TypeOK
  <2>6. QED
    BY <1>8, <2>2, <2>3, <2>4, <2>5
<1>11. CASE Unq!ReadOwned(t)
  <2>1. pc[t] = "own" /\ Moves("restore") /\ UNCHANGED <<slot, data, desired, ret>>
    BY <1>11 DEF Unq!ReadOwned
  <2>2. Calls' /\ \A u \in Thread : UnqAnswers(u)'
    BY <1>1, <1>2, <2>1 DEF Calls, UnqAnswers, Unq!TypeOK
  <2>3. \A j \in Key : Unq!Pointer'[j] = Unq!Pointer[j] /\ Unq!Contents'[j] = Unq!Contents[j]
    BY <1>1, <1>2, <1>4, <2>1, UnqSame DEF Unq!Reads, Unq!TypeOK
  <2>4. Unq!Answer'[t] = Unq!Answer[t] /\ pc'[t] # "reread"
    BY <1>1, <1>2, <2>1 DEF Unq!Answer, Calls, Unq!TypeOK
  <2>5. QED
    BY <1>8, <2>2, <2>3, <2>4
<1>12. CASE Unq!Restore(t)
  <2>1. /\ pc[t] = "restore" /\ slot' = [slot EXCEPT ![k] = target[t]]
        /\ Moves("reread") /\ UNCHANGED <<data, desired, ret>>
    BY <1>12 DEF Unq!Restore
  <2>2. target[t] \in Node /\ req[t].op = "Get" /\ Unq!Owns(t, k)
    BY <1>1, <2>1 DEF UnqReader, Unq!Reads, Unq!Owns
  <2>3. Calls' /\ \A u \in Thread : UnqAnswers(u)'
    BY <1>1, <1>2, <2>1, <2>2 DEF Calls, UnqAnswers, Unq!TypeOK
  <2>4. Unq!Pointer'[k] = target[t]
    BY <1>1, <1>3, <1>4, <2>1, <2>2 DEF UnqPlaces, Unq!TypeOK
  <2>5. \A j \in Key : Unq!Pointer'[j] = Unq!Pointer[j]
    <3>1. Unq!Pointer[k] = target[t]
      BY <1>3, <1>4, <2>2 DEF UnqPlaces
    <3>2. ASSUME NEW j \in Key, j # k PROVE Unq!Pointer'[j] = Unq!Pointer[j]
      BY <1>1, <1>2, <1>3, <1>4, <2>1, <3>2, UnqSamePointer DEF Unq!Reads, Unq!TypeOK
    <3>3. QED
      BY <2>4, <3>1, <3>2
  <2>6. \A j \in Key : Unq!Contents'[j] = Unq!Contents[j]
    BY <1>4, <2>1, <2>5 DEF UnqPlaces
  <2>7. Unq!Answer'[t] = Unq!Answer[t]
    BY <1>1, <1>2, <2>1 DEF Unq!Answer, Calls, Unq!TypeOK
  <2>8. QED
    BY <1>8, <2>3, <2>4, <2>5, <2>6, <2>7
<1>13. CASE Unq!PutRefused(t)
  <2>1. /\ pc[t] = "loop" /\ req[t].op = "Put" /\ target[t] \in Node /\ ~req[t].overwrite
        /\ data' = [data EXCEPT ![desired[t]] = FREE]
        /\ desired' = [desired EXCEPT ![t] = NULL]
        /\ Moves("done") /\ Replies(FALSE) /\ UNCHANGED slot
    BY <1>13 DEF Unq!PutRefused
  <2>2. desired[t] \in Node
    BY <1>1, <2>1 DEF UnqWriter, Typed
  <2>3. /\ \A a \in Node \ {desired[t]} : data'[a] = data[a]
        /\ \A j \in Key : slot[j] # desired[t]
        /\ \A u \in Thread : Unq!Reads(u) => target[u] # desired[t]
        /\ \A u \in Thread \ {t} : desired[u] # desired[t]
    BY <1>1, <2>1, <2>2 DEF UnqInSlot, UnqReader, UnqWriter, Typed
  <2>4. Calls'
    BY <1>1, <1>2, <2>1 DEF Calls, Unq!TypeOK
  <2>5. \A u \in Thread : UnqAnswers(u)'
    BY <1>1, <1>2, <1>6, <2>1, <2>3 DEF UnqAnswers, Unq!TypeOK, Typed
  <2>6. \A j \in Key : Unq!Pointer'[j] = Unq!Pointer[j] /\ Unq!Contents'[j] = Unq!Contents[j]
    BY <1>1, <1>2, <1>4, <2>1, <2>3, UnqSame DEF Unq!Reads, Unq!TypeOK, UnqReader
  <2>7. Unq!Answer'[t] = Unq!Answer[t] /\ pc'[t] # "reread"
    BY <1>1, <1>2, <2>1 DEF Unq!Answer, Calls, Unq!TypeOK
  <2>8. QED
    BY <1>8, <2>4, <2>5, <2>6, <2>7
<1>14. QED
  BY <1>9, <1>10, <1>11, <1>12, <1>13

(* The steps that take effect: a Get reads again, a Put stores, a call     *)
(* returns.                                                                *)
LEMMA UnqTakesEffect ==
  ASSUME RInv, impl = "unq_based", impl' = impl, UnqInv, UnqInv', NEW t \in Thread,
         Unq!Reread(t) \/ Unq!Put(t) \/ Unq!Leave(t)
  PROVE  Calls' /\ (\A u \in Thread : UnqAnswers(u)') /\ StepEffect(t)
<1> DEFINE k == req[t].key
           Moves(l) == pc' = [pc EXCEPT ![t] = l]
           Replies(a) == ret' = [ret EXCEPT ![t] = a]
<1> USE DEF Unq!Finish, Unq!Goto, Unq!shared, Unq!Set, Unq!Current, Unq!KeyOf, Unq!At,
            Unq!CasSucceeds, Unq!Keeps
<1>1. /\ Typed /\ Unq!TypeOK /\ Calls /\ InCall
      /\ \A u \in Thread : UnqAnswers(u) /\ UnqWriter(u) /\ UnqReader(u)
      /\ \A j \in Key : UnqInSlot(j)
  BY DEF RInv, UnqInv
<1>2. pc[t] # "idle"
  BY DEF Unq!Reread, Unq!Put, Unq!Leave, Unq!Return
<1>3. /\ req[t] \in Request /\ req[t] # NULL /\ k \in Key /\ req[t].op \in {"Get", "Put"}
      /\ req[t].op = "Put" => req[t].val \in Value /\ req[t].overwrite \in BOOLEAN
  BY <1>1, <1>2, RequestFields DEF InCall
<1>4. UnqPlaces /\ UnqPlaces'
  BY UnqContents, PTL
<1>5. /\ MapContents = Unq!Contents /\ MapContents' = Unq!Contents'
      /\ MapAnswer = Unq!Answer /\ MapAnswer' = Unq!Answer'
      /\ MapCleared = None /\ MapCleared' = None
  BY DEF MapContents, MapAnswer, MapCleared, Locks, Pinning, None
<1>6. CASE Unq!Reread(t)
  <2>1. /\ pc[t] = "reread" /\ Moves("done") /\ Replies(data[target[t]])
        /\ UNCHANGED <<slot, data, req, target, desired>>
    BY <1>6 DEF Unq!Reread
  <2>2. data[target[t]] \in Value \cup {FREE} /\ target[t] \in Node /\ req[t].op = "Get"
    BY <1>1, <2>1 DEF UnqAnswers, Typed
  <2>3. Calls' /\ \A u \in Thread : UnqAnswers(u)'
    BY <1>1, <2>1, <2>2 DEF Calls, UnqAnswers, Unq!TypeOK
  <2>4. \A j \in Key : Unq!Pointer'[j] = Unq!Pointer[j] /\ Unq!Contents'[j] = Unq!Contents[j]
    BY <1>1, <1>4, <2>1, UnqSame DEF Unq!Reads, Unq!TypeOK
  <2>5. \A u \in Thread \ {t} : SameThread(u)
    BY <1>1, <1>5, <2>1 DEF SameThread, Unq!Answer, Calls, Unq!TypeOK
  <2>6. /\ MapAnswer[t] = PENDING /\ MapAnswer'[t] = data[target[t]]
        /\ MapCleared'[t] = MapCleared[t]
    BY <1>1, <1>5, <2>1 DEF Unq!Answer, Calls, Unq!TypeOK, None
  <2>7. SameContents
    BY <1>5, <2>4 DEF SameContents
  <2>8. \A u \in Thread \ {t} : pc'[u] = pc[u] /\ req'[u] = req[u] /\ target'[u] = target[u]
    BY <1>1, <2>1 DEF Unq!TypeOK
  <2>9. pc'[t] = "done"
    BY <1>1, <2>1 DEF Unq!TypeOK
  <2>10. CASE Unq!Pointer[k] = target[t]
    <3>1. NotOvertaken(t)
      BY <1>1, <2>4, <2>8, <2>9, <2>10, UnqNotOvertaken
    <3>2. Unq!Contents[k] = data[target[t]]
      BY <1>3, <1>4, <2>2, <2>10 DEF UnqPlaces
    <3>3. Looks(t)
      BY <1>3, <1>5, <2>1, <2>2, <2>6, <3>2 DEF Looks, Asks
    <3>4. QED
      BY <2>3, <2>5, <2>7, <3>1, <3>3 DEF Effect, StepEffect
  <2>11. CASE Unq!Pointer[k] # target[t]
    <3>1. Rereads(t)
      BY <1>3, <2>1, <2>2, <2>6 DEF Rereads, Asks
    <3>2. MapOvertaken = Unq!Overtaken /\ MapOvertaken' = Unq!Overtaken'
      BY DEF MapOvertaken
    <3>3. Unq!Overtaken[t] = TRUE
      BY <2>1, <2>11 DEF Unq!Overtaken
    <3>4. Unq!Overtaken' = [Unq!Overtaken EXCEPT ![t] = FALSE]
      <4>1. Unq!Overtaken'[t] = FALSE
        BY <2>9 DEF Unq!Overtaken
      <4>2. ASSUME NEW u \in Thread \ {t} PROVE Unq!Overtaken'[u] = Unq!Overtaken[u]
        <5>1. CASE pc[u] = "reread"
          <6>1. req[u].key \in Key /\ req'[u] = req[u]
            BY <1>1, <2>8, <5>1, RequestFields DEF InCall
          <6>2. Unq!Pointer'[req'[u].key] = Unq!Pointer[req[u].key]
            BY <2>4, <6>1
          <6>3. QED
            BY <2>8, <5>1, <6>2 DEF Unq!Overtaken
        <5>2. CASE pc[u] # "reread"
          BY <2>8, <5>2 DEF Unq!Overtaken
        <5>3. QED
          BY <5>1, <5>2
      <4>3. QED
        BY <4>1, <4>2 DEF Unq!Overtaken
    <3>5. QED
      BY <2>3, <2>5, <2>7, <3>1, <3>2, <3>3, <3>4 DEF CatchesUp, StepEffect
  <2>12. QED
    BY <2>10, <2>11
<1>7. CASE Unq!Put(t)
  <2>1. /\ pc[t] = "loop" /\ req[t].op = "Put"
        /\ target[t] # kOccupied /\ slot[k] = target[t]
        /\ req[t].overwrite \/ target[t] = NULL
        /\ slot' = [slot EXCEPT ![k] = desired[t]]
        /\ data' = [a \in Node |-> IF a = target[t] THEN FREE ELSE data[a]]
        /\ desired' = [desired EXCEPT ![t] = NULL]
        /\ Moves("done") /\ Replies(TRUE) /\ UNCHANGED <<req, target>>
    BY <1>7 DEF Unq!Put
  <2>2. desired[t] \in Node /\ data[desired[t]] = req[t].val /\ desired[t] # target[t]
    BY <1>1, <1>3, <2>1 DEF UnqWriter, UnqAnswers, UnqInSlot, Typed
  <2>3. /\ \A a \in Node \ {target[t]} : data'[a] = data[a]
        /\ \A j \in Key \ {k} : slot[j] \in Node => slot[j] # target[t]
        /\ \A u \in Thread : Unq!Reads(u) => target[u] # target[t]
        /\ \A u \in Thread : desired[u] # NULL => desired[u] # target[t]
    BY <1>1, <1>3, <2>1 DEF UnqInSlot, UnqReader, Typed, Unq!TypeOK
  <2>4. Calls'
    BY <1>1, <2>1 DEF Calls, Unq!TypeOK
  <2>5. \A u \in Thread : UnqAnswers(u)'
    BY <1>1, <2>1, <2>3 DEF UnqAnswers, Unq!TypeOK, Typed
  <2>6. \A u \in Thread \ {t} : SameThread(u)
    BY <1>1, <1>5, <2>1 DEF SameThread, Unq!Answer, Calls, Unq!TypeOK
  <2>7. \A j \in Key \ {k} : Unq!Pointer'[j] = Unq!Pointer[j]
    <3> SUFFICES ASSUME NEW j \in Key \ {k} PROVE Unq!Pointer'[j] = Unq!Pointer[j]
      OBVIOUS
    <3>1. slot'[j] = slot[j]
      BY <1>1, <2>1 DEF Unq!TypeOK
    <3>2. \A u \in Thread : Unq!Reads(u) => Unq!Reads(u)' /\ target'[u] = target[u] /\ req'[u] = req[u]
      BY <1>1, <2>1 DEF Unq!Reads, Unq!TypeOK
    <3>3. QED
      BY <1>4, <3>1, <3>2, UnqSamePointer
  <2>8. \A j \in Key : MapContents'[j] = IF j = k THEN req[t].val ELSE MapContents[j]
    <3> SUFFICES ASSUME NEW j \in Key
                 PROVE  Unq!Contents'[j] = IF j = k THEN req[t].val ELSE Unq!Contents[j]
      BY <1>5
    <3>1. CASE j = k
      <4>1. slot'[k] = desired[t] /\ desired[t] # kOccupied /\ desired[t] # NULL
        BY <1>1, <1>3, <2>1, <2>2 DEF Unq!TypeOK
      <4>2. Unq!Pointer'[k] = desired[t]
        BY <1>3, <1>4, <4>1 DEF UnqPlaces
      <4>3. data'[desired[t]] = req[t].val
        BY <2>2, <2>3
      <4>4. QED
        BY <1>3, <1>4, <3>1, <4>1, <4>2, <4>3 DEF UnqPlaces
    <3>2. CASE j # k
      <4>1. Unq!Pointer[j] # NULL => data'[Unq!Pointer[j]] = data[Unq!Pointer[j]]
        <5>1. CASE slot[j] = kOccupied
          <6>1. PICK u \in Thread : Unq!Owns(u, j)
            BY <5>1 DEF UnqInv, Unq!OneOwner
          <6>2. QED
            BY <1>4, <2>3, <6>1 DEF UnqPlaces, Unq!Owns
        <5>2. CASE slot[j] # kOccupied
          BY <1>1, <1>4, <2>3, <3>2, <5>2 DEF UnqPlaces, Unq!TypeOK
        <5>3. QED
          BY <5>1, <5>2
      <4>2. QED
        BY <1>4, <2>7, <3>2, <4>1 DEF UnqPlaces
    <3>3. QED
      BY <3>1, <3>2
  <2>9. Stores(t)
    <3>1. MapAnswer[t] = PENDING
      BY <1>1, <1>5, <2>1 DEF Unq!Answer, Calls
    <3>2. MapAnswer'[t] = TRUE
      BY <1>1, <1>5, <2>1 DEF Unq!Answer, Calls, Unq!TypeOK
    <3>3. target[t] = NULL => MapContents[k] = ABSENT
      BY <1>3, <1>4, <1>5, <2>1 DEF UnqPlaces
    <3>4. QED
      BY <1>3, <1>5, <2>1, <2>8, <3>1, <3>2, <3>3 DEF Stores, Asks, None
  <2>10. Overtakes(t)
    <3> SUFFICES ASSUME NEW u \in Thread
                 PROVE  \/ MapOvertaken'[u] = MapOvertaken[u]
                        \/ /\ req[u] # NULL /\ req[u].op = "Get" /\ MapAnswer[u] = PENDING
                           /\ req[u].key = k
      BY <2>9 DEF Overtakes
    <3>1. MapOvertaken = Unq!Overtaken /\ MapOvertaken' = Unq!Overtaken'
      BY DEF MapOvertaken
    <3>2. CASE u = t \/ pc[u] # "reread"
      BY <1>1, <2>1, <3>1, <3>2 DEF Unq!Overtaken, Unq!TypeOK
    <3>3. CASE u # t /\ pc[u] = "reread"
      <4>1. req[u] \in Request /\ req[u].key \in Key /\ req[u].op = "Get"
        BY <1>1, <3>3, RequestFields DEF InCall, UnqAnswers
      <4>2. MapAnswer[u] = PENDING
        BY <1>1, <1>5, <3>3 DEF Unq!Answer, Calls
      <4>3. CASE req[u].key = k
        BY <4>1, <4>2, <4>3
      <4>4. CASE req[u].key # k
        <5>1. Unq!Pointer'[req'[u].key] = Unq!Pointer[req[u].key]
          BY <2>1, <2>7, <4>1, <4>4
        <5>2. pc'[u] = pc[u] /\ target'[u] = target[u]
          BY <1>1, <2>1, <3>3 DEF Unq!TypeOK
        <5>3. QED
          BY <3>1, <5>1, <5>2 DEF Unq!Overtaken
      <4>5. QED
        BY <4>3, <4>4
    <3>4. QED
      BY <3>2, <3>3
  <2>11. QED
    BY <2>4, <2>5, <2>6, <2>9, <2>10 DEF Effect, StepEffect
<1>8. CASE Unq!Leave(t)
  <2>1. /\ pc[t] = "done" /\ Moves("idle") /\ Replies(PENDING)
        /\ req' = [req EXCEPT ![t] = NULL]
        /\ target' = [target EXCEPT ![t] = NULL]
        /\ desired' = [desired EXCEPT ![t] = NULL]
        /\ UNCHANGED <<slot, data>>
    BY <1>8 DEF Unq!Leave, Unq!Return
  <2>2. Calls' /\ \A u \in Thread : UnqAnswers(u)'
    BY <1>1, <2>1 DEF Calls, UnqAnswers, Unq!TypeOK, Typed
  <2>3. SameContents /\ NotOvertaken(t)
    <3>1. \A u \in Thread : Unq!Reads(u) => Unq!Reads(u)' /\ target'[u] = target[u] /\ req'[u] = req[u]
      BY <1>1, <2>1 DEF Unq!Reads, Unq!TypeOK, Typed
    <3>2. \A j \in Key : Unq!Pointer'[j] = Unq!Pointer[j] /\ Unq!Contents'[j] = Unq!Contents[j]
      BY <1>1, <1>4, <2>1, <3>1, UnqSame
    <3>3. /\ \A u \in Thread \ {t} : pc'[u] = pc[u] /\ req'[u] = req[u] /\ target'[u] = target[u]
          /\ pc'[t] = "idle"
      BY <1>1, <2>1 DEF Typed, Unq!TypeOK
    <3>4. NotOvertaken(t)
      BY <1>1, <2>1, <3>2, <3>3, UnqNotOvertaken
    <3>5. QED
      BY <1>5, <3>2, <3>4 DEF SameContents
  <2>4. \A u \in Thread \ {t} : SameThread(u)
    BY <1>1, <1>5, <2>1 DEF SameThread, Unq!Answer, Calls, Unq!TypeOK, Typed
  <2>5. Returns(t)
    <3>1. MapAnswer[t] # PENDING
      BY <1>1, <1>5, <2>1 DEF Unq!Answer, Calls
    <3>2. MapAnswer'[t] = PENDING /\ req'[t] = NULL
      BY <1>1, <1>5, <2>1 DEF Unq!Answer, Calls, Unq!TypeOK, Typed
    <3>3. QED
      BY <1>3, <1>5, <3>1, <3>2 DEF Returns
  <2>6. QED
    BY <2>2, <2>3, <2>4, <2>5 DEF Effect, StepEffect
<1>9. QED
  BY <1>6, <1>7, <1>8

LEMMA UnqStepEffect ==
  ASSUME RInv, impl = "unq_based", impl' = impl, UnqInv, UnqInv', NEW t \in Thread, Unq!Step(t)
  PROVE  Calls' /\ (\A u \in Thread : UnqAnswers(u)') /\ StepEffect(t)
BY UnqReadEffect, UnqQuietEffect, UnqTakesEffect DEF Unq!Step

-----------------------------------------------------------------------------
(* The map with counted pointers.                                          *)

(* What a step must say so that it leaves the contents and what another    *)
(* thread is about to answer alone.                                        *)
LEMMA ArcOthers ==
  ASSUME impl = "boost_arc", impl' = impl, NEW u \in Thread,
         pc'[u] = pc[u], req'[u] = req[u], target'[u] = target[u], ret'[u] = ret[u],
         target[u] # NULL => data'[target[u]] = data[target[u]]
  PROVE  SameThread(u)
BY DEF SameThread, MapAnswer, MapCleared, Locks, Pinning, Arc!Answer, Arc!Cleared,
       Arc!At, Arc!GetAnswer

LEMMA ArcCallEffect ==
  ASSUME RInv, impl = "boost_arc", impl' = impl, ArcInv, NEW t \in Thread, Arc!Call(t)
  PROVE  Calls' /\ (\A u \in Thread : ArcRetries(u)') /\ Effect(t)
<1>1. PICK r \in Request :
        /\ req' = [req EXCEPT ![t] = r]
        /\ pc' = [pc EXCEPT ![t] = IF r.op = "Get" THEN "load" ELSE "new"]
        /\ pc[t] = "idle"
        /\ UNCHANGED <<slot, data, target, desired, tries, ret>>
  BY DEF Arc!Call, Arc!Invoke, Arc!shared, Arc!Goto, Request, GetRequest, PutRequest,
         Arc!Request, Arc!GetRequest, Arc!PutRequest
<1>2. Typed /\ Arc!TypeOK /\ Calls /\ \A u \in Thread : ArcRetries(u)
  BY DEF RInv, ArcInv, Locks, Pinning
<1>3. Calls'
  BY <1>1, <1>2 DEF Calls, Typed, Arc!TypeOK
<1>4. \A u \in Thread : ArcRetries(u)'
  BY <1>1, <1>2 DEF ArcRetries, Typed, Arc!TypeOK
<1>5. /\ MapContents = Arc!Contents /\ MapContents' = Arc!Contents'
      /\ MapAnswer = Arc!Answer /\ MapAnswer' = Arc!Answer'
      /\ MapCleared = Arc!Cleared /\ MapCleared' = Arc!Cleared'
  BY DEF MapContents, MapAnswer, MapCleared, Locks, Pinning
<1>6. SameContents
  BY <1>1, <1>5 DEF SameContents, Arc!Contents
<1>7. \A u \in Thread \ {t} : SameThread(u)
  BY <1>1, <1>2, ArcOthers DEF Typed, Arc!TypeOK
<1>8. Invokes(t)
  BY <1>1, <1>2, <1>5 DEF Invokes, Arc!Answer, Arc!Cleared, Arc!At, Calls, Typed, Arc!TypeOK
<1>9. QED
  BY <1>3, <1>4, <1>6, <1>7, <1>8 DEF Effect

(* Nothing takes effect where Put allocates; where the slot is read, a Get *)
(* does, and a Put learns whether it is to store.                          *)
LEMMA ArcReadEffect ==
  ASSUME RInv, impl = "boost_arc", impl' = impl, ArcInv, ArcInv', NEW t \in Thread,
         \/ Arc!New(t) \/ Arc!Load(t) \/ Arc!Get(t) \/ Arc!PutRefused(t) \/ Arc!PutCleared(t)
  PROVE  Calls' /\ (\A u \in Thread : ArcRetries(u)') /\ Effect(t)
<1> DEFINE k == req[t].key
           Moves(l) == pc' = [pc EXCEPT ![t] = l]
           Replies(a) == ret' = [ret EXCEPT ![t] = a]
<1> USE DEF Arc!Finish, Arc!Goto, Arc!shared, Arc!Current, Arc!KeyOf, Arc!At, Arc!Keeps
<1>1. /\ Typed /\ Arc!TypeOK /\ Calls /\ InCall
      /\ \A u \in Thread : ArcRetries(u) /\ ArcWriter(u)
      /\ \A u \in Thread : target[u] \in Node \cup {NULL}
      /\ \A a \in Node : Referenced(a) => data[a] # FREE
  BY DEF RInv, ArcInv, Locks, Pinning
<1>2. pc[t] \in {"new", "load", "look"} /\ UNCHANGED <<slot, req>>
  BY DEF Arc!New, Arc!Load, Arc!Get, Arc!PutRefused, Arc!PutCleared
<1>3. /\ req[t] \in Request /\ req[t] # NULL /\ k \in Key /\ req[t].op \in {"Get", "Put"}
      /\ req[t].op = "Put" => req[t].val \in Value /\ req[t].overwrite \in BOOLEAN
  BY <1>1, <1>2, RequestFields DEF InCall
<1>4. /\ MapContents = Arc!Contents /\ MapContents' = Arc!Contents'
      /\ MapAnswer = Arc!Answer /\ MapAnswer' = Arc!Answer'
      /\ MapCleared = Arc!Cleared /\ MapCleared' = Arc!Cleared'
  BY DEF MapContents, MapAnswer, MapCleared, Locks, Pinning
<1>5. ret[t] = PENDING
  BY <1>1, <1>2 DEF Calls
<1>6. CASE Arc!New(t)
  <2>1. PICK a \in Node :
          /\ data[a] = FREE
          /\ data' = [data EXCEPT ![a] = req[t].val]
          /\ desired' = [desired EXCEPT ![t] = a]
    BY <1>6 DEF Arc!New, Arc!Allocate
  <2>2. /\ pc[t] = "new" /\ req[t].op = "Put"
        /\ Moves(IF ~req[t].overwrite THEN "load" ELSE "store")
        /\ UNCHANGED <<target, ret>>
    BY <1>1, <1>6 DEF Arc!New, ArcWriter
  <2>3. \A b \in Node : Referenced(b) => data'[b] = data[b]
    BY <1>1, <2>1 DEF Typed
  <2>4. Calls'
    BY <1>1, <1>2, <2>2 DEF Calls, Arc!TypeOK
  <2>5. \A u \in Thread \ {t} : ArcRetries(u)'
    BY <1>1, <1>2, <2>1, <2>2, <2>3 DEF ArcRetries, ArcWriter, Referenced, Typed, Arc!TypeOK
  <2>6. ArcRetries(t)'
    BY <1>1, <1>2, <1>3, <2>1, <2>2 DEF ArcRetries, Typed, Arc!TypeOK
  <2>7. SameContents
    BY <1>1, <1>2, <1>4, <2>3 DEF SameContents, Arc!Contents, Referenced, Arc!TypeOK
  <2>8. \A u \in Thread \ {t} : SameThread(u)
    BY <1>1, <1>2, <2>2, <2>3, ArcOthers DEF Referenced, Arc!TypeOK
  <2>9. SameThread(t)
    BY <1>1, <1>2, <1>4, <2>2 DEF SameThread, Arc!Answer, Arc!Cleared, Arc!TypeOK
  <2>10. QED
    BY <2>4, <2>5, <2>6, <2>7, <2>8, <2>9 DEF Effect
<1>7. CASE Arc!Load(t)
  <2>1. /\ pc[t] = "load" /\ Moves("look") /\ target' = [target EXCEPT ![t] = slot[k]]
        /\ UNCHANGED <<data, desired, ret>>
    BY <1>7 DEF Arc!Load, Arc!Read
  <2>2. Calls' /\ \A u \in Thread : ArcRetries(u)'
    BY <1>1, <1>2, <2>1 DEF Calls, ArcRetries, Typed, Arc!TypeOK
  <2>3. SameContents
    BY <1>2, <1>4, <2>1 DEF SameContents, Arc!Contents
  <2>4. \A u \in Thread \ {t} : SameThread(u)
    BY <1>1, <1>2, <2>1, ArcOthers DEF Typed, Arc!TypeOK
  <2>5. /\ Arc!Contents[k] = IF slot[k] = NULL THEN ABSENT ELSE data[slot[k]]
        /\ slot[k] # NULL => data[slot[k]] \in Value
    BY <1>1, <1>3 DEF Arc!Contents, Arc!TypeOK, Referenced, Typed
  <2>6. /\ target'[t] = slot[k] /\ pc'[t] = "look" /\ ret'[t] = PENDING
        /\ MapAnswer[t] = PENDING /\ MapCleared[t] = FALSE
    BY <1>1, <1>4, <1>5, <2>1 DEF Arc!Answer, Arc!Cleared, Typed, Arc!TypeOK
  <2>7. CASE req[t].op = "Get"
    <3>1. MapAnswer'[t] = Arc!Contents[k] /\ MapCleared'[t] = FALSE
      BY <1>2, <1>4, <2>1, <2>5, <2>6, <2>7 DEF Arc!Answer, Arc!Cleared, Arc!GetAnswer
    <3>2. Looks(t)
      BY <1>2, <1>3, <1>4, <2>6, <2>7, <3>1 DEF Looks, Asks
    <3>3. QED
      BY <2>2, <2>3, <2>4, <3>2 DEF Effect
  <2>8. CASE req[t].op = "Put"
    <3>1. ~req[t].overwrite
      BY <1>1, <2>1, <2>8 DEF ArcWriter
    <3>2. slot[k] = NULL => Clears(t)
      BY <1>2, <1>3, <1>4, <2>5, <2>6, <2>8, <3>1 DEF Arc!Answer, Arc!Cleared, Clears, Asks, Locks, Pinning
    <3>3. slot[k] # NULL => Refuses(t)
      BY <1>2, <1>3, <1>4, <2>5, <2>6, <2>8, <3>1 DEF Arc!Answer, Arc!Cleared, Refuses, Asks, Pinning
    <3>4. QED
      BY <2>2, <2>3, <2>4, <3>2, <3>3 DEF Effect
  <2>9. QED
    BY <1>3, <2>7, <2>8
<1>8. CASE Arc!Get(t) \/ Arc!PutRefused(t) \/ Arc!PutCleared(t)
  <2>1. /\ pc[t] = "look" /\ UNCHANGED <<data, target, desired>>
        /\ \/ req[t].op = "Get" /\ Moves("done") /\ Replies(Arc!GetAnswer(t))
           \/ req[t].op = "Put" /\ target[t] # NULL /\ Moves("done") /\ Replies(FALSE)
           \/ req[t].op = "Put" /\ target[t] = NULL /\ Moves("cas") /\ UNCHANGED ret
    BY <1>8 DEF Arc!Get, Arc!PutRefused, Arc!PutCleared
  <2>2. Arc!GetAnswer(t) \in Value \cup {ABSENT}
    BY <1>1 DEF Arc!GetAnswer, Referenced, Typed
  <2>3. Calls' /\ \A u \in Thread : ArcRetries(u)'
    <3>1. Calls'
      <4>1. CASE Moves("cas") /\ UNCHANGED ret
        BY <1>1, <1>2, <2>1, <4>1 DEF Calls, Arc!TypeOK
      <4>2. ASSUME NEW a \in Value \cup {ABSENT} \cup BOOLEAN, Moves("done"), Replies(a)
            PROVE  Calls'
        BY <1>1, <1>2, <4>2 DEF Calls, Arc!TypeOK
      <4>3. QED
        BY <2>1, <2>2, <4>1, <4>2
    <3>2. \A u \in Thread : ArcRetries(u)'
      BY <1>1, <1>2, <2>1 DEF ArcRetries, Arc!TypeOK
    <3>3. QED
      BY <3>1, <3>2
  <2>4. SameContents
    BY <1>2, <1>4, <2>1 DEF SameContents, Arc!Contents
  <2>5. \A u \in Thread \ {t} : SameThread(u)
    BY <1>1, <1>2, <2>1, ArcOthers DEF Calls, Arc!TypeOK
  <2>6. req[t].op = "Put" => ~req[t].overwrite
    BY <1>1, <2>1 DEF ArcWriter
  <2>7. SameThread(t)
    BY <1>1, <1>2, <1>4, <2>1, <2>6 DEF SameThread, Arc!Answer, Arc!Cleared, Calls, Arc!TypeOK
  <2>8. QED
    BY <2>3, <2>4, <2>5, <2>7 DEF Effect
<1>9. QED
  BY <1>6, <1>7, <1>8

(* A Put stores or gives up, and a call returns; what they let go of is    *)
(* deleted if nothing else refers to it.                                   *)
LEMMA ArcTakesEffect ==
  ASSUME RInv, impl = "boost_arc", impl' = impl, ArcInv, ArcInv', NEW t \in Thread,
         \/ Arc!PutStored(t) \/ Arc!PutFailed(t) \/ Arc!Store(t) \/ Arc!Leave(t)
  PROVE  Calls' /\ (\A u \in Thread : ArcRetries(u)') /\ Effect(t)
<1> DEFINE k == req[t].key
           Moves(l) == pc' = [pc EXCEPT ![t] = l]
           Replies(a) == ret' = [ret EXCEPT ![t] = a]
<1> USE DEF Arc!Finish, Arc!Goto, Arc!shared, Arc!Current, Arc!KeyOf, Arc!At, Arc!Keeps
<1>1. /\ Typed /\ Arc!TypeOK /\ Calls /\ InCall
      /\ \A u \in Thread : ArcRetries(u) /\ ArcWriter(u)
      /\ \A u \in Thread : target[u] \in Node \cup {NULL}
      /\ \A a \in Node : Referenced(a) => data[a] # FREE
  BY DEF RInv, ArcInv, Locks, Pinning
<1>2. pc[t] \in {"cas", "store", "done"} /\ data' = Arc!Counted
  BY DEF Arc!PutStored, Arc!PutFailed, Arc!Store, Arc!Leave, Arc!Return
<1>3. /\ req[t] \in Request /\ req[t] # NULL /\ k \in Key /\ req[t].op \in {"Get", "Put"}
      /\ req[t].op = "Put" => req[t].val \in Value /\ req[t].overwrite \in BOOLEAN
  BY <1>1, <1>2, RequestFields DEF InCall
<1>4. /\ MapContents = Arc!Contents /\ MapContents' = Arc!Contents'
      /\ MapAnswer = Arc!Answer /\ MapAnswer' = Arc!Answer'
      /\ MapCleared = Arc!Cleared /\ MapCleared' = Arc!Cleared'
  BY DEF MapContents, MapAnswer, MapCleared, Locks, Pinning
<1>5. \A a \in Node : Referenced(a)' => data'[a] = data[a]
  BY <1>2 DEF Arc!Counted, Referenced
<1>6. /\ \A j \in Key : slot'[j] # NULL => data'[slot'[j]] = data[slot'[j]]
      /\ \A u \in Thread : target'[u] # NULL => data'[target'[u]] = data[target'[u]]
      /\ \A u \in Thread : desired'[u] # NULL => data'[desired'[u]] = data[desired'[u]]
  BY <1>5 DEF Referenced, ArcInv, Arc!TypeOK, Typed
<1>7. CASE Arc!PutStored(t) \/ Arc!Store(t)
  <2>1. /\ \/ pc[t] = "cas" /\ Replies(TRUE)
           \/ pc[t] = "store" /\ Replies(FALSE)
        /\ slot' = [slot EXCEPT ![k] = desired[t]]
        /\ Moves("done") /\ UNCHANGED <<req, target, desired>>
    BY <1>7 DEF Arc!PutStored, Arc!Store, Arc!Set
  <2>2. /\ req[t].op = "Put" /\ desired[t] \in Node /\ data[desired[t]] = req[t].val
        /\ req[t].overwrite <=> pc[t] = "store"
    BY <1>1, <2>1 DEF ArcWriter, ArcRetries
  <2>3. Calls'
    BY <1>1, <2>1 DEF Calls, Arc!TypeOK
  <2>4. \A u \in Thread : ArcRetries(u)'
    <3> SUFFICES ASSUME NEW u \in Thread PROVE ArcRetries(u)'
      OBVIOUS
    <3>1. pc'[u] = "cas" /\ target'[u] # NULL => slot'[req'[u].key] # NULL
      BY <1>1, <2>1, <2>2, RequestFields DEF ArcRetries, Arc!TypeOK, InCall
    <3>2. pc'[u] \in {"load", "look", "cas", "store"} /\ req'[u].op = "Put" =>
            pc'[u] = pc[u] /\ desired'[u] = desired[u] /\ desired'[u] \in Node
      BY <1>1, <2>1 DEF ArcWriter, Arc!TypeOK, Typed
    <3>3. QED
      BY <1>1, <1>6, <2>1, <3>1, <3>2 DEF ArcRetries
  <2>5. \A u \in Thread \ {t} : SameThread(u)
    BY <1>1, <1>6, <2>1, ArcOthers DEF Calls, Arc!TypeOK
  <2>6. \A j \in Key : MapContents'[j] = IF j = k THEN req[t].val ELSE MapContents[j]
    <3>1. slot'[k] = desired[t] /\ data'[desired[t]] = req[t].val
      BY <1>1, <1>3, <1>6, <2>1, <2>2 DEF Arc!TypeOK
    <3>2. \A j \in Key \ {k} : slot'[j] = slot[j] /\ (slot[j] # NULL => data'[slot[j]] = data[slot[j]])
      BY <1>1, <1>6, <2>1 DEF Arc!TypeOK
    <3>3. QED
      BY <1>4, <2>2, <3>1, <3>2 DEF Arc!Contents
  <2>7. Stores(t)
    <3>1. /\ MapAnswer[t] = PENDING /\ MapCleared'[t] = FALSE
          /\ MapAnswer'[t] = IF req[t].overwrite THEN FALSE ELSE TRUE
      BY <1>1, <1>4, <2>1, <2>2 DEF Arc!Answer, Arc!Cleared, Calls, Arc!TypeOK
    <3>2. pc[t] = "cas" => MapCleared[t]
      BY <1>4 DEF Arc!Cleared
    <3>3. QED
      BY <1>3, <1>4, <2>1, <2>2, <2>6, <3>1, <3>2 DEF Stores, Asks, Pinning
  <2>8. QED
    BY <2>3, <2>4, <2>5, <2>7 DEF Effect
<1>8. CASE Arc!PutFailed(t)
  <2>1. /\ pc[t] = "cas" /\ slot[k] # target[t] /\ target' = [target EXCEPT ![t] = slot[k]]
        /\ \/ Moves("done") /\ Replies(FALSE)
           \/ UNCHANGED <<pc, ret>>
        /\ UNCHANGED <<slot, req, desired>>
    BY <1>8 DEF Arc!PutFailed, Arc!Read
  <2>2. /\ req[t].op = "Put" /\ ~req[t].overwrite /\ slot[k] # NULL
    BY <1>1, <2>1 DEF ArcWriter, ArcRetries
  <2>3. Calls'
    BY <1>1, <2>1 DEF Calls, Arc!TypeOK
  <2>4. \A u \in Thread : ArcRetries(u)'
    <3> SUFFICES ASSUME NEW u \in Thread PROVE ArcRetries(u)'
      OBVIOUS
    <3>1. pc'[u] = "cas" /\ target'[u] # NULL => slot'[req'[u].key] # NULL
      BY <1>1, <2>1, <2>2 DEF ArcRetries, Arc!TypeOK, Typed
    <3>2. pc'[u] \in {"load", "look", "cas", "store"} /\ req'[u].op = "Put" =>
            pc'[u] = pc[u] /\ desired'[u] = desired[u] /\ desired'[u] \in Node
      BY <1>1, <2>1 DEF ArcWriter, Arc!TypeOK, Typed
    <3>3. QED
      BY <1>1, <1>6, <2>1, <3>1, <3>2 DEF ArcRetries
  <2>5. \A u \in Thread \ {t} : SameThread(u)
    BY <1>1, <1>6, <2>1, ArcOthers DEF Calls, Arc!TypeOK, Typed
  <2>6. SameContents
    BY <1>4, <1>6, <2>1 DEF SameContents, Arc!Contents
  <2>7. MapContents[k] # ABSENT
    BY <1>1, <1>3, <1>4, <2>2 DEF Arc!Contents, Arc!TypeOK, Referenced, Typed
  <2>8. MapAnswer[t] = PENDING /\ MapCleared[t] = TRUE
    BY <1>1, <1>4, <2>1 DEF Arc!Answer, Arc!Cleared, Calls
  <2>9. SameThread(t) \/ Refuses(t)
    <3>1. CASE Moves("done") /\ Replies(FALSE)
      BY <1>1, <1>3, <1>4, <2>1, <2>2, <2>7, <2>8, <3>1 DEF Refuses, Asks, Pinning, Arc!Answer, Arc!Cleared,
         Calls, Arc!TypeOK
    <3>2. CASE UNCHANGED <<pc, ret>>
      BY <1>4, <2>1, <2>8, <3>2 DEF SameThread, Arc!Answer, Arc!Cleared
    <3>3. QED
      BY <2>1, <3>1, <3>2
  <2>10. QED
    BY <2>3, <2>4, <2>5, <2>6, <2>9 DEF Effect
<1>9. CASE Arc!Leave(t)
  <2>1. /\ pc[t] = "done" /\ Moves("idle") /\ Replies(PENDING)
        /\ req' = [req EXCEPT ![t] = NULL]
        /\ target' = [target EXCEPT ![t] = NULL]
        /\ desired' = [desired EXCEPT ![t] = NULL]
        /\ UNCHANGED slot
    BY <1>9 DEF Arc!Leave, Arc!Return
  <2>2. Calls'
    BY <1>1, <2>1 DEF Calls, Arc!TypeOK, Typed
  <2>3. \A u \in Thread : ArcRetries(u)'
    <3> SUFFICES ASSUME NEW u \in Thread PROVE ArcRetries(u)'
      OBVIOUS
    <3>1. CASE u = t
      BY <1>1, <2>1, <3>1 DEF ArcRetries, Arc!TypeOK
    <3>2. CASE u # t
      <4>1. /\ pc'[u] = pc[u] /\ desired'[u] = desired[u] /\ req'[u] = req[u]
            /\ target'[u] = target[u]
        BY <1>1, <2>1, <3>2 DEF Arc!TypeOK, Typed
      <4>2. QED
        BY <1>1, <1>6, <2>1, <4>1 DEF ArcRetries, ArcWriter
    <3>3. QED
      BY <3>1, <3>2
  <2>4. \A u \in Thread \ {t} : SameThread(u)
    BY <1>1, <1>6, <2>1, ArcOthers DEF Calls, Arc!TypeOK, Typed
  <2>5. SameContents
    BY <1>4, <1>6, <2>1 DEF SameContents, Arc!Contents
  <2>6. Returns(t)
    BY <1>1, <1>3, <1>4, <2>1 DEF Returns, Arc!Answer, Arc!Cleared, Calls, Arc!TypeOK, Typed
  <2>7. QED
    BY <2>2, <2>3, <2>4, <2>5, <2>6 DEF Effect
<1>10. QED
  BY <1>7, <1>8, <1>9

LEMMA ArcStepEffect ==
  ASSUME RInv, impl = "boost_arc", impl' = impl, ArcInv, ArcInv', NEW t \in Thread, Arc!Step(t)
  PROVE  Calls' /\ (\A u \in Thread : ArcRetries(u)') /\ Effect(t)
BY ArcReadEffect, ArcTakesEffect DEF Arc!Step

-----------------------------------------------------------------------------
(* The maps with hazard pointers.                                          *)

LEMMA HazOthers ==
  ASSUME Pinning, impl' = impl, NEW u \in Thread,
         pc'[u] = pc[u], req'[u] = req[u], target'[u] = target[u], ret'[u] = ret[u],
         pc[u] = "look" /\ target[u] # NULL => data'[target[u]] = data[target[u]]
  PROVE  SameThread(u)
BY DEF SameThread, MapAnswer, MapCleared, Locks, Pinning, Haz!Answer, Haz!Cleared,
       Haz!At, Haz!Keeps, Haz!GetAnswer

LEMMA HazCallEffect ==
  ASSUME RInv, Pinning, impl' = impl, HazInv, NEW t \in Thread, Haz!Call(t)
  PROVE  Calls' /\ (\A u \in Thread : HazLooks(u)') /\ Effect(t)
<1>1. PICK r \in Request :
        /\ req' = [req EXCEPT ![t] = r]
        /\ pc' = [pc EXCEPT ![t] = IF r.op = "Put" /\ r.overwrite THEN "exchange" ELSE "load"]
        /\ pc[t] = "idle"
        /\ UNCHANGED <<slot, data, target, desired, ret>>
  BY DEF Haz!Call, Haz!Invoke, Haz!shared, Haz!Goto, Request, GetRequest, PutRequest,
         Haz!Request, Haz!GetRequest, Haz!PutRequest
<1>2. Typed /\ Haz!TypeOK /\ Calls /\ \A u \in Thread : HazLooks(u)
  BY DEF RInv, HazInv
<1>3. Calls'
  BY <1>1, <1>2 DEF Calls, Typed, Haz!TypeOK
<1>4. \A u \in Thread : HazLooks(u)'
  BY <1>1, <1>2 DEF HazLooks, Typed, Haz!TypeOK
<1>5. /\ MapContents = Haz!Contents /\ MapContents' = Haz!Contents'
      /\ MapAnswer = Haz!Answer /\ MapAnswer' = Haz!Answer'
      /\ MapCleared = Haz!Cleared /\ MapCleared' = Haz!Cleared'
  BY DEF MapContents, MapAnswer, MapCleared, Locks, Pinning
<1>6. SameContents
  BY <1>1, <1>5 DEF SameContents, Haz!Contents
<1>7. \A u \in Thread \ {t} : SameThread(u)
  BY <1>1, <1>2, HazOthers DEF Typed, Haz!TypeOK
<1>8. Invokes(t)
  BY <1>1, <1>2, <1>5 DEF Invokes, Haz!Answer, Haz!Cleared, Haz!At, Haz!Keeps, Calls, Typed,
     Haz!TypeOK
<1>9. QED
  BY <1>3, <1>4, <1>6, <1>7, <1>8 DEF Effect

(* Get and the look of a Put: they take effect when the slot held no       *)
(* pointer, or when it still held the one that was published.              *)
LEMMA HazReadEffect ==
  ASSUME RInv, Pinning, impl' = impl, HazInv, NEW t \in Thread,
         \/ Haz!PinLoad(t) \/ Haz!PinPublish(t) \/ Haz!PinValidate(t)
         \/ Haz!Get(t) \/ Haz!PutRefused(t) \/ Haz!PutCleared(t)
  PROVE  Calls' /\ (\A u \in Thread : HazLooks(u)') /\ Effect(t)
<1> DEFINE k == req[t].key
           Moves(l) == pc' = [pc EXCEPT ![t] = l]
           Replies(a) == ret' = [ret EXCEPT ![t] = a]
<1> USE DEF Haz!Finish, Haz!Goto, Haz!shared, Haz!Current, Haz!KeyOf, Haz!At
<1>1. /\ Typed /\ Haz!TypeOK /\ Calls /\ InCall
      /\ \A u \in Thread : HazLooks(u) /\ HazPosition(u)
      /\ \A u \in Thread : target[u] \in Node \cup {NULL}
      /\ \A j \in Key : HazSlot(j)
  BY DEF RInv, HazInv
<1>2. pc[t] \in {"load", "pin", "validate", "look"} /\ UNCHANGED <<slot, data, req>>
  BY DEF Haz!PinLoad, Haz!PinPublish, Haz!PinValidate, Haz!Get, Haz!PutRefused, Haz!PutCleared
<1>3. /\ req[t] \in Request /\ req[t] # NULL /\ k \in Key /\ req[t].op \in {"Get", "Put"}
      /\ req[t].op = "Put" => req[t].val \in Value /\ ~req[t].overwrite
  BY <1>1, <1>2, RequestFields DEF InCall, HazLooks
<1>4. /\ MapContents = Haz!Contents /\ MapContents' = Haz!Contents'
      /\ MapAnswer = Haz!Answer /\ MapAnswer' = Haz!Answer'
      /\ MapCleared = Haz!Cleared /\ MapCleared' = Haz!Cleared'
  BY DEF MapContents, MapAnswer, MapCleared, Locks, Pinning
<1>5. SameContents
  BY <1>2, <1>4 DEF SameContents, Haz!Contents
<1>6. /\ \A u \in Thread \ {t} : pc'[u] = pc[u] /\ target'[u] = target[u] /\ ret'[u] = ret[u]
      /\ \A u \in Thread \ {t} : SameThread(u)
  <2>1. \A u \in Thread \ {t} : pc'[u] = pc[u] /\ target'[u] = target[u] /\ ret'[u] = ret[u]
    BY <1>1 DEF Haz!PinLoad, Haz!PinPublish, Haz!PinValidate, Haz!Get, Haz!PutRefused,
       Haz!PutCleared, Haz!Read, Calls, Typed, Haz!TypeOK
  <2>2. QED
    BY <1>2, <2>1, HazOthers
<1>7. ret[t] = PENDING
  BY <1>1, <1>2 DEF Calls
<1>8. \A u \in Thread : HazLooks(u)'
  BY <1>1, <1>2, <1>3, <1>6 DEF HazLooks
(* Reading p from the slot for the last time.                              *)
<1>9. ASSUME pc[t] # "look", Moves("look"), ret' = ret, target'[t] = slot[k]
      PROVE  Calls' /\ Effect(t)
  <2>1. Calls'
    BY <1>1, <1>2, <1>9 DEF Calls, Haz!TypeOK
  <2>2. /\ Haz!Contents[k] = IF slot[k] = NULL THEN ABSENT ELSE data[slot[k]]
        /\ slot[k] # NULL => data[slot[k]] \in Value
    BY <1>1, <1>3 DEF Haz!Contents, Haz!TypeOK, HazSlot, Typed
  <2>3. pc'[t] = "look" /\ MapAnswer[t] = PENDING /\ MapCleared[t] = FALSE
    BY <1>1, <1>2, <1>4, <1>7, <1>9 DEF Haz!Answer, Haz!Cleared, Haz!TypeOK
  <2>4. CASE req[t].op = "Get"
    <3>1. MapAnswer'[t] = Haz!Contents[k] /\ MapCleared'[t] = FALSE
      BY <1>2, <1>4, <1>9, <2>2, <2>3, <2>4 DEF Haz!Answer, Haz!Cleared, Haz!GetAnswer
    <3>2. Looks(t)
      BY <1>2, <1>3, <1>4, <2>3, <2>4, <3>1 DEF Looks, Asks
    <3>3. QED
      BY <1>5, <1>6, <2>1, <3>2 DEF Effect
  <2>5. CASE req[t].op = "Put"
    <3>1. slot[k] = NULL => Clears(t)
      BY <1>2, <1>3, <1>4, <1>9, <2>2, <2>3, <2>5 DEF Haz!Answer, Haz!Cleared, Clears, Asks, Locks, Pinning
    <3>2. slot[k] # NULL => Refuses(t)
      BY <1>2, <1>3, <1>4, <1>9, <2>2, <2>3, <2>5 DEF Haz!Answer, Haz!Cleared, Refuses, Asks, Pinning
    <3>3. QED
      BY <1>5, <1>6, <2>1, <3>1, <3>2 DEF Effect
  <2>6. QED
    BY <1>3, <2>4, <2>5
(* Reading it, or looking whether it is still there, in vain.              *)
<1>10. ASSUME NEW l \in {"load", "pin", "validate"}, pc[t] # "look", Moves(l), ret' = ret
       PROVE  Calls' /\ Effect(t)
  <2>1. Calls'
    BY <1>1, <1>2, <1>10 DEF Calls, Haz!TypeOK
  <2>2. pc'[t] = l
    BY <1>1, <1>10 DEF Haz!TypeOK
  <2>3. SameThread(t)
    BY <1>2, <1>4, <1>10, <2>2 DEF SameThread, Haz!Answer, Haz!Cleared
  <2>4. QED
    BY <1>5, <1>6, <2>1, <2>3 DEF Effect
<1>11. CASE Haz!PinLoad(t)
  <2>1. /\ pc[t] = "load" /\ ret' = ret /\ target'[t] = slot[k]
        /\ Moves("look") \/ Moves("pin")
    BY <1>1, <1>11 DEF Haz!PinLoad, Haz!Read, Typed
  <2>2. QED
    BY <1>8, <1>9, <1>10, <2>1
<1>12. CASE Haz!PinPublish(t)
  BY <1>8, <1>10, <1>12 DEF Haz!PinPublish
<1>13. CASE Haz!PinValidate(t)
  <2>1. /\ pc[t] = "validate" /\ ret' = ret
        /\ (slot[k] = target[t] /\ target'[t] = slot[k] /\ Moves("look")) \/ Moves("load")
    BY <1>13 DEF Haz!PinValidate
  <2>2. QED
    BY <1>8, <1>9, <1>10, <2>1
<1>14. CASE Haz!Get(t) \/ Haz!PutRefused(t)
  <2>1. PICK a :
          /\ pc[t] = "look" /\ Moves("done") /\ Replies(a)
          /\ a = IF req[t].op = "Get" THEN Haz!GetAnswer(t) ELSE FALSE
          /\ req[t].op = "Put" => target[t] # NULL
          /\ UNCHANGED target
    BY <1>14 DEF Haz!Get, Haz!PutRefused
  <2>2. a \in Value \cup {ABSENT} \cup BOOLEAN
    BY <1>1, <2>1 DEF Haz!GetAnswer, HazPosition, Typed
  <2>3. Calls'
    BY <1>1, <1>2, <2>1, <2>2 DEF Calls, Haz!TypeOK
  <2>4. SameThread(t)
    <3>1. MapAnswer[t] = a /\ MapAnswer'[t] = a
      BY <1>1, <1>3, <1>4, <2>1 DEF Haz!Answer, Calls, Haz!TypeOK
    <3>2. MapCleared[t] = FALSE /\ MapCleared'[t] = FALSE
      BY <1>1, <1>3, <1>4, <2>1 DEF Haz!Cleared, Haz!TypeOK
    <3>3. QED
      BY <1>2, <1>4, <3>1, <3>2 DEF SameThread
  <2>5. QED
    BY <1>5, <1>6, <1>8, <2>3, <2>4 DEF Effect
<1>15. CASE Haz!PutCleared(t)
  <2>1. /\ pc[t] = "look" /\ req[t].op = "Put" /\ target[t] = NULL
        /\ Moves("exchange") /\ ret' = ret
    BY <1>15 DEF Haz!PutCleared
  <2>2. Calls'
    BY <1>1, <1>2, <2>1 DEF Calls, Haz!TypeOK
  <2>3. SameThread(t)
    BY <1>1, <1>2, <1>3, <1>4, <1>7, <2>1 DEF SameThread, Haz!Answer, Haz!Cleared, Haz!Keeps,
       Haz!TypeOK
  <2>4. QED
    BY <1>5, <1>6, <1>8, <2>2, <2>3 DEF Effect
<1>16. QED
  BY <1>11, <1>12, <1>13, <1>14, <1>15

(* A Put replaces whatever is in the slot; the value of a reader that has  *)
(* validated its pointer stays what it was.                                *)
LEMMA HazTakesEffect ==
  ASSUME RInv, Pinning, impl' = impl, HazInv, NEW t \in Thread, Haz!Exchange(t) \/ Haz!Leave(t)
  PROVE  Calls' /\ (\A u \in Thread : HazLooks(u)') /\ Effect(t)
<1> DEFINE k == req[t].key
           Moves(l) == pc' = [pc EXCEPT ![t] = l]
           Replies(a) == ret' = [ret EXCEPT ![t] = a]
<1> USE DEF Haz!Finish, Haz!Goto, Haz!shared, Haz!Current, Haz!KeyOf, Haz!At, Haz!Keeps
<1>1. /\ Typed /\ Haz!TypeOK /\ Calls /\ InCall
      /\ \A u \in Thread : HazLooks(u) /\ HazPosition(u)
      /\ \A j \in Key : HazSlot(j)
  BY DEF RInv, HazInv
<1>2. pc[t] # "idle"
  BY DEF Haz!Exchange, Haz!ExchangeAnd, Haz!Leave, Haz!Return
<1>3. /\ req[t] \in Request /\ req[t] # NULL /\ k \in Key /\ req[t].op \in {"Get", "Put"}
      /\ req[t].op = "Put" => req[t].val \in Value /\ req[t].overwrite \in BOOLEAN
  BY <1>1, <1>2, RequestFields DEF InCall
<1>4. /\ MapContents = Haz!Contents /\ MapContents' = Haz!Contents'
      /\ MapAnswer = Haz!Answer /\ MapAnswer' = Haz!Answer'
      /\ MapCleared = Haz!Cleared /\ MapCleared' = Haz!Cleared'
  BY DEF MapContents, MapAnswer, MapCleared, Locks, Pinning
<1>5. CASE Haz!Exchange(t)
  <2>1. PICK a \in Node :
          /\ data[a] = FREE
          /\ data'[a] = req[t].val
          /\ \A n \in Node \ {a} : data'[n] = data[n]
          /\ slot' = [slot EXCEPT ![k] = a]
    BY <1>5 DEF Haz!Exchange, Haz!ExchangeAnd, Haz!Set
  <2>2. /\ pc[t] = "exchange" /\ req[t].op = "Put"
        /\ Moves("done") /\ Replies(TRUE) /\ UNCHANGED <<req, target>>
    BY <1>1, <1>5 DEF Haz!Exchange, Haz!ExchangeAnd, HazPosition
  <2>3. Calls' /\ \A u \in Thread : HazLooks(u)'
    BY <1>1, <2>2 DEF Calls, HazLooks, Haz!TypeOK
  <2>4. \A u \in Thread \ {t} : SameThread(u)
    <3>1. \A u \in Thread : pc[u] = "look" /\ target[u] # NULL => data'[target[u]] = data[target[u]]
      BY <1>1, <2>1 DEF HazPosition, HazInv
    <3>2. QED
      BY <1>1, <2>2, <3>1, HazOthers DEF Calls, Haz!TypeOK
  <2>5. \A j \in Key : MapContents'[j] = IF j = k THEN req[t].val ELSE MapContents[j]
    <3>1. slot'[k] = a /\ a # NULL
      BY <1>1, <1>3, <2>1 DEF Haz!TypeOK
    <3>2. \A j \in Key \ {k} : slot'[j] = slot[j] /\ (slot[j] # NULL => data'[slot[j]] = data[slot[j]])
      BY <1>1, <2>1 DEF Haz!TypeOK, HazSlot
    <3>3. QED
      BY <1>4, <2>1, <3>1, <3>2 DEF Haz!Contents
  <2>6. Stores(t)
    <3>1. MapAnswer[t] = PENDING /\ MapAnswer'[t] = TRUE /\ MapCleared'[t] = FALSE
      BY <1>1, <1>4, <2>2 DEF Haz!Answer, Haz!Cleared, Calls, Haz!TypeOK
    <3>2. req[t].overwrite \/ MapCleared[t]
      BY <1>4, <2>2 DEF Haz!Cleared
    <3>3. QED
      BY <1>3, <1>4, <2>2, <2>5, <3>1, <3>2 DEF Stores, Asks, Pinning
  <2>7. QED
    BY <2>3, <2>4, <2>6 DEF Effect
<1>6. CASE Haz!Leave(t)
  <2>1. /\ pc[t] = "done" /\ Moves("idle") /\ Replies(PENDING)
        /\ req' = [req EXCEPT ![t] = NULL]
        /\ target' = [target EXCEPT ![t] = NULL]
        /\ UNCHANGED <<slot, data>>
    BY <1>6 DEF Haz!Leave, Haz!Return
  <2>2. Calls' /\ \A u \in Thread : HazLooks(u)'
    BY <1>1, <2>1 DEF Calls, HazLooks, Haz!TypeOK, Typed
  <2>3. \A u \in Thread \ {t} : SameThread(u)
    BY <1>1, <2>1, HazOthers DEF Calls, Haz!TypeOK, Typed
  <2>4. SameContents
    BY <1>4, <2>1 DEF SameContents, Haz!Contents
  <2>5. Returns(t)
    BY <1>1, <1>3, <1>4, <2>1 DEF Returns, Haz!Answer, Haz!Cleared, Calls, Haz!TypeOK, Typed
  <2>6. QED
    BY <2>2, <2>3, <2>4, <2>5 DEF Effect
<1>7. QED
  BY <1>5, <1>6

(* Reclaiming a value changes nothing: it is in no slot, and no reader has *)
(* validated a pointer to it.                                              *)
LEMMA HazReclaimEffect ==
  ASSUME RInv, Pinning, impl' = impl, HazInv, NEW a \in Node, Haz!Reclaim(a)
  PROVE  /\ Calls' /\ \A u \in Thread : HazLooks(u)'
         /\ SameContents /\ \A u \in Thread : SameThread(u)
<1>1. /\ Typed /\ Haz!TypeOK /\ Calls
      /\ \A u \in Thread : HazLooks(u) /\ HazPosition(u)
      /\ \A j \in Key : HazSlot(j)
  BY DEF RInv, HazInv
<1>2. /\ a \in retired /\ \A u \in Thread : hazard[u] # a
      /\ \A n \in Node \ {a} : data'[n] = data[n]
      /\ UNCHANGED <<slot, pc, req, target, ret>>
  BY <1>1 DEF Haz!Reclaim, Typed
<1>3. Calls' /\ \A u \in Thread : HazLooks(u)'
  BY <1>1, <1>2 DEF Calls, HazLooks
<1>4. \A u \in Thread : SameThread(u)
  <2>1. \A u \in Thread : pc[u] = "look" /\ target[u] # NULL => data'[target[u]] = data[target[u]]
    BY <1>1, <1>2 DEF HazPosition, HazInv
  <2>2. QED
    BY <1>2, <2>1, HazOthers
<1>5. SameContents
  <2>1. \A j \in Key : slot[j] # NULL => data'[slot[j]] = data[slot[j]]
    BY <1>1, <1>2 DEF HazSlot, Haz!TypeOK
  <2>2. QED
    BY <1>2, <2>1 DEF SameContents, MapContents, Locks, Pinning, Haz!Contents
<1>6. QED
  BY <1>3, <1>4, <1>5

-----------------------------------------------------------------------------
(* Together.                                                               *)

LEMMA InitRefines == Init => RInv /\ Map!Init
<1> SUFFICES ASSUME Init PROVE RInv /\ Map!Init
  OBVIOUS
<1>1. /\ pc = [t \in Thread |-> "idle"]
      /\ req = [t \in Thread |-> NULL]
      /\ target = [t \in Thread |-> NULL]
      /\ desired = [t \in Thread |-> NULL]
      /\ ret = [t \in Thread |-> PENDING]
  BY DEF Init, Owning!Init, InPlace!Init, Unq!Init, Arc!Init, Haz!Init, Folly!InitFilled,
     Owning!InitCalls, InPlace!InitCalls, Unq!InitCalls, Arc!InitCalls, Haz!InitCalls,
     Owning!InitThreads, InPlace!InitThreads, Unq!InitThreads, Arc!InitThreads,
     Haz!InitThreads, Folly!InitThreads
<1>2. IInv
  BY InitInv
<1>3. RInv
  BY <1>1, <1>2 DEF RInv, Calls, LockKeeps, UnqAnswers, ArcRetries, HazLooks
<1>4. IsMap
  BY <1>3, MapIsMap
<1>5. /\ \A t \in Thread : req[t] = NULL
      /\ \A t \in Thread : MapAnswer[t] = PENDING
      /\ \A t \in Thread : MapCleared[t] = FALSE /\ MapOvertaken[t] = FALSE
  BY <1>1 DEF MapAnswer, MapCleared, MapOvertaken, None, Locks, Pinning, Unq!Answer,
     Arc!Answer, Unq!Overtaken, Haz!Answer, Arc!Cleared, Haz!Cleared, Unq!At, Arc!At, Haz!At, Init
<1>6. \E v \in {ABSENT, zero} : \A k \in Key : MapContents[k] = v
  <2>1. CASE Locks
    BY <2>1 DEF Init, Owning!Init, InPlace!Init, Locks, MapContents
  <2>2. CASE impl = "unq_based"
    BY <2>2 DEF Init, Unq!Init, Locks, MapContents, Unq!Contents, Unq!Pointer
  <2>3. CASE impl = "boost_arc"
    BY <2>3 DEF Init, Arc!Init, Locks, MapContents, Arc!Contents
  <2>4. CASE impl = "my_haz_ptr_impl"
    BY <2>4 DEF Init, Haz!Init, Locks, MapContents, Haz!Contents
  <2>5. CASE impl = "haz_ptr_impl"
    <3>1. \A k \in Key : slot[k] \in Node /\ data[slot[k]] = zero
      BY <2>5 DEF Init, Folly!InitFilled
    <3>2. \A k \in Key : MapContents[k] = zero
      BY <2>5, <3>1 DEF Locks, MapContents, Haz!Contents
    <3>3. QED
      BY <3>2
  <2>6. QED
    BY <2>1, <2>2, <2>3, <2>4, <2>5 DEF Init, Locks
<1>7. MapAllows \in SUBSET {"late", "forced", "denied", "reread"}
  BY DEF MapAllows
<1>8. MapOvertaken = [t \in Thread |-> FALSE]
  BY <1>4, <1>5 DEF IsMap
<1>9. Map!Init
  BY <1>4, <1>5, <1>6, <1>7, <1>8 DEF IsMap, Map!Init
<1>10. QED
  BY <1>3, <1>9

LEMMA NextRefines ==
  RInv /\ [Next]_allVars => RInv' /\ [Map!Next]_Map!mapVars
<1> SUFFICES ASSUME RInv, [Next]_allVars PROVE RInv' /\ [Map!Next]_Map!mapVars
  OBVIOUS
<1>1. IInv /\ IInv'
  BY NextInv DEF RInv
<1>2. CASE UNCHANGED allVars
  <2> USE <1>2 DEF allVars, vars, shared, own
  <2>1. RInv'
    BY <1>1 DEF RInv, Calls, LockKeeps, Keeps, KeyOf, UnqAnswers, ArcRetries, HazLooks, Pinning
  <2>2. UNCHANGED <<Unq!Contents, Unq!Answer, Unq!Overtaken>>
    BY DEF Unq!Contents, Unq!Pointer, Unq!Answer, Unq!Overtaken, Unq!Owns, Unq!Reads,
       Unq!KeyOf, Unq!At, Unq!Keeps
  <2>3. /\ UNCHANGED <<Arc!Contents, Arc!Answer, Arc!Cleared>>
        /\ UNCHANGED <<Haz!Contents, Haz!Answer, Haz!Cleared>>
    BY DEF Arc!Contents, Haz!Contents, Arc!Answer, Haz!Answer, Arc!Cleared, Haz!Cleared, Arc!At,
       Arc!GetAnswer, Haz!At, Haz!GetAnswer, Haz!Keeps
  <2>4. UNCHANGED Map!mapVars
    BY <2>2, <2>3 DEF Map!mapVars, MapContents, MapAnswer, MapCleared, MapOvertaken, MapAllows,
       None, Locks, Pinning
  <2>5. QED
    BY <2>1, <2>4
<1>3. ASSUME Next
      PROVE  RInv' /\ [Map!Next]_Map!mapVars
  <2>1. impl' = impl
    BY <1>3 DEF Next, Call, Step, Reclaim
  <2>2. ASSUME NEW t \in Thread, Call(t) \/ Step(t)
        PROVE  RInv' /\ StepEffect(t)
    <3>1. CASE Locks
      <4>1. LockInv /\ LockInv'
        BY <1>1, <2>1, <3>1 DEF IInv, Locks
      <4>2. \/ Owning!Call(t) \/ InPlace!Call(t)
            \/ impl = "lock_based" /\ Owning!Step(t)
            \/ impl = "lock_based_no_alloc" /\ InPlace!Step(t)
        BY <2>2, <3>1 DEF Call, Step, Locks, Pinning
      <4>3. /\ Calls' /\ Effect(t)
            /\ \A u \in Thread : impl = "lock_based" => LockKeeps(u)'
        BY <2>1, <3>1, <4>1, <4>2, LockCallEffect, LockStepEffect DEF RInv
      <4>4. QED
        BY <1>1, <2>1, <3>1, <4>3, NobodyOvertaken DEF RInv, Locks, Pinning
    <3>2. CASE impl = "unq_based"
      <4>1. UnqInv /\ UnqInv'
        BY <1>1, <2>1, <3>2 DEF IInv, Locks
      <4>2. Unq!Call(t) \/ Unq!Step(t)
        BY <2>2, <3>2 DEF Call, Step, Pinning
      <4>3. Calls' /\ StepEffect(t) /\ \A u \in Thread : UnqAnswers(u)'
        BY <2>1, <3>2, <4>1, <4>2, UnqCallEffect, UnqStepEffect
      <4>4. QED
        BY <1>1, <2>1, <3>2, <4>3 DEF RInv, Pinning
    <3>3. CASE impl = "boost_arc"
      <4>1. ArcInv /\ ArcInv'
        BY <1>1, <2>1, <3>3 DEF IInv, Locks
      <4>2. Arc!Call(t) \/ Arc!Step(t)
        BY <2>2, <3>3 DEF Call, Step, Pinning
      <4>3. Calls' /\ Effect(t) /\ \A u \in Thread : ArcRetries(u)'
        BY <2>1, <3>3, <4>1, <4>2, ArcCallEffect, ArcStepEffect
      <4>4. QED
        BY <1>1, <2>1, <3>3, <4>3, NobodyOvertaken DEF RInv, Pinning
    <3>4. CASE Pinning
      <4>1. HazInv
        BY <1>1, <3>4 DEF IInv, Locks, Pinning
      <4>2. Haz!Call(t) \/ Haz!Step(t)
        BY <2>2, <3>4, FollyIsHaz DEF Call, Step, Pinning
      <4>3. Calls' /\ Effect(t) /\ \A u \in Thread : HazLooks(u)'
        BY <2>1, <3>4, <4>1, <4>2, HazCallEffect, HazReadEffect, HazTakesEffect DEF Haz!Step
      <4>4. QED
        BY <1>1, <2>1, <3>4, <4>3, NobodyOvertaken DEF RInv, Pinning
    <3>5. QED
      BY <1>1, <3>1, <3>2, <3>3, <3>4 DEF IInv, Pinning
  <2>3. ASSUME NEW a \in Node, Reclaim(a)
        PROVE  /\ RInv' /\ SameContents /\ \A u \in Thread : SameThread(u)
               /\ UNCHANGED <<MapOvertaken, MapAllows>>
    <3>1. Pinning /\ Haz!Reclaim(a) /\ HazInv
      BY <1>1, <2>3 DEF Reclaim, IInv, Locks, Pinning
    <3>2. /\ Calls' /\ \A u \in Thread : HazLooks(u)'
          /\ SameContents /\ \A u \in Thread : SameThread(u)
      BY <2>1, <3>1, HazReclaimEffect
    <3>3. UNCHANGED <<MapOvertaken, MapAllows>>
      BY <2>1, <3>1 DEF MapOvertaken, MapAllows, None, Locks, Pinning
    <3>4. QED
      BY <1>1, <2>1, <3>1, <3>2, <3>3 DEF RInv, Pinning
  <2>4. RInv'
    BY <1>3, <2>2, <2>3 DEF Next
  <2>5. IsMap /\ IsMap'
    <3>1. IsMap
      BY MapIsMap
    <3>2. IsMap'
      BY <2>4, MapIsMap, PTL
    <3>3. QED
      BY <3>1, <3>2
  <2>6. CASE \E t \in Thread : Call(t) \/ Step(t)
    BY <2>1, <2>2, <2>5, <2>6, EffectIsStep
  <2>7. CASE \E a \in Node : Reclaim(a)
    <3>1. /\ SameContents /\ \A u \in Thread : SameThread(u)
          /\ UNCHANGED <<MapOvertaken, MapAllows>>
      BY <2>3, <2>7
    <3>2. UNCHANGED Map!mapVars
      BY <2>5, <3>1 DEF IsMap, SameContents, SameThread, Map!mapVars
    <3>3. QED
      BY <2>4, <3>2
  <2>8. QED
    BY <1>3, <2>6, <2>7 DEF Next
<1>4. QED
  BY <1>2, <1>3

(* Get and Put of every implementation take effect atomically between call *)
(* and return: each one implements SlotMap, by the mapping that says when. *)
(* What SlotMap lets it do besides is what MapAllows says and no more: the *)
(* second read of unq_based, the FALSE of boost_arc, lock_based_no_alloc   *)
(* overwriting what it was to keep, and late Puts of those with counted    *)
(* and hazard pointers.  lock_based breaks no promise.                     *)
THEOREM MapImplemented == Spec => ImplementsMap
<1>1. QED
  BY InitRefines, NextRefines, PTL DEF Spec, ImplementsMap, Map!Spec

-----------------------------------------------------------------------------
(* What the calls return.                                                  *)

Answered == \A t \in Thread : pc[t] = "done" => ret[t] \in Outcomes(t)

(* A step of t leaves the other calls alone, and if it is through, it      *)
(* answers what the call may return.                                       *)
AnswersWell(t) ==
  /\ \A u \in Thread \ {t} : pc'[u] = pc[u] /\ req'[u] = req[u] /\ ret'[u] = ret[u]
  /\ pc'[t] = "done" => req'[t] = req[t] /\ ret'[t] \in Outcomes(t)

LEMMA StillAnswered ==
  ASSUME Answered, impl' = impl, NEW t \in Thread, AnswersWell(t)
  PROVE  Answered'
BY DEF Answered, AnswersWell, Outcomes

LEMMA LockAnswers ==
  ASSUME RInv, LockInv, NEW t \in Thread,
         \/ Owning!Call(t) \/ InPlace!Call(t) \/ Owning!Step(t) \/ InPlace!Step(t)
  PROVE  AnswersWell(t)
<1> USE DEF AnswersWell, Owning!Goto, InPlace!Goto, Owning!Finish, InPlace!Finish
<1>1. Typed /\ Owning!TypeOK /\ Calls /\ InCall
  BY DEF RInv, LockInv
<1>2. CASE Owning!Call(t) \/ InPlace!Call(t)
  BY <1>1, <1>2 DEF Owning!Call, InPlace!Call, Owning!Invoke, InPlace!Invoke, Owning!TypeOK, Typed
<1>3. CASE Owning!Lock(t) \/ InPlace!Lock(t)
  BY <1>1, <1>3 DEF Owning!Lock, InPlace!Lock, Owning!TypeOK
<1>4. CASE Owning!Look(t) \/ InPlace!Look(t)
  <2>1. /\ UNCHANGED req
        /\ \/ req[t].op = "Get" /\ Owning!Finish(t, ABSENT)
           \/ Keeps(t) /\ Owning!Finish(t, FALSE)
           \/ Owning!Goto(t, "access") /\ UNCHANGED ret
    BY <1>4 DEF Owning!Look, InPlace!Look, Owning!Keeps, InPlace!Keeps, Keeps
  <2>2. QED
    BY <1>1, <2>1 DEF Owning!TypeOK, Calls, Outcomes, Keeps
<1>5. CASE Owning!Get(t) \/ InPlace!Get(t)
  <2>1. /\ pc[t] = "access" /\ req[t].op = "Get" /\ UNCHANGED req
        /\ Owning!Finish(t, slot[req[t].key])
    BY <1>5 DEF Owning!Get, InPlace!Get, Owning!At, InPlace!At, Owning!Current, InPlace!Current,
       Owning!KeyOf, InPlace!KeyOf
  <2>2. slot[req[t].key] \in Value \cup {ABSENT}
    BY <1>1, <2>1, RequestFields DEF Owning!TypeOK, InCall
  <2>3. QED
    BY <1>1, <2>1, <2>2 DEF Owning!TypeOK, Calls, Outcomes
<1>6. CASE Owning!Put(t) \/ InPlace!Put(t)
  BY <1>1, <1>6 DEF Owning!Put, InPlace!Put, Owning!At, InPlace!At, Owning!TypeOK, Calls, Outcomes
<1>7. CASE Owning!Unlock(t) \/ InPlace!Unlock(t)
  BY <1>1, <1>7 DEF Owning!Unlock, InPlace!Unlock, Owning!Return, InPlace!Return, Owning!TypeOK,
     Calls, Typed
<1>8. QED
  BY <1>2, <1>3, <1>4, <1>5, <1>6, <1>7 DEF Owning!Step, InPlace!Step

LEMMA UnqAnswersWell ==
  ASSUME RInv, impl = "unq_based", UnqInv, NEW t \in Thread, Unq!Call(t) \/ Unq!Step(t)
  PROVE  AnswersWell(t)
<1> USE DEF AnswersWell, Unq!Goto, Unq!Finish, Unq!At, Unq!shared
<1>1. Typed /\ Unq!TypeOK /\ Calls /\ UnqAnswers(t)
  BY DEF RInv, UnqInv
<1>2. CASE Unq!Call(t)
  BY <1>1, <1>2 DEF Unq!Call, Unq!Invoke, Unq!TypeOK, Typed
<1>3. CASE Unq!Load(t) \/ Unq!Spin(t) \/ Unq!Own(t) \/ Unq!ReadOwned(t) \/ Unq!Restore(t)
  BY <1>1, <1>3 DEF Unq!Load, Unq!Spin, Unq!Own, Unq!ReadOwned, Unq!Restore, Unq!TypeOK
<1>4. CASE Unq!GetAbsent(t) \/ Unq!Reread(t)
  <2>1. data[target[t]] \in Value \cup {FREE} \/ pc[t] # "reread"
    BY <1>1 DEF UnqAnswers, Typed
  <2>2. QED
    BY <1>1, <1>4, <2>1 DEF Unq!GetAbsent, Unq!Reread, Unq!TypeOK, Calls, UnqAnswers, Outcomes
<1>5. CASE Unq!PutRefused(t) \/ Unq!Put(t)
  BY <1>1, <1>5 DEF Unq!PutRefused, Unq!Put, Unq!TypeOK, Calls, Outcomes
<1>6. CASE Unq!Leave(t)
  BY <1>1, <1>6 DEF Unq!Leave, Unq!Return, Unq!TypeOK, Calls, Typed
<1>7. QED
  BY <1>2, <1>3, <1>4, <1>5, <1>6 DEF Unq!Step

LEMMA ArcAnswersWell ==
  ASSUME RInv, ArcInv, NEW t \in Thread, Arc!Call(t) \/ Arc!Step(t)
  PROVE  AnswersWell(t)
<1> USE DEF AnswersWell, Arc!Goto, Arc!Finish, Arc!At, Arc!shared
<1>1. Typed /\ Arc!TypeOK /\ Calls /\ ArcWriter(t)
  BY DEF RInv, ArcInv
<1>2. CASE Arc!Call(t)
  BY <1>1, <1>2 DEF Arc!Call, Arc!Invoke, Arc!TypeOK, Typed
<1>3. CASE Arc!New(t) \/ Arc!Load(t) \/ Arc!PutCleared(t)
  BY <1>1, <1>3 DEF Arc!New, Arc!Load, Arc!PutCleared, Arc!TypeOK
<1>4. CASE Arc!Get(t)
  <2>1. Arc!GetAnswer(t) \in Value \cup {ABSENT}
    BY DEF Arc!GetAnswer, ArcInv, Referenced, Typed
  <2>2. QED
    BY <1>1, <1>4, <2>1 DEF Arc!Get, Arc!TypeOK, Calls, Outcomes
<1>5. CASE Arc!PutRefused(t) \/ Arc!PutStored(t) \/ Arc!Store(t)
  BY <1>1, <1>5 DEF Arc!PutRefused, Arc!PutStored, Arc!Store, Arc!TypeOK, Calls, ArcWriter, Outcomes
<1>6. CASE Arc!PutFailed(t)
  BY <1>1, <1>6 DEF Arc!PutFailed, Arc!TypeOK, Calls, ArcWriter, Outcomes
<1>7. CASE Arc!Leave(t)
  BY <1>1, <1>7 DEF Arc!Leave, Arc!Return, Arc!TypeOK, Calls, Typed
<1>8. QED
  BY <1>2, <1>3, <1>4, <1>5, <1>6, <1>7 DEF Arc!Step

LEMMA HazAnswersWell ==
  ASSUME RInv, HazInv, NEW t \in Thread, Haz!Call(t) \/ Haz!Step(t)
  PROVE  AnswersWell(t)
<1> USE DEF AnswersWell, Haz!Goto, Haz!Finish, Haz!At, Haz!shared
<1>1. Typed /\ Haz!TypeOK /\ Calls /\ HazPosition(t)
  BY DEF RInv, HazInv
<1>2. CASE Haz!Call(t)
  BY <1>1, <1>2 DEF Haz!Call, Haz!Invoke, Haz!TypeOK, Typed
<1>3. CASE Haz!PinLoad(t) \/ Haz!PinPublish(t) \/ Haz!PinValidate(t) \/ Haz!PutCleared(t)
  BY <1>1, <1>3 DEF Haz!PinLoad, Haz!PinPublish, Haz!PinValidate, Haz!PutCleared, Haz!TypeOK
<1>4. CASE Haz!Get(t)
  <2>1. pc[t] = "look" => Haz!GetAnswer(t) \in Value \cup {ABSENT}
    BY <1>1 DEF Haz!GetAnswer, HazInv, HazPosition, Typed
  <2>2. QED
    BY <1>1, <1>4, <2>1 DEF Haz!Get, Haz!TypeOK, Calls, Outcomes
<1>5. CASE Haz!PutRefused(t) \/ Haz!Exchange(t)
  BY <1>1, <1>5 DEF Haz!PutRefused, Haz!Exchange, Haz!ExchangeAnd, Haz!TypeOK, Calls, HazPosition,
     Outcomes
<1>6. CASE Haz!Leave(t)
  BY <1>1, <1>6 DEF Haz!Leave, Haz!Return, Haz!TypeOK, Calls, Typed
<1>7. QED
  BY <1>2, <1>3, <1>4, <1>5, <1>6 DEF Haz!Step

LEMMA NextAnswered ==
  RInv /\ Answered /\ [Next]_allVars => Answered'
<1> SUFFICES ASSUME RInv, Answered, [Next]_allVars PROVE Answered'
  OBVIOUS
<1>1. CASE UNCHANGED allVars
  BY <1>1 DEF Answered, Outcomes, allVars, vars
<1>2. ASSUME NEW t \in Thread, Call(t) \/ Step(t)
      PROVE  Answered'
  <2>1. impl' = impl
    BY <1>2 DEF Call, Step
  <2>2. CASE Locks
    <3>1. LockInv
      BY <2>2 DEF RInv, IInv, Locks
    <3>2. \/ Owning!Call(t) \/ InPlace!Call(t) \/ Owning!Step(t) \/ InPlace!Step(t)
      BY <1>2, <2>2 DEF Call, Step, Locks, Pinning
    <3>3. QED
      BY <2>1, <3>1, <3>2, LockAnswers, StillAnswered
  <2>3. CASE impl = "unq_based"
    <3>1. UnqInv /\ (Unq!Call(t) \/ Unq!Step(t))
      BY <1>2, <2>3 DEF RInv, IInv, Locks, Call, Step, Pinning
    <3>2. QED
      BY <2>1, <2>3, <3>1, UnqAnswersWell, StillAnswered
  <2>4. CASE impl = "boost_arc"
    <3>1. ArcInv /\ (Arc!Call(t) \/ Arc!Step(t))
      BY <1>2, <2>4 DEF RInv, IInv, Locks, Call, Step, Pinning
    <3>2. QED
      BY <2>1, <3>1, ArcAnswersWell, StillAnswered
  <2>5. CASE Pinning
    <3>1. HazInv
      BY <2>5 DEF RInv, IInv, Locks, Pinning
    <3>2. Haz!Call(t) \/ Haz!Step(t)
      BY <1>2, <2>5, FollyIsHaz DEF Call, Step, Pinning
    <3>3. QED
      BY <2>1, <3>1, <3>2, HazAnswersWell, StillAnswered
  <2>6. QED
    BY <2>2, <2>3, <2>4, <2>5 DEF RInv, IInv, Pinning
<1>3. ASSUME NEW a \in Node, Reclaim(a)
      PROVE  Answered'
  BY <1>3 DEF Reclaim, Haz!Reclaim, Answered, Outcomes
<1>4. QED
  BY <1>1, <1>2, <1>3 DEF Next

(* Every variable holds what its declaration allows, and a call returns an *)
(* answer of its own kind: of the six implementations only unq_based, with *)
(* its second read, may have a Get return what deleted memory holds.       *)
THEOREM MapTypeCorrect == Spec => []TypeOK
<1>1. Init => RInv /\ Answered
  <2>1. Init => RInv
    BY InitRefines
  <2>2. Init => pc = [t \in Thread |-> "idle"]
    BY DEF Init, Owning!Init, InPlace!Init, Unq!Init, Arc!Init, Haz!Init, Folly!InitFilled,
       Owning!InitCalls, InPlace!InitCalls, Unq!InitCalls, Arc!InitCalls, Haz!InitCalls,
       Owning!InitThreads, InPlace!InitThreads, Unq!InitThreads, Arc!InitThreads,
       Haz!InitThreads, Folly!InitThreads
  <2>3. QED
    BY <2>1, <2>2 DEF Answered
<1>2. RInv /\ Answered /\ [Next]_allVars => RInv' /\ Answered'
  BY NextRefines, NextAnswered
<1>3. RInv /\ Answered => TypeOK
  <2> SUFFICES ASSUME RInv, Answered PROVE TypeOK
    OBVIOUS
  <2>1. \A t \in Thread : IF pc[t] = "done" THEN ret[t] \in Outcomes(t) ELSE ret[t] = PENDING
    BY DEF RInv, Calls, Answered
  <2>2. /\ Typed
        /\ Locks => Owning!TypeOK
        /\ impl = "unq_based" => Unq!TypeOK
        /\ impl = "boost_arc" => Arc!TypeOK
        /\ Pinning => Haz!TypeOK
    BY DEF RInv, IInv, LockInv, UnqInv, ArcInv, HazInv, Locks, Pinning
  <2>3. QED
    BY <2>1, <2>2 DEF TypeOK, Typed
<1>4. QED
  BY <1>1, <1>2, <1>3, PTL DEF Spec

=============================================================================
