--------------------------- MODULE CachedMapProofs ---------------------------
(***************************************************************************)
(* Proofs about CachedMap, for any number of threads, keys, values and     *)
(* cache slots, any hash function and any length of the warm-up.           *)
(***************************************************************************)
EXTENDS CachedMap, TLAPS

USE SizeAssumption, HashAssumption, WarmUpAssumption, AnswerAssumption, NullAssumption

-----------------------------------------------------------------------------
(* Hashes, slots and requests.                                             *)

LEMMA ModRange ==
  ASSUME NEW x \in Nat, NEW m \in Nat \ {0}
  PROVE  x % m \in 0..(m - 1)
OBVIOUS

LEMMA HashIn == \A k \in Key : HashFn[k] \in Hash
BY DEF Hash

LEMMA IdxInTable == \A h \in Hash \cup {0} : GetIdx(h) \in Index
<1> SUFFICES ASSUME NEW h \in Hash \cup {0} PROVE GetIdx(h) \in Index
  OBVIOUS
<1>1. h \in Nat
  BY DEF Hash
<1>2. QED
  BY <1>1, ModRange DEF GetIdx, Index

(* What the invariant says of a thread that is inside a call.              *)
LEMMA InCall ==
  ASSUME IInv, NEW t \in Thread, req[t] # NULL
  PROVE  /\ req[t] \in Request /\ KeyOf(t) \in Key
         /\ HashOf(t) \in Hash /\ GetIdx(HashOf(t)) \in Index
         /\ Finds(t) \/ Inserts(t)
         /\ ~(Finds(t) /\ Inserts(t))
         /\ Inserts(t) => req[t].val \in Value /\ req[t] \in InsertRequest
<1>1. req[t] \in Request
  BY DEF IInv, TypeOK
<1>2. KeyOf(t) \in Key
  BY <1>1 DEF Request, FindRequest, InsertRequest, KeyOf
<1>3. HashOf(t) \in Hash /\ GetIdx(HashOf(t)) \in Index
  BY <1>2, HashIn, IdxInTable DEF HashOf, KeyOf
<1>4. /\ Finds(t) \/ Inserts(t)
      /\ ~(Finds(t) /\ Inserts(t))
      /\ Inserts(t) => req[t].val \in Value /\ req[t] \in InsertRequest
  BY <1>1 DEF Request, FindRequest, InsertRequest, Finds, Inserts, Does
<1>5. QED
  BY <1>1, <1>2, <1>3, <1>4

-----------------------------------------------------------------------------
(* Initially.                                                              *)

LEMMA InitInv == Init => IInv
<1> SUFFICES ASSUME Init PROVE IInv
  OBVIOUS
<1>1. TypeOK /\ HistoryOK
  BY DEF Init, TypeOK, HistoryOK
<1>2. \A t \in Thread : Position(t) /\ Watched(t) /\ ReadsLegal(t)
  BY DEF Init, Position, Watched, ReadsLegal, Inserts, Finds, Does
<1>3. CachedArePresent /\ ElemFromTrie
  BY DEF Init, CachedArePresent, ElemFromTrie
<1>4. ASSUME NEW k \in Key PROVE ReadsCurrent(k)
  <2>1. GetIdx(HashFn[k]) \in Index
    BY HashIn, IdxInTable
  <2>2. Reads(k) = ABSENT
    BY <2>1 DEF Init, Reads, InCache
  <2>3. QED
    BY <2>2 DEF Init, ReadsCurrent
<1>5. QED
  BY <1>1, <1>2, <1>3, <1>4 DEF IInv

-----------------------------------------------------------------------------
(* What a step of one thread leaves to the others.                         *)

(* Another thread's position and what it watches are undisturbed, but for  *)
(* slots that are written, and then it learns of it.                       *)
LEMMA OthersWatch ==
  ASSUME IInv, NEW t \in Thread,
         elem' = elem \/ pc[t] \in {"locate", "check", "chkcas"},
         NEW u \in Thread \ {t},
         pc'[u] = pc[u], req'[u] = req[u],
         fresh'[u] => fresh[u] /\ \A i \in Index : Watches(u, i) => ft'[i] = ft[i]
  PROVE  Position(u)' /\ Watched(u)'
<1>1. pc[u] \in {"locate", "check", "chkcas"} => elem' = elem
  BY DEF IInv, Position
<1>2. Position(u) /\ Watched(u)
  BY DEF IInv
<1>3. Position(u)'
  BY <1>1, <1>2 DEF Position, Finds, Inserts, Does
<1>4. /\ pc[u] = "trycas" => GetIdx(HashOf(u)) \in Index
      /\ pc[u] = "chkcas" => GetIdx(elem.hash) \in Index
  <2>1. pc[u] = "trycas" => req[u] # NULL
    BY <1>2 DEF Position
  <2>2. pc[u] = "chkcas" => elem \in FastNode
    BY <1>2 DEF Position, IInv, TypeOK
  <2>3. QED
    BY <2>1, <2>2, InCall, IdxInTable DEF FastNode
<1>5. Watched(u)'
  BY <1>1, <1>2, <1>4 DEF Watched, Watches, HashOf, KeyOf
<1>6. QED
  BY <1>3, <1>5

(* What finds may answer, after a step inside a call.                      *)
LEMMA LegalStep ==
  ASSUME IInv, NEW t \in Thread, pc[t] \notin {"idle", "done"},
         UNCHANGED <<req, current, legal>>, bypassed \subseteq bypassed',
         \A u \in Thread \ {t} : pc'[u] = pc[u] /\ ret'[u] = ret[u],
         \A k \in Key \ bypassed' :
           /\ Reads(k)' = Reads(k) \/ Acknowledges(t, k)'
           /\ trie'[k] = trie[k]
                \/ (Inserts(t) /\ KeyOf(t) = k /\ trie'[k] = req[t].val)
           /\ Acknowledges(t, k)' => Reads(k)' = req[t].val,
         pc'[t] # "cache",
         KeyOf(t) \notin bypassed' /\ Finds(t) =>
           /\ pc'[t] = "trie" => trie'[KeyOf(t)] \in legal[t]
           /\ pc'[t] = "done" => ret'[t] \in legal[t] \cup {PENDING}
  PROVE  /\ \A k \in Key \ bypassed' : ReadsCurrent(k)'
         /\ \A u \in Thread : ReadsLegal(u)'
<1>1. /\ req[t] # NULL /\ KeyOf(t) \in Key
      /\ \A u \in Thread : /\ (Inserts(u)' <=> Inserts(u)) /\ (Finds(u)' <=> Finds(u))
                           /\ KeyOf(u)' = KeyOf(u)
  BY InCall DEF IInv, Position, Inserts, Finds, Does, KeyOf
<1>2. \A u \in Thread \ {t}, k \in Key : Acknowledges(u, k)' <=> Acknowledges(u, k)
  BY <1>1 DEF Acknowledges
<1>3. ASSUME NEW k \in Key \ bypassed'
      PROVE  ReadsCurrent(k)'
  <2>1. CASE Acknowledges(t, k)'
    BY <1>3, <2>1 DEF ReadsCurrent
  <2>2. CASE ~Acknowledges(t, k)'
    <3>1. Reads(k)' = Reads(k) /\ ReadsCurrent(k)
      BY <1>3, <2>2 DEF IInv
    <3>2. ~Acknowledges(t, k)
      BY DEF Acknowledges
    <3>3. QED
      BY <1>2, <3>1, <3>2 DEF ReadsCurrent
  <2>3. QED
    BY <2>1, <2>2
<1>4. ASSUME NEW u \in Thread
      PROVE  ReadsLegal(u)'
  <2>1. ReadsLegal(u)
    BY DEF IInv
  <2>2. \A w \in Thread :
          (req[u] # NULL /\ Inserts(w) /\ KeyOf(w) = KeyOf(u) => req[w].val \in legal[u])'
    BY <1>1, <2>1 DEF ReadsLegal
  <2>3. ASSUME NEW k \in Key \ bypassed', k = KeyOf(u), req[u] # NULL
        PROVE  /\ pc'[u] = "cache" => Reads(k)' \in legal[u]
               /\ pc'[u] = "trie" /\ Finds(u) => trie'[k] \in legal[u]
               /\ pc'[u] = "done" /\ Finds(u) => ret'[u] \in legal[u] \cup {PENDING}
               /\ Acknowledges(u, k)' => Reads(k)' \in legal[u]
    <3>1. Inserts(t) /\ KeyOf(t) = k => req[t].val \in legal[u]
      BY <2>1, <2>3 DEF ReadsLegal
    <3>2. Acknowledges(t, k)' => Inserts(t) /\ KeyOf(t) = k
      BY <1>1 DEF Acknowledges
    <3>3. CASE u # t
      <4>1. /\ pc'[u] = pc[u] /\ ret'[u] = ret[u]
            /\ Acknowledges(u, k)' <=> Acknowledges(u, k)
        BY <1>2, <2>3, <3>3
      <4>2. /\ pc[u] = "cache" => Reads(k) \in legal[u]
            /\ pc[u] = "trie" /\ Finds(u) => trie[k] \in legal[u]
            /\ pc[u] = "done" /\ Finds(u) => ret[u] \in legal[u] \cup {PENDING}
            /\ Acknowledges(u, k) => Reads(k) \in legal[u]
        BY <2>1, <2>3 DEF ReadsLegal
      <4>3. Reads(k)' = Reads(k) \/ Reads(k)' \in legal[u]
        BY <2>3, <3>1, <3>2
      <4>4. trie'[k] = trie[k] \/ trie'[k] \in legal[u]
        BY <2>3, <3>1
      <4>5. QED
        BY <4>1, <4>2, <4>3, <4>4
    <3>4. CASE u = t
      BY <1>1, <2>3, <3>1, <3>2, <3>4
    <3>5. QED
      BY <3>3, <3>4
  <2>4. ASSUME req[u] # NULL, KeyOf(u) \notin bypassed'
        PROVE  /\ pc'[u] = "cache" => Reads(KeyOf(u))' \in legal[u]
               /\ pc'[u] = "trie" /\ Finds(u) => trie'[KeyOf(u)] \in legal[u]
               /\ pc'[u] = "done" /\ Finds(u) => ret'[u] \in legal[u] \cup {PENDING}
               /\ Acknowledges(u, KeyOf(u))' => Reads(KeyOf(u))' \in legal[u]
    <3>1. PICK k \in Key \ bypassed' : k = KeyOf(u)
      BY <2>4, InCall
    <3>2. KeyOf(u)' = k
      BY <1>1, <3>1
    <3>3. Reads(KeyOf(u))' = Reads(k)' /\ (Acknowledges(u, KeyOf(u))' <=> Acknowledges(u, k)')
      BY <3>2 DEF Reads, InCache, Acknowledges
    <3>4. QED
      BY <2>3, <2>4, <3>1, <3>3
  <2>5. QED
    BY <1>1, <2>2, <2>4 DEF ReadsLegal
<1>5. QED
  BY <1>3, <1>4

-----------------------------------------------------------------------------
(* Steps that leave the cache and the trie alone.                          *)

LEMMA QuietStep ==
  ASSUME IInv, NEW t \in Thread, pc[t] \notin {"idle", "done"},
         UNCHANGED <<trie, ft, req, current, legal, bypassed>>,
         elem' = elem \/ pc[t] \in {"locate", "check", "chkcas"},
         \A u \in Thread \ {t} : pc'[u] = pc[u] /\ ret'[u] = ret[u] /\ fresh'[u] = fresh[u],
         TypeOK', HistoryOK', Position(t)', Watched(t)', ElemFromTrie',
         pc'[t] # "cache",
         pc'[t] = "done" /\ Inserts(t) => ret'[t] # TRUE,
         KeyOf(t) \notin bypassed /\ Finds(t) =>
           /\ pc'[t] = "trie" => trie[KeyOf(t)] \in legal[t]
           /\ pc'[t] = "done" => ret'[t] \in legal[t] \cup {PENDING}
  PROVE  IInv'
<1>1. CachedArePresent'
  BY DEF IInv, CachedArePresent
<1>2. \A u \in Thread \ {t} : Position(u)' /\ Watched(u)'
  BY OthersWatch
<1>3. \A k \in Key : Reads(k)' = Reads(k) /\ ~Acknowledges(t, k)'
  BY DEF Reads, InCache, TagMatches, Acknowledges, Inserts, Does
<1>4. /\ \A k \in Key \ bypassed' : ReadsCurrent(k)'
      /\ \A u \in Thread : ReadsLegal(u)'
  BY <1>3, LegalStep
<1>5. QED
  BY <1>1, <1>2, <1>4 DEF IInv

(* Only a find is in a place where finds are.                              *)
LEMMA InsertPlaces ==
  ASSUME IInv, NEW t \in Thread,
         pc[t] \in {"record", "async", "tryload", "trycas", "promote", "locate", "check", "chkcas"}
  PROVE  Inserts(t) /\ ~Finds(t) /\ req[t] # NULL /\ pc[t] \notin {"idle", "done"}
<1>1. Inserts(t) /\ req[t] # NULL
  BY DEF IInv, Position, Inserts, Does
<1>2. QED
  BY <1>1, InCall

LEMMA RecordInv ==
  ASSUME IInv, NEW t \in Thread, Record(t)
  PROVE  IInv'
<1> USE DEF Record, Goto, history, calls, promotion
<1>1. pc[t] = "record" /\ Inserts(t) /\ ~Finds(t) /\ req[t] # NULL
  BY InsertPlaces
<1>2. HashOf(t) \in Hash /\ Does(t, {"Insert"})
  BY <1>1, InCall DEF IInv, Position
<1>3. total' \in [Thread -> 0..(kWarmUp + 1)]
  BY DEF IInv, TypeOK
<1>4. TypeOK' /\ HistoryOK'
  BY <1>2, <1>3 DEF IInv, TypeOK, HistoryOK
<1>5. pc'[t] \in {"tryload", "trie"} /\ \A u \in Thread \ {t} : pc'[u] = pc[u]
  BY DEF IInv, HistoryOK
<1>6. Position(t)' /\ Watched(t)'
  BY <1>1, <1>2, <1>5 DEF Position, Watched, Does, Inserts, Finds
<1>7. ElemFromTrie'
  BY DEF IInv, ElemFromTrie
<1>8. QED
  BY <1>1, <1>4, <1>5, <1>6, <1>7, QuietStep

LEMMA AsyncBeginInv ==
  ASSUME IInv, NEW t \in Thread, AsyncBegin(t)
  PROVE  IInv'
<1> USE DEF AsyncBegin, Finish, Goto, history, calls, promotion
<1>1. pc[t] = "async" /\ Inserts(t) /\ ~Finds(t) /\ req[t] # NULL
  BY InsertPlaces
<1>2. TypeOK' /\ HistoryOK'
  BY DEF IInv, TypeOK, HistoryOK
<1>3. /\ pc'[t] = "tryload" \/ (pc'[t] = "done" /\ ret'[t] = PENDING)
      /\ \A u \in Thread \ {t} : pc'[u] = pc[u] /\ ret'[u] = ret[u]
  BY DEF IInv, HistoryOK, TypeOK
<1>4. Position(t)' /\ Watched(t)'
  BY <1>1, <1>3 DEF Position, Watched, Does, Inserts, Finds
<1>5. ElemFromTrie'
  BY DEF IInv, ElemFromTrie
<1>6. QED
  BY <1>1, <1>2, <1>3, <1>4, <1>5, QuietStep

(* The end of an attempt on the cache.                                     *)
LEMMA GoOnEffect ==
  ASSUME IInv, NEW t \in Thread, GoOn(t), Inserts(t), req' = req
  PROVE  /\ \/ pc'[t] = "promote" /\ Does(t, {"Insert"})' /\ ret' = ret
            \/ pc'[t] = "done" /\ ret'[t] = PENDING
         /\ \A u \in Thread \ {t} : pc'[u] = pc[u] /\ ret'[u] = ret[u]
         /\ ret' \in [Thread -> BOOLEAN \cup Value \cup {ABSENT, PENDING, NULL}]
         /\ \E l \in {"promote", "done"} : pc' = [pc EXCEPT ![t] = l]
BY DEF GoOn, Finish, Goto, IInv, TypeOK, HistoryOK, Does

LEMMA TryLoadInv ==
  ASSUME IInv, NEW t \in Thread, TryLoad(t)
  PROVE  IInv'
<1> USE DEF TryLoad, Goto, history, calls, promotion
<1>1. pc[t] = "tryload" /\ Inserts(t) /\ ~Finds(t) /\ req[t] # NULL
  BY InsertPlaces
<1> DEFINE n == ft[GetIdx(HashOf(t))]
<1>2. fresh' = [fresh EXCEPT ![t] = TRUE] /\ UNCHANGED <<trie, ft, total, seen, req, promotion, history>>
  OBVIOUS
<1>3. CASE GoOn(t)
  <2>1. /\ \/ pc'[t] = "promote" /\ Does(t, {"Insert"})' /\ ret' = ret
           \/ pc'[t] = "done" /\ ret'[t] = PENDING
        /\ \A u \in Thread \ {t} : pc'[u] = pc[u] /\ ret'[u] = ret[u]
        /\ ret' \in [Thread -> BOOLEAN \cup Value \cup {ABSENT, PENDING, NULL}]
        /\ \E l \in {"promote", "done"} : pc' = [pc EXCEPT ![t] = l]
    BY <1>1, <1>3, GoOnEffect
  <2>2. TypeOK' /\ HistoryOK'
    BY <1>2, <2>1 DEF IInv, TypeOK, HistoryOK
  <2>3. Position(t)' /\ Watched(t)'
    BY <1>1, <1>2, <2>1 DEF Position, Watched, Does, Inserts, Finds
  <2>4. ElemFromTrie'
    BY <1>2 DEF IInv, ElemFromTrie
  <2>5. QED
    BY <1>1, <1>2, <2>1, <2>2, <2>3, <2>4, QuietStep DEF IInv, HistoryOK
<1>4. CASE ~GoOn(t)
  <2>1. /\ n # NULL /\ n.hash = HashOf(t) /\ n.key = KeyOf(t)
        /\ pc' = [pc EXCEPT ![t] = "trycas"] /\ ret' = ret
    BY <1>4
  <2>2. TypeOK' /\ HistoryOK'
    BY <1>2, <2>1 DEF IInv, TypeOK, HistoryOK
  <2>3. pc'[t] = "trycas" /\ \A u \in Thread \ {t} : pc'[u] = pc[u]
    BY <2>1 DEF IInv, HistoryOK
  <2>4. Position(t)'
    BY <1>1, <1>2, <2>3 DEF Position, Does, Inserts, Finds
  <2>5. Watched(t)'
    BY <1>2, <2>1, <2>3 DEF Watched, HashOf, KeyOf
  <2>6. ElemFromTrie'
    BY <1>2 DEF IInv, ElemFromTrie
  <2>7. QED
    BY <1>1, <1>2, <2>1, <2>2, <2>3, <2>4, <2>5, <2>6, QuietStep DEF IInv, HistoryOK
<1>5. QED
  BY <1>3, <1>4

LEMMA TryCasLostInv ==
  ASSUME IInv, NEW t \in Thread, TryCasLost(t)
  PROVE  IInv'
<1> USE DEF TryCasLost, history, calls, promotion
<1>1. pc[t] = "trycas" /\ Inserts(t) /\ ~Finds(t) /\ req[t] # NULL
  BY InsertPlaces
<1>2. /\ \/ pc'[t] = "promote" /\ Does(t, {"Insert"})' /\ ret' = ret
         \/ pc'[t] = "done" /\ ret'[t] = PENDING
      /\ \A u \in Thread \ {t} : pc'[u] = pc[u] /\ ret'[u] = ret[u]
      /\ ret' \in [Thread -> BOOLEAN \cup Value \cup {ABSENT, PENDING, NULL}]
      /\ \E l \in {"promote", "done"} : pc' = [pc EXCEPT ![t] = l]
  BY <1>1, GoOnEffect
<1>3. TypeOK' /\ HistoryOK'
  BY <1>2 DEF IInv, TypeOK, HistoryOK
<1>4. Position(t)' /\ Watched(t)'
  BY <1>1, <1>2 DEF Position, Watched, Does, Inserts, Finds
<1>5. ElemFromTrie'
  BY DEF IInv, ElemFromTrie
<1>6. QED
  BY <1>1, <1>2, <1>3, <1>4, <1>5, QuietStep

LEMMA PromotionInv ==
  ASSUME IInv, NEW t \in Thread, BeginPromotion(t) \/ NoPromotion(t) \/ EndPromotion(t)
  PROVE  IInv'
<1> USE DEF Goto, history, calls, promotion
<1>1. /\ pc[t] \in {"promote", "locate"} /\ Inserts(t) /\ ~Finds(t) /\ req[t] # NULL
      /\ Does(t, {"Insert"})
  BY InsertPlaces DEF BeginPromotion, NoPromotion, EndPromotion, IInv, Position
<1>2. /\ UNCHANGED <<trie, ft, seen, req, ret, fresh, elem, history>>
      /\ pc'[t] \in {"locate", "trie"} /\ (pc'[t] = "locate" => t = Tid0)
      /\ \A u \in Thread \ {t} : pc'[u] = pc[u]
      /\ pc' = [pc EXCEPT ![t] = pc'[t]]
  BY DEF BeginPromotion, NoPromotion, EndPromotion, IInv, HistoryOK
<1>3. /\ total' \in [Thread -> 0..(kWarmUp + 1)]
      /\ todo' \subseteq Counter
      /\ pc'[t] = "locate" => total'[t] = kWarmUp + 1
      /\ \A u \in Thread \ {t} : total'[u] = total[u]
  <2>1. CASE BeginPromotion(t)
    <3>1. PICK S \in SUBSET seen : todo' = {<<"dummy", 0>>} \cup ({"counter"} \X S)
      BY <2>1 DEF BeginPromotion
    <3>2. S \subseteq Hash
      BY DEF IInv, TypeOK
    <3>3. todo' \subseteq Counter
      BY <3>1, <3>2 DEF Counter
    <3>4. total' = [total EXCEPT ![t] = kWarmUp + 1]
      BY <2>1 DEF BeginPromotion
    <3>5. QED
      BY <3>3, <3>4 DEF IInv, TypeOK
  <2>2. CASE NoPromotion(t) \/ EndPromotion(t)
    BY <2>2 DEF NoPromotion, EndPromotion, IInv, TypeOK, HistoryOK
  <2>3. QED
    BY <2>1, <2>2
<1>4. TypeOK'
  <2>1. \A u \in Thread : pc'[u] \in {"locate", "check", "chkcas"} => total'[u] = kWarmUp + 1
    BY <1>2, <1>3 DEF IInv, TypeOK
  <2>2. QED
    BY <1>2, <1>3, <2>1 DEF IInv, TypeOK
<1>5. HistoryOK'
  BY <1>2 DEF IInv, HistoryOK
<1>6. Position(t)' /\ Watched(t)'
  BY <1>1, <1>2 DEF Position, Watched, Does, Inserts, Finds
<1>7. ElemFromTrie'
  BY <1>2 DEF IInv, ElemFromTrie
<1>8. QED
  BY <1>1, <1>2, <1>4, <1>5, <1>6, <1>7, QuietStep

(* What FindByHash comes back with was read in the trie.                   *)
LEMMA LocateInv ==
  ASSUME IInv, NEW t \in Thread, Locate(t)
  PROVE  IInv'
<1> USE DEF Goto, history, calls
<1>1. /\ pc[t] = "locate" /\ Inserts(t) /\ ~Finds(t) /\ req[t] # NULL /\ t = Tid0
      /\ Does(t, {"Insert"})
  BY InsertPlaces DEF Locate, IInv, Position
<1>2. PICK c \in todo : todo' = todo \ {c} /\ FindByHash(t, c[2])
  BY DEF Locate
<1>3. UNCHANGED <<trie, ft, total, seen, req, ret, fresh, history>>
  BY DEF Locate
<1>4. c[2] \in Hash \cup {0} /\ todo' \subseteq Counter
  BY <1>2 DEF IInv, TypeOK, Counter
<1>5. CASE UNCHANGED <<elem, pc>>
  <2>1. TypeOK'
    BY <1>3, <1>4, <1>5 DEF IInv, TypeOK
  <2>2. HistoryOK'
    BY <1>3, <1>5 DEF IInv, HistoryOK
  <2>3. Position(t)' /\ Watched(t)'
    BY <1>1, <1>3, <1>5 DEF Position, Watched, Does, Inserts, Finds
  <2>4. ElemFromTrie'
    BY <1>3, <1>5 DEF IInv, ElemFromTrie
  <2>5. QED
    BY <1>1, <1>3, <1>5, <2>1, <2>2, <2>3, <2>4, QuietStep
<1>6. ASSUME NEW k \in PresentKeys, elem' = [hash |-> c[2], key |-> k, val |-> trie[k]],
             pc' = [pc EXCEPT ![t] = "check"]
      PROVE  IInv'
  <2>1. k \in Key /\ trie[k] # ABSENT /\ trie[k] \in Value
    BY DEF PresentKeys, IInv, TypeOK
  <2>2. elem' \in FastNode /\ elem' # NULL /\ elem'.key = k /\ elem'.val = trie[k]
    BY <1>4, <1>6, <2>1 DEF FastNode
  <2>3. pc'[t] = "check" /\ \A u \in Thread \ {t} : pc'[u] = pc[u]
    BY <1>6 DEF IInv, HistoryOK
  <2>4. TypeOK'
    BY <1>1, <1>3, <1>4, <2>2, <2>3 DEF IInv, TypeOK
  <2>5. HistoryOK'
    BY <1>3, <1>6 DEF IInv, HistoryOK
  <2>6. Position(t)'
    BY <1>1, <1>3, <2>2, <2>3 DEF Position, Does, Inserts, Finds
  <2>7. Watched(t)'
    BY <2>3 DEF Watched
  <2>8. ElemFromTrie'
    BY <1>3, <2>1, <2>2 DEF ElemFromTrie
  <2>9. QED
    BY <1>1, <1>3, <2>3, <2>4, <2>5, <2>6, <2>7, <2>8, QuietStep
<1>7. \/ UNCHANGED <<elem, pc>>
      \/ \E k \in PresentKeys :
           /\ elem' = [hash |-> c[2], key |-> k, val |-> trie[k]]
           /\ pc' = [pc EXCEPT ![t] = "check"]
  BY <1>2 DEF FindByHash, WithHash, SameRoot
<1>8. QED
  BY <1>5, <1>6, <1>7

LEMMA CheckSlotInv ==
  ASSUME IInv, NEW t \in Thread, CheckSlot(t)
  PROVE  IInv'
<1> USE DEF Goto, history, calls
<1>1. /\ pc[t] = "check" /\ Inserts(t) /\ ~Finds(t) /\ req[t] # NULL /\ t = Tid0
      /\ Does(t, {"Insert"}) /\ elem # NULL
  BY InsertPlaces DEF CheckSlot, IInv, Position
<1>2. /\ UNCHANGED <<trie, ft, total, seen, req, ret, todo, history>>
      /\ fresh' = [fresh EXCEPT ![t] = TRUE]
  BY DEF CheckSlot
<1>3. \/ /\ pc' = [pc EXCEPT ![t] = "chkcas"] /\ elem' = elem
         /\ LET n == ft[GetIdx(elem.hash)] IN n # NULL => n.key = elem.key
      \/ pc' = [pc EXCEPT ![t] = "locate"] /\ elem' = NULL
  BY DEF CheckSlot
<1>4. TypeOK'
  <2>1. \A u \in Thread \ {t} : pc'[u] = pc[u]
    BY <1>3 DEF IInv, HistoryOK
  <2>2. total[t] = kWarmUp + 1 /\ elem' \in FastNode \cup {NULL}
    BY <1>1, <1>3 DEF IInv, TypeOK
  <2>3. \A u \in Thread : pc'[u] \in {"locate", "check", "chkcas"} => total'[u] = kWarmUp + 1
    BY <1>2, <2>1, <2>2 DEF IInv, TypeOK
  <2>4. QED
    BY <1>2, <2>2, <2>3 DEF IInv, TypeOK
<1>5. HistoryOK'
  BY <1>2, <1>3 DEF IInv, HistoryOK
<1>6. /\ pc'[t] \in {"chkcas", "locate"} /\ (pc'[t] = "chkcas" => elem' = elem)
      /\ pc'[t] = "chkcas" => LET n == ft[GetIdx(elem.hash)] IN n # NULL => n.key = elem.key
      /\ \A u \in Thread \ {t} : pc'[u] = pc[u] /\ fresh'[u] = fresh[u]
  BY <1>2, <1>3 DEF IInv, HistoryOK
<1>7. Position(t)'
  BY <1>1, <1>2, <1>6 DEF Position, Does, Inserts, Finds
<1>8. Watched(t)'
  BY <1>2, <1>6 DEF Watched
<1>9. ElemFromTrie'
  BY <1>2, <1>3 DEF IInv, ElemFromTrie
<1>10. QED
  BY <1>1, <1>2, <1>4, <1>5, <1>6, <1>7, <1>8, <1>9, QuietStep

LEMMA TrieRefuseInv ==
  ASSUME IInv, NEW t \in Thread, TrieRefuse(t)
  PROVE  IInv'
<1> USE DEF TrieRefuse, Finish, Goto, history, calls, promotion
<1>1. req[t] # NULL /\ Inserts(t) /\ ~Finds(t)
  BY InCall DEF Inserts, Does
<1>2. TypeOK' /\ HistoryOK'
  BY DEF IInv, TypeOK, HistoryOK
<1>3. /\ pc'[t] = "done" /\ ret'[t] = FALSE
      /\ \A u \in Thread \ {t} : pc'[u] = pc[u] /\ ret'[u] = ret[u]
  BY DEF IInv, HistoryOK, TypeOK
<1>4. Position(t)' /\ Watched(t)'
  BY <1>1, <1>3 DEF Position, Watched
<1>5. ElemFromTrie'
  BY DEF IInv, ElemFromTrie
<1>6. QED
  BY <1>1, <1>2, <1>3, <1>4, <1>5, QuietStep

-----------------------------------------------------------------------------
(* Find.                                                                   *)

(* What a find in the cache hits is what Reads says, and a find that       *)
(* misses it reads what is in the trie.                                    *)
LEMMA CacheReads ==
  ASSUME IInv, NEW t \in Thread, pc[t] = "cache"
  PROVE  /\ CacheHit(t) => Reads(KeyOf(t)) = ft[GetIdx(HashOf(t))].val
         /\ ~CacheHit(t) => Reads(KeyOf(t)) = trie[KeyOf(t)]
BY DEF CacheHit, Reads, InCache, HashOf, KeyOf

LEMMA FindsInv ==
  ASSUME IInv, NEW t \in Thread, FindInCache(t) \/ MissCache(t) \/ TrieLookup(t)
  PROVE  IInv'
<1> USE DEF Finish, Goto, history, calls, promotion
<1>1. /\ pc[t] \in {"cache", "trie"} /\ Finds(t) /\ req[t] # NULL
      /\ UNCHANGED <<trie, ft, total, seen, req, fresh, promotion, history>>
  BY DEF FindInCache, MissCache, TrieLookup, IInv, Position, Finds, Does
<1>2. /\ KeyOf(t) \in Key /\ GetIdx(HashOf(t)) \in Index /\ ~Inserts(t)
  BY <1>1, InCall
<1>3. ReadsLegal(t)
  BY DEF IInv
<1>4. \/ /\ FindInCache(t) /\ pc' = [pc EXCEPT ![t] = "done"]
         /\ ret' = [ret EXCEPT ![t] = ft[GetIdx(HashOf(t))].val]
         /\ pc[t] = "cache" /\ CacheHit(t)
      \/ /\ MissCache(t) /\ pc' = [pc EXCEPT ![t] = "trie"] /\ ret' = ret
         /\ pc[t] = "cache" /\ ~CacheHit(t)
      \/ /\ MissCache(t) /\ pc' = [pc EXCEPT ![t] = "done"] /\ ret' = [ret EXCEPT ![t] = PENDING]
      \/ /\ TrieLookup(t) /\ pc' = [pc EXCEPT ![t] = "done"]
         /\ ret' = [ret EXCEPT ![t] = trie[KeyOf(t)]] /\ pc[t] = "trie"
  BY DEF FindInCache, MissCache, TrieLookup
<1>5. CacheHit(t) => ft[GetIdx(HashOf(t))].val \in Value
  BY <1>2 DEF CacheHit, IInv, TypeOK, FastNode
<1>6. trie[KeyOf(t)] \in Value \cup {ABSENT}
  BY <1>2 DEF IInv, TypeOK
<1>7. TypeOK'
  <2>1. \A u \in Thread : pc'[u] \in {"locate", "check", "chkcas"} => pc'[u] = pc[u]
    BY <1>4 DEF IInv, HistoryOK
  <2>2. QED
    BY <1>1, <1>4, <1>5, <1>6, <2>1 DEF IInv, TypeOK
<1>8. HistoryOK'
  BY <1>1, <1>4 DEF IInv, HistoryOK
<1>9. /\ pc'[t] \in {"trie", "done"}
      /\ \A u \in Thread \ {t} : pc'[u] = pc[u] /\ ret'[u] = ret[u]
  BY <1>4 DEF IInv, HistoryOK, TypeOK
<1>10. Position(t)' /\ Watched(t)'
  BY <1>1, <1>9 DEF Position, Watched, Finds, Does
<1>11. ElemFromTrie'
  BY <1>1 DEF IInv, ElemFromTrie
<1>12. ASSUME KeyOf(t) \notin bypassed
       PROVE  /\ pc'[t] = "trie" => trie[KeyOf(t)] \in legal[t]
              /\ pc'[t] = "done" => ret'[t] \in legal[t] \cup {PENDING}
  <2>1. /\ pc[t] = "cache" => Reads(KeyOf(t)) \in legal[t]
        /\ pc[t] = "trie" => trie[KeyOf(t)] \in legal[t]
    BY <1>1, <1>3, <1>12 DEF ReadsLegal
  <2>2. /\ pc[t] = "cache" /\ CacheHit(t) => Reads(KeyOf(t)) = ft[GetIdx(HashOf(t))].val
        /\ pc[t] = "cache" /\ ~CacheHit(t) => Reads(KeyOf(t)) = trie[KeyOf(t)]
    BY CacheReads
  <2>3. t \in DOMAIN pc /\ t \in DOMAIN ret
    BY DEF IInv, HistoryOK, TypeOK
  <2>4. QED
    BY <1>4, <2>1, <2>2, <2>3
<1>13. QED
  BY <1>1, <1>2, <1>7, <1>8, <1>9, <1>10, <1>11, <1>12, QuietStep

-----------------------------------------------------------------------------
(* Steps that write the cache or the trie.                                 *)

(* A slot of the cache is written: everyone who watched it is told.        *)
LEMMA WriteSlotEffect ==
  ASSUME IInv, NEW n \in FastNode, WriteSlot(n)
  PROVE  /\ GetIdx(n.hash) \in Index
         /\ ft' \in [Index -> FastNode \cup {NULL}] /\ ft'[GetIdx(n.hash)] = n
         /\ \A i \in Index : i # GetIdx(n.hash) => ft'[i] = ft[i]
         /\ fresh' \in [Thread -> BOOLEAN]
         /\ \A u \in Thread : fresh'[u] =>
              fresh[u] /\ \A i \in Index : Watches(u, i) => ft'[i] = ft[i]
<1>1. GetIdx(n.hash) \in Index
  BY IdxInTable DEF FastNode
<1>2. /\ ft' \in [Index -> FastNode \cup {NULL}] /\ ft'[GetIdx(n.hash)] = n
      /\ \A i \in Index : i # GetIdx(n.hash) => ft'[i] = ft[i]
  BY <1>1 DEF WriteSlot, IInv, TypeOK
<1>3. fresh' = [u \in Thread |-> fresh[u] /\ ~Watches(u, GetIdx(n.hash))]
  BY DEF WriteSlot
<1>4. \A u \in Thread : fresh[u] \in BOOLEAN /\ (fresh'[u] <=> fresh[u] /\ ~Watches(u, GetIdx(n.hash)))
  BY <1>3 DEF IInv, HistoryOK
<1>5. fresh' \in [Thread -> BOOLEAN]
  <2>1. \A u \in Thread : (fresh[u] /\ ~Watches(u, GetIdx(n.hash))) \in BOOLEAN
    OBVIOUS
  <2>2. QED
    BY <1>3, <2>1
<1>6. QED
  BY <1>1, <1>2, <1>4, <1>5

(* A key that hashes elsewhere, or that was not and is not in the slot,    *)
(* is read where it was.                                                   *)
LEMMA ReadsFrame ==
  ASSUME NEW i, NEW k \in Key, trie'[k] = trie[k],
         \/ GetIdx(HashFn[k]) # i
         \/ (ft[i] = NULL \/ ft[i].key # k) /\ (ft'[i] = NULL \/ ft'[i].key # k),
         GetIdx(HashFn[k]) # i => ft'[GetIdx(HashFn[k])] = ft[GetIdx(HashFn[k])]
  PROVE  Reads(k)' = Reads(k)
BY DEF Reads, InCache, TagMatches

LEMMA TryCasInv ==
  ASSUME IInv, NEW t \in Thread, TryCas(t)
  PROVE  IInv'
<1> USE DEF Goto, Finish, history, calls, promotion
<1> DEFINE n == [hash |-> HashOf(t), key |-> KeyOf(t), val |-> req[t].val]
           i == GetIdx(HashOf(t))
<1>1. pc[t] = "trycas" /\ Inserts(t) /\ ~Finds(t) /\ req[t] # NULL /\ fresh[t]
  BY InsertPlaces DEF TryCas
<1>2. KeyOf(t) \in Key /\ HashOf(t) \in Hash /\ i \in Index /\ req[t].val \in Value
  BY <1>1, InCall
<1>3. ft[i] # NULL /\ ft[i].hash = HashOf(t) /\ ft[i].key = KeyOf(t)
  BY <1>1 DEF IInv, Watched
<1>4. /\ UNCHANGED <<trie, total, seen, req, promotion, history>> /\ WriteSlot(n)
      /\ pc' = [pc EXCEPT ![t] = "done"] /\ ret' = [ret EXCEPT ![t] = TRUE]
  BY DEF TryCas
<1>5. n \in FastNode /\ n # NULL
  BY <1>2 DEF FastNode
<1>6. n.hash = HashOf(t) /\ n.key = KeyOf(t) /\ n.val = req[t].val
  OBVIOUS
<1> HIDE DEF n
<1>7. /\ ft' \in [Index -> FastNode \cup {NULL}] /\ ft'[i] = n
      /\ \A j \in Index : j # i => ft'[j] = ft[j]
      /\ fresh' \in [Thread -> BOOLEAN]
      /\ \A u \in Thread : fresh'[u] =>
           fresh[u] /\ \A j \in Index : Watches(u, j) => ft'[j] = ft[j]
  BY <1>4, <1>5, <1>6, WriteSlotEffect
<1> HIDE DEF i
<1>8. /\ pc'[t] = "done" /\ ret'[t] = TRUE
      /\ \A u \in Thread \ {t} : pc'[u] = pc[u] /\ ret'[u] = ret[u]
  BY <1>4 DEF IInv, HistoryOK, TypeOK
<1>9. TypeOK'
  BY <1>4, <1>7 DEF IInv, TypeOK
<1>10. HistoryOK'
  BY <1>4, <1>7 DEF IInv, HistoryOK
<1>11. Position(t)' /\ Watched(t)'
  BY <1>1, <1>4, <1>8 DEF Position, Watched
<1>12. \A u \in Thread \ {t} : Position(u)' /\ Watched(u)'
  BY <1>4, <1>7, <1>8, OthersWatch
<1>13. CachedArePresent'
  BY <1>2, <1>3, <1>4, <1>5, <1>6, <1>7 DEF IInv, CachedArePresent
<1>14. ElemFromTrie'
  BY <1>4 DEF IInv, ElemFromTrie
<1>15. ASSUME NEW k \in Key, k # KeyOf(t)
       PROVE  Reads(k)' = Reads(k)
  <2>1. GetIdx(HashFn[k]) \in Index
    BY HashIn, IdxInTable
  <2>2. QED
    BY <1>3, <1>4, <1>6, <1>7, <1>15, <2>1, ReadsFrame
<1>16. ASSUME NEW k \in Key, k = KeyOf(t)
       PROVE  Reads(k)' = req[t].val /\ Acknowledges(t, k)'
  <2>1. HashFn[k] = HashOf(t) /\ GetIdx(HashFn[k]) = i
    BY <1>16 DEF HashOf, KeyOf, i
  <2>2. Reads(k)' = req[t].val
    BY <1>5, <1>6, <1>7, <1>16, <2>1 DEF Reads, InCache, TagMatches
  <2>3. QED
    BY <1>1, <1>4, <1>8, <1>16, <2>2 DEF Acknowledges, Inserts, Does, KeyOf
<1>17. \A k \in Key : k # KeyOf(t) => ~Acknowledges(t, k)'
  BY <1>4 DEF Acknowledges, KeyOf
<1>18. /\ \A k \in Key \ bypassed' : ReadsCurrent(k)'
       /\ \A u \in Thread : ReadsLegal(u)'
  BY <1>1, <1>4, <1>8, <1>15, <1>16, <1>17, LegalStep
<1>19. QED
  BY <1>9, <1>10, <1>11, <1>12, <1>13, <1>14, <1>18 DEF IInv

(* The promotion fills an empty slot with what the trie holds.             *)
LEMMA CheckedCasInv ==
  ASSUME IInv, NEW t \in Thread, CheckedCas(t)
  PROVE  IInv'
<1> USE DEF Goto, calls
<1> DEFINE i == GetIdx(elem.hash)
<1>1. /\ pc[t] = "chkcas" /\ Inserts(t) /\ ~Finds(t) /\ req[t] # NULL /\ t = Tid0
      /\ Does(t, {"Insert"}) /\ elem # NULL /\ elem \in FastNode
  BY InsertPlaces DEF CheckedCas, IInv, Position, TypeOK
<1>2. /\ trie[elem.key] # ABSENT /\ elem.key \in Key
      /\ elem.key \notin bypassed => elem.val = trie[elem.key]
  BY <1>1 DEF IInv, ElemFromTrie, FastNode
<1>3. /\ UNCHANGED <<trie, total, seen, req, ret, todo, calls>>
      /\ pc' = [pc EXCEPT ![t] = "locate"] /\ elem' = NULL
      /\ bypassed' = IF fresh[t] /\ ft[i] # NULL THEN bypassed \cup {elem.key} ELSE bypassed
  BY DEF CheckedCas
<1>4. pc'[t] = "locate" /\ \A u \in Thread \ {t} : pc'[u] = pc[u]
  BY <1>3 DEF IInv, HistoryOK
<1>5. /\ ft' \in [Index -> FastNode \cup {NULL}]
      /\ fresh' \in [Thread -> BOOLEAN]
      /\ \A u \in Thread : fresh'[u] =>
           fresh[u] /\ \A j \in Index : Watches(u, j) => ft'[j] = ft[j]
      /\ i \in Index
      /\ \A j \in Index : j # i => ft'[j] = ft[j]
      /\ fresh[t] => ft'[i] = elem
      /\ ~fresh[t] => ft' = ft
  <2>1. CASE fresh[t]
    <3>1. WriteSlot(elem)
      BY <2>1 DEF CheckedCas
    <3>2. QED
      BY <1>1, <2>1, <3>1, WriteSlotEffect
  <2>2. CASE ~fresh[t]
    <3>1. UNCHANGED <<ft, fresh>>
      BY <2>2 DEF CheckedCas
    <3>2. i \in Index
      BY <1>1, IdxInTable DEF FastNode
    <3>3. QED
      BY <2>2, <3>1, <3>2 DEF IInv, TypeOK, HistoryOK
  <2>3. QED
    BY <2>1, <2>2
<1>6. fresh[t] /\ ft[i] # NULL => ft[i].key = elem.key
  BY <1>1 DEF IInv, Watched
<1> HIDE DEF i
<1>7. TypeOK'
  BY <1>1, <1>3, <1>4, <1>5 DEF IInv, TypeOK
<1>8. HistoryOK'
  BY <1>3, <1>5 DEF IInv, HistoryOK
<1>9. Position(t)' /\ Watched(t)'
  BY <1>1, <1>3, <1>4 DEF Position, Watched, Does, Inserts, Finds
<1>10. \A u \in Thread \ {t} : Position(u)' /\ Watched(u)'
  BY <1>1, <1>3, <1>4, <1>5, OthersWatch
<1>11. CachedArePresent'
  BY <1>2, <1>3, <1>5 DEF IInv, CachedArePresent
<1>12. ElemFromTrie'
  BY <1>3 DEF ElemFromTrie
<1>13. ASSUME NEW k \in Key \ bypassed'
       PROVE  Reads(k)' = Reads(k)
  <2>1. GetIdx(HashFn[k]) \in Index /\ trie'[k] = trie[k]
    BY <1>3, HashIn, IdxInTable
  <2>2. CASE ~fresh[t]
    BY <1>3, <1>5, <2>2 DEF Reads, InCache, TagMatches
  <2>3. CASE fresh[t] /\ k # elem.key
    BY <1>1, <1>5, <1>6, <2>1, <2>3, ReadsFrame
  <2>4. CASE fresh[t] /\ k = elem.key
    <3>1. ft[i] = NULL /\ elem.val = trie[k]
      BY <1>2, <1>3, <1>13, <2>4
    <3>2. CASE GetIdx(HashFn[k]) # i
      BY <1>5, <2>1, <3>2, ReadsFrame
    <3>3. CASE GetIdx(HashFn[k]) = i
      <4>1. Reads(k) = trie[k]
        BY <3>1, <3>3 DEF Reads, InCache
      <4>2. Reads(k)' = trie[k]
        BY <1>3, <1>5, <2>4, <3>1, <3>3 DEF Reads
      <4>3. QED
        BY <4>1, <4>2
    <3>4. QED
      BY <3>2, <3>3
  <2>5. QED
    BY <2>2, <2>3, <2>4
<1>14. \A k \in Key : ~Acknowledges(t, k)'
  BY <1>4 DEF Acknowledges
<1>15. /\ \A k \in Key \ bypassed' : ReadsCurrent(k)'
       /\ \A u \in Thread : ReadsLegal(u)'
  BY <1>1, <1>3, <1>4, <1>13, <1>14, LegalStep
<1>16. QED
  BY <1>7, <1>8, <1>9, <1>10, <1>11, <1>12, <1>15 DEF IInv

(* An insert that goes to the trie is what finds of its key read, if the   *)
(* cache does not hold the key.                                            *)
LEMMA TrieStoreInv ==
  ASSUME IInv, NEW t \in Thread, TrieStore(t)
  PROVE  IInv'
<1> USE DEF Goto, Finish, calls, promotion
<1>1. pc[t] = "trie" /\ Inserts(t) /\ ~Finds(t) /\ req[t] # NULL
  BY InCall DEF TrieStore, Inserts, Does
<1>2. KeyOf(t) \in Key /\ req[t].val \in Value /\ req[t].val # ABSENT
  BY <1>1, InCall
<1>3. /\ UNCHANGED <<ft, total, seen, req, fresh, promotion, calls>>
      /\ pc' = [pc EXCEPT ![t] = "done"] /\ ret' = [ret EXCEPT ![t] = TRUE]
      /\ trie' = [trie EXCEPT ![KeyOf(t)] = req[t].val]
      /\ bypassed' = IF CachedOrAboutToBe(KeyOf(t)) THEN bypassed \cup {KeyOf(t)} ELSE bypassed
  BY DEF TrieStore
<1>4. /\ pc'[t] = "done" /\ ret'[t] = TRUE
      /\ \A u \in Thread \ {t} : pc'[u] = pc[u] /\ ret'[u] = ret[u]
  BY <1>3 DEF IInv, HistoryOK, TypeOK
<1>5. trie'[KeyOf(t)] = req[t].val /\ \A k \in Key : k # KeyOf(t) => trie'[k] = trie[k]
  BY <1>2, <1>3 DEF IInv, TypeOK
<1>6. TypeOK'
  BY <1>2, <1>3 DEF IInv, TypeOK
<1>7. HistoryOK'
  BY <1>3 DEF IInv, HistoryOK
<1>8. Position(t)' /\ Watched(t)'
  BY <1>1, <1>3, <1>4 DEF Position, Watched
<1>9. \A u \in Thread \ {t} : Position(u)' /\ Watched(u)'
  BY <1>3, <1>4, OthersWatch
<1>10. CachedArePresent'
  <2>1. \A k \in Key : trie[k] # ABSENT => trie'[k] # ABSENT
    BY <1>2, <1>5
  <2>2. \A i \in Index : ft[i] # NULL => ft[i].key \in Key
    BY DEF IInv, TypeOK, FastNode
  <2>3. QED
    BY <1>3, <2>1, <2>2 DEF IInv, CachedArePresent
<1>11. ElemFromTrie'
  <2>1. elem # NULL => elem.key \in Key
    BY DEF IInv, TypeOK, FastNode
  <2>2. elem # NULL /\ elem.key = KeyOf(t) => elem.key \in bypassed'
    BY <1>3 DEF CachedOrAboutToBe
  <2>3. bypassed \subseteq bypassed' /\ ElemFromTrie
    BY <1>3 DEF IInv
  <2>4. QED
    BY <1>2, <1>3, <1>5, <2>1, <2>2, <2>3 DEF ElemFromTrie
<1>12. ASSUME NEW k \in Key, k # KeyOf(t)
       PROVE  Reads(k)' = Reads(k) /\ trie'[k] = trie[k]
  BY <1>3, <1>5, <1>12 DEF Reads, InCache, TagMatches
<1>13. ASSUME NEW k \in Key \ bypassed', k = KeyOf(t)
       PROVE  Reads(k)' = req[t].val /\ Acknowledges(t, k)'
  <2>1. ~CachedOrAboutToBe(k)
    BY <1>3, <1>13
  <2>2. Reads(k)' = req[t].val
    BY <1>3, <1>5, <1>13, <2>1 DEF Reads, InCache, TagMatches, CachedOrAboutToBe
  <2>3. QED
    BY <1>1, <1>3, <1>4, <1>13, <2>2 DEF Acknowledges, Inserts, Does, KeyOf
<1>14. \A k \in Key : k # KeyOf(t) => ~Acknowledges(t, k)'
  BY <1>3 DEF Acknowledges, KeyOf
<1>15. UNCHANGED <<req, current, legal>> /\ bypassed \subseteq bypassed'
  BY <1>3
<1>16. /\ \A k \in Key \ bypassed' : ReadsCurrent(k)'
       /\ \A u \in Thread : ReadsLegal(u)'
  BY <1>1, <1>4, <1>5, <1>12, <1>13, <1>14, <1>15, LegalStep
<1>17. QED
  BY <1>6, <1>7, <1>8, <1>9, <1>10, <1>11, <1>16 DEF IInv

-----------------------------------------------------------------------------
(* Calls and returns.                                                      *)

(* The cache, the trie and the other threads are not concerned.            *)
LEMMA CallFrame ==
  ASSUME IInv, NEW t \in Thread, pc[t] \in {"idle", "done"},
         UNCHANGED <<trie, ft, elem, bypassed>>,
         \A u \in Thread \ {t} :
           pc'[u] = pc[u] /\ req'[u] = req[u] /\ ret'[u] = ret[u] /\ fresh'[u] = fresh[u]
  PROVE  /\ CachedArePresent' /\ ElemFromTrie'
         /\ \A u \in Thread \ {t} : Position(u)' /\ Watched(u)'
         /\ \A k \in Key : Reads(k)' = Reads(k)
         /\ \A u \in Thread \ {t} :
              /\ (Inserts(u)' <=> Inserts(u)) /\ (Finds(u)' <=> Finds(u))
              /\ KeyOf(u)' = KeyOf(u)
              /\ \A k \in Key : Acknowledges(u, k)' <=> Acknowledges(u, k)
<1>1. CachedArePresent' /\ ElemFromTrie'
  BY DEF IInv, CachedArePresent, ElemFromTrie
<1>2. \A u \in Thread \ {t} : Position(u)' /\ Watched(u)'
  BY OthersWatch
<1>3. \A k \in Key : Reads(k)' = Reads(k)
  BY DEF Reads, InCache, TagMatches
<1>4. \A u \in Thread \ {t} :
        /\ (Inserts(u)' <=> Inserts(u)) /\ (Finds(u)' <=> Finds(u))
        /\ KeyOf(u)' = KeyOf(u)
  BY DEF Inserts, Finds, Does, KeyOf
<1>5. \A u \in Thread \ {t}, k \in Key : Acknowledges(u, k)' <=> Acknowledges(u, k)
  BY <1>4 DEF Acknowledges
<1>6. QED
  BY <1>1, <1>2, <1>3, <1>4, <1>5

(* Who overlaps the call keeps its history, or learns of the call.         *)
LEMMA OthersLegal ==
  ASSUME IInv, NEW t \in Thread, pc[t] \in {"idle", "done"},
         UNCHANGED <<trie, ft, elem, bypassed>>,
         \A u \in Thread \ {t} :
           pc'[u] = pc[u] /\ req'[u] = req[u] /\ ret'[u] = ret[u] /\ fresh'[u] = fresh[u],
         NEW u \in Thread \ {t}, legal[u] \subseteq legal'[u],
         req[u] # NULL /\ Inserts(t)' /\ KeyOf(t)' = KeyOf(u) => req'[t].val \in legal'[u]
  PROVE  ReadsLegal(u)'
<1>1. ReadsLegal(u)
  BY DEF IInv
<1>2. /\ \A k \in Key : Reads(k)' = Reads(k)
      /\ \A w \in Thread \ {t} :
           /\ (Inserts(w)' <=> Inserts(w)) /\ (Finds(w)' <=> Finds(w))
           /\ KeyOf(w)' = KeyOf(w)
           /\ \A k \in Key : Acknowledges(w, k)' <=> Acknowledges(w, k)
  BY CallFrame
<1>3. req[u] # NULL => KeyOf(u) \in Key
  BY InCall
<1>4. \A w \in Thread :
        (req[u] # NULL /\ Inserts(w) /\ KeyOf(w) = KeyOf(u) => req[w].val \in legal[u])'
  BY <1>1, <1>2 DEF ReadsLegal
<1>5. ASSUME NEW k \in Key, k = KeyOf(u), req[u] # NULL
      PROVE  /\ Reads(KeyOf(u))' = Reads(k)
             /\ Acknowledges(u, KeyOf(u))' <=> Acknowledges(u, k)
  <2>1. KeyOf(u)' = k
    BY <1>2, <1>5
  <2>2. Reads(KeyOf(u))' = Reads(k)' /\ (Acknowledges(u, KeyOf(u))' <=> Acknowledges(u, k)')
    BY <2>1 DEF Reads, InCache, Acknowledges
  <2>3. QED
    BY <1>2, <2>2
<1>6. QED
  BY <1>1, <1>2, <1>3, <1>4, <1>5 DEF ReadsLegal

LEMMA CallFindInv ==
  ASSUME IInv, NEW t \in Thread, CallFind(t)
  PROVE  IInv'
<1> USE DEF Goto, promotion
<1>1. PICK r \in FindRequest :
        /\ req' = [req EXCEPT ![t] = r]
        /\ legal' = [legal EXCEPT ![t] = current[r.key] \cup {req[u].val : u \in Inserting(r.key)}]
  BY DEF CallFind
<1>2. /\ pc[t] = "idle" /\ pc' = [pc EXCEPT ![t] = "cache"]
      /\ UNCHANGED <<trie, ft, total, seen, ret, fresh, promotion, current, bypassed>>
  BY DEF CallFind
<1>3. r \in Request /\ r # NULL /\ r.key \in Key /\ r.op \in {"Find", "AsyncFind"}
  BY DEF Request, FindRequest
<1>4. /\ req'[t] = r /\ pc'[t] = "cache"
      /\ \A u \in Thread \ {t} : pc'[u] = pc[u] /\ req'[u] = req[u] /\ legal'[u] = legal[u]
      /\ legal'[t] = current[r.key] \cup {req[u].val : u \in Inserting(r.key)}
  BY <1>1, <1>2 DEF IInv, TypeOK, HistoryOK
<1>5. Finds(t)' /\ ~Inserts(t)' /\ KeyOf(t)' = r.key /\ ~Inserts(t)
  BY <1>2, <1>3, <1>4 DEF Finds, Inserts, Does, KeyOf, IInv, Position
<1>6. TypeOK'
  BY <1>1, <1>2, <1>3 DEF IInv, TypeOK
<1>7. HistoryOK'
  <2>1. \A u \in Inserting(r.key) : req[u].val \in Value
    BY InCall DEF Inserting, Inserts, Does
  <2>2. current[r.key] \cup {req[u].val : u \in Inserting(r.key)} \subseteq Value \cup {ABSENT}
    BY <1>3, <2>1 DEF IInv, HistoryOK
  <2>3. QED
    BY <1>1, <1>2, <2>2 DEF IInv, HistoryOK
<1>8. Position(t)' /\ Watched(t)'
  BY <1>3, <1>4, <1>5 DEF Position, Watched
<1>9. /\ CachedArePresent' /\ ElemFromTrie'
      /\ \A u \in Thread \ {t} : Position(u)' /\ Watched(u)'
      /\ \A k \in Key : Reads(k)' = Reads(k)
      /\ \A u \in Thread \ {t} :
           /\ (Inserts(u)' <=> Inserts(u)) /\ (Finds(u)' <=> Finds(u))
           /\ KeyOf(u)' = KeyOf(u)
           /\ \A k \in Key : Acknowledges(u, k)' <=> Acknowledges(u, k)
  BY <1>2, <1>4, CallFrame
<1>10. \A k \in Key : ~Acknowledges(t, k) /\ ~Acknowledges(t, k)'
  BY <1>2, <1>4 DEF Acknowledges
<1>11. ASSUME NEW k \in Key, k \notin bypassed'
       PROVE  ReadsCurrent(k)'
  <2>1. ReadsCurrent(k) /\ current' = current
    BY <1>2, <1>11 DEF IInv
  <2>2. QED
    BY <1>4, <1>9, <1>10, <2>1 DEF ReadsCurrent
<1>12. \A u \in Thread \ {t} : ReadsLegal(u)'
  BY <1>2, <1>4, <1>5, OthersLegal
<1>13. ReadsLegal(t)'
  <2>1. \A w \in Thread \ {t} : Inserts(w) /\ KeyOf(w) = r.key => req[w].val \in legal'[t]
    BY <1>4 DEF Inserting
  <2>2. r.key \notin bypassed => Reads(r.key) \in legal'[t]
    <3>1. SUFFICES ASSUME r.key \notin bypassed PROVE Reads(r.key) \in legal'[t]
      OBVIOUS
    <3>2. ReadsCurrent(r.key)
      BY <1>3, <3>1 DEF IInv
    <3>3. CASE Reads(r.key) \in current[r.key]
      BY <1>4, <3>3
    <3>4. ASSUME NEW u \in Thread, Acknowledges(u, r.key), Reads(r.key) = req[u].val
          PROVE  Reads(r.key) \in legal'[t]
      BY <1>4, <3>4 DEF Acknowledges, Inserting
    <3>5. QED
      BY <3>2, <3>3, <3>4 DEF ReadsCurrent
  <2>3. Reads(KeyOf(t))' = Reads(r.key)
    <3>1. Reads(KeyOf(t))' = Reads(r.key)'
      BY <1>5 DEF Reads, InCache
    <3>2. QED
      BY <1>3, <1>9, <3>1
  <2>4. ~Acknowledges(t, KeyOf(t))'
    BY <1>4 DEF Acknowledges
  <2>5. \A w \in Thread : Inserts(w)' => w # t /\ Inserts(w) /\ KeyOf(w)' = KeyOf(w) /\ req'[w] = req[w]
    BY <1>4, <1>5, <1>9
  <2>6. QED
    BY <1>2, <1>4, <1>5, <2>1, <2>2, <2>3, <2>4, <2>5 DEF ReadsLegal
<1>14. \A u \in Thread : Position(u)' /\ Watched(u)' /\ ReadsLegal(u)'
  BY <1>8, <1>9, <1>12, <1>13
<1>15. QED
  BY <1>6, <1>7, <1>9, <1>11, <1>14 DEF IInv

LEMMA CallInsertInv ==
  ASSUME IInv, NEW t \in Thread, CallInsert(t)
  PROVE  IInv'
<1> USE DEF Goto, promotion
<1>1. PICK r \in InsertRequest :
        /\ req' = [req EXCEPT ![t] = r]
        /\ legal' = [u \in Thread |->
             IF u = t THEN {r.val} \cup {req[w].val : w \in Inserting(r.key)}
             ELSE IF req[u] # NULL /\ req[u].key = r.key THEN legal[u] \cup {r.val}
             ELSE legal[u]]
  BY DEF CallInsert
<1>2. /\ pc[t] = "idle" /\ \E l \in {"record", "async"} :
           /\ pc' = [pc EXCEPT ![t] = l]
           /\ l = "record" => req'[t].op = "Insert"
      /\ UNCHANGED <<trie, ft, total, seen, ret, fresh, promotion, current, bypassed>>
  BY DEF CallInsert
<1>3. /\ r \in Request /\ r # NULL /\ r.key \in Key /\ r.op \in {"Insert", "AsyncInsert"}
      /\ r.val \in Value
  BY DEF Request, InsertRequest
<1>4. /\ req'[t] = r /\ pc'[t] \in {"record", "async"} /\ (pc'[t] = "record" => r.op = "Insert")
      /\ \A u \in Thread \ {t} : pc'[u] = pc[u] /\ req'[u] = req[u]
  BY <1>1, <1>2 DEF IInv, TypeOK, HistoryOK
<1>5. Inserts(t)' /\ ~Finds(t)' /\ KeyOf(t)' = r.key /\ ~Inserts(t)
  BY <1>2, <1>3, <1>4 DEF Finds, Inserts, Does, KeyOf, IInv, Position
<1>6. /\ legal'[t] = {r.val} \cup {req[w].val : w \in Inserting(r.key)}
      /\ \A u \in Thread \ {t} :
           /\ legal[u] \subseteq legal'[u]
           /\ req[u] # NULL /\ KeyOf(u) = r.key => r.val \in legal'[u]
  BY <1>1 DEF KeyOf
<1>7. TypeOK'
  BY <1>1, <1>2, <1>3 DEF IInv, TypeOK
<1>8. HistoryOK'
  <2>1. \A u \in Inserting(r.key) : req[u].val \in Value
    BY InCall DEF Inserting, Inserts, Does
  <2>2. {r.val} \cup {req[w].val : w \in Inserting(r.key)} \subseteq Value \cup {ABSENT}
    BY <1>3, <2>1
  <2>3. legal' \in [Thread -> SUBSET (Value \cup {ABSENT})]
    BY <1>1, <1>3, <2>2 DEF IInv, HistoryOK
  <2>4. QED
    BY <1>2, <2>3 DEF IInv, HistoryOK
<1>9. Position(t)' /\ Watched(t)'
  BY <1>3, <1>4, <1>5 DEF Position, Watched, Does
<1>10. /\ CachedArePresent' /\ ElemFromTrie'
       /\ \A u \in Thread \ {t} : Position(u)' /\ Watched(u)'
       /\ \A k \in Key : Reads(k)' = Reads(k)
       /\ \A u \in Thread \ {t} :
            /\ (Inserts(u)' <=> Inserts(u)) /\ KeyOf(u)' = KeyOf(u)
            /\ \A k \in Key : Acknowledges(u, k)' <=> Acknowledges(u, k)
  BY <1>2, <1>4, CallFrame
<1>11. ASSUME NEW k \in Key, k \notin bypassed'
       PROVE  ReadsCurrent(k)'
  <2>1. ReadsCurrent(k) /\ current' = current
    BY <1>2, <1>11 DEF IInv
  <2>2. ~Acknowledges(t, k)
    BY <1>2 DEF Acknowledges
  <2>3. QED
    BY <1>4, <1>10, <2>1, <2>2 DEF ReadsCurrent
<1>12. \A u \in Thread \ {t} : ReadsLegal(u)'
  BY <1>2, <1>4, <1>5, <1>6, OthersLegal
<1>13. ReadsLegal(t)'
  <2>1. \A w \in Thread \ {t} : Inserts(w) /\ KeyOf(w) = r.key => req[w].val \in legal'[t]
    BY <1>6 DEF Inserting
  <2>2. \A w \in Thread \ {t} : Inserts(w)' => Inserts(w) /\ KeyOf(w)' = KeyOf(w) /\ req'[w] = req[w]
    BY <1>4, <1>10
  <2>3. r.val \in legal'[t]
    BY <1>6
  <2>4. ~Acknowledges(t, KeyOf(t))'
    BY <1>4 DEF Acknowledges
  <2>5. QED
    BY <1>4, <1>5, <2>1, <2>2, <2>3, <2>4 DEF ReadsLegal
<1>14. \A u \in Thread : Position(u)' /\ Watched(u)' /\ ReadsLegal(u)'
  BY <1>9, <1>10, <1>12, <1>13
<1>15. QED
  BY <1>7, <1>8, <1>10, <1>11, <1>14 DEF IInv

(* An insert that returns true passes its history on to the finds to come. *)
LEMMA ReturnInv ==
  ASSUME IInv, NEW t \in Thread, Return(t)
  PROVE  IInv'
<1> USE DEF Goto, promotion
<1>1. /\ pc[t] = "done" /\ pc' = [pc EXCEPT ![t] = "idle"] /\ req' = [req EXCEPT ![t] = NULL]
      /\ ret' = [ret EXCEPT ![t] = NULL] /\ fresh' = [fresh EXCEPT ![t] = FALSE]
      /\ legal' = [legal EXCEPT ![t] = {}]
      /\ current' = IF Inserts(t) /\ ret[t] = TRUE
                    THEN [current EXCEPT ![KeyOf(t)] = legal[t]] ELSE current
      /\ UNCHANGED <<trie, ft, total, seen, promotion, bypassed>>
  BY DEF Return
<1>2. /\ pc'[t] = "idle" /\ req'[t] = NULL
      /\ \A u \in Thread \ {t} : /\ pc'[u] = pc[u] /\ req'[u] = req[u] /\ ret'[u] = ret[u]
                                 /\ fresh'[u] = fresh[u] /\ legal'[u] = legal[u]
  BY <1>1 DEF IInv, TypeOK, HistoryOK
<1>3. KeyOf(t) \in Key /\ ~Inserts(t)' /\ ~Finds(t)'
  BY <1>1, <1>2, InCall DEF Inserts, Finds, Does, IInv, Position
<1>4. TypeOK'
  BY <1>1 DEF IInv, TypeOK
<1>5. HistoryOK'
  BY <1>1, <1>3 DEF IInv, HistoryOK
<1>6. Position(t)' /\ Watched(t)'
  BY <1>2 DEF Position, Watched
<1>7. /\ CachedArePresent' /\ ElemFromTrie'
      /\ \A u \in Thread \ {t} : Position(u)' /\ Watched(u)'
      /\ \A k \in Key : Reads(k)' = Reads(k)
      /\ \A u \in Thread \ {t}, k \in Key : Acknowledges(u, k)' <=> Acknowledges(u, k)
  BY <1>1, <1>2, CallFrame
<1>8. ASSUME NEW k \in Key, k \notin bypassed'
      PROVE  ReadsCurrent(k)'
  <2>1. ReadsCurrent(k)
    BY <1>1, <1>8 DEF IInv
  <2>2. CASE Acknowledges(t, k)
    <3>1. Reads(k) \in legal[t] /\ KeyOf(t) = k
      <4>1. KeyOf(t) = k /\ req[t] # NULL /\ ReadsLegal(t)
        BY <2>2 DEF Acknowledges, Inserts, Does, IInv
      <4>2. QED
        BY <1>1, <1>8, <2>2, <4>1 DEF ReadsLegal
    <3>2. current'[k] = legal[t]
      BY <1>1, <2>2, <3>1 DEF Acknowledges, IInv, HistoryOK
    <3>3. QED
      BY <1>7, <3>1, <3>2 DEF ReadsCurrent
  <2>3. CASE ~Acknowledges(t, k)
    <3>1. current'[k] = current[k]
      BY <1>1, <1>3, <2>3 DEF Acknowledges, IInv, HistoryOK
    <3>2. QED
      BY <1>2, <1>7, <2>1, <2>3, <3>1 DEF ReadsCurrent
  <2>4. QED
    BY <2>2, <2>3
<1>9. \A u \in Thread \ {t} : ReadsLegal(u)'
  BY <1>1, <1>2, <1>3, OthersLegal
<1>10. ReadsLegal(t)'
  <2>1. ~Acknowledges(t, KeyOf(t))'
    BY <1>2 DEF Acknowledges
  <2>2. QED
    BY <1>2, <2>1 DEF ReadsLegal
<1>11. \A u \in Thread : Position(u)' /\ Watched(u)' /\ ReadsLegal(u)'
  BY <1>6, <1>7, <1>9, <1>10
<1>12. QED
  BY <1>4, <1>5, <1>7, <1>8, <1>11 DEF IInv

-----------------------------------------------------------------------------
(* The invariant holds, and what follows from it.                          *)

LEMMA NextInv == IInv /\ [Next]_vars => IInv'
<1> SUFFICES ASSUME IInv, [Next]_vars PROVE IInv'
  OBVIOUS
<1>1. CASE UNCHANGED vars
  <2> USE <1>1 DEF vars, locals, promotion, history, calls
  <2>1. TypeOK' /\ HistoryOK' /\ CachedArePresent' /\ ElemFromTrie'
    BY DEF IInv, TypeOK, HistoryOK, CachedArePresent, ElemFromTrie
  <2>2. \A t \in Thread : Position(t)' /\ Watched(t)'
    BY DEF IInv, Position, Watched, Finds, Inserts, Does, HashOf, KeyOf
  <2>3. /\ \A k : Reads(k)' = Reads(k)
        /\ \A u \in Thread : Inserts(u)' = Inserts(u) /\ Finds(u)' = Finds(u) /\ KeyOf(u)' = KeyOf(u)
        /\ \A u \in Thread, k \in Key : Acknowledges(u, k)' <=> Acknowledges(u, k)
        /\ \A u \in Thread : /\ Acknowledges(u, KeyOf(u))' <=> Acknowledges(u, KeyOf(u))
                             /\ Reads(KeyOf(u))' = Reads(KeyOf(u))
    BY DEF Reads, InCache, TagMatches, Inserts, Finds, Does, KeyOf, Acknowledges
  <2>4. \A k \in Key : k \notin bypassed' => ReadsCurrent(k)'
    BY <2>3 DEF IInv, ReadsCurrent
  <2>5. \A u \in Thread : ReadsLegal(u)'
    BY <2>3 DEF IInv, ReadsLegal
  <2>6. QED
    BY <2>1, <2>2, <2>4, <2>5 DEF IInv
<1>2. ASSUME NEW t \in Thread, InsertStep(t)
      PROVE  IInv'
  BY <1>2, RecordInv, AsyncBeginInv, TryLoadInv, TryCasInv, TryCasLostInv, PromotionInv,
     LocateInv, CheckSlotInv, CheckedCasInv, TrieStoreInv, TrieRefuseInv DEF InsertStep
<1>3. QED
  BY <1>1, <1>2, CallFindInv, CallInsertInv, ReturnInv, FindsInv DEF Next

(* IInv holds in every state: what the cache holds and what is on its way  *)
(* there came from the trie, and for a key whose cached value no insert    *)
(* went past, the value in place is one a find may answer.                 *)
THEOREM CacheInvariance == Spec => []IInv
<1>1. QED
  BY InitInv, NextInv, PTL DEF Spec

(* Every variable keeps its type, and while the promotion runs total_ is   *)
(* past the value that starts it, at its last: the cache is filled once.   *)
THEOREM CacheTypeCorrect == Spec => []TypeOK
<1>1. IInv => TypeOK
  BY DEF IInv
<1>2. QED
  BY <1>1, CacheInvariance, PTL

(* A key that is in the cache is in the trie.                              *)
THEOREM CachedIsPresent == Spec => []CachedArePresent
<1>1. IInv => CachedArePresent
  BY DEF IInv
<1>2. QED
  BY <1>1, CacheInvariance, PTL

(* A find answers with a value that is out of date only for a key with an  *)
(* insert that went past the cache, or a promotion that came by again.     *)
THEOREM StaleNeedsBypass == Spec => []StaleOnlyPastCache
<1>1. ASSUME IInv PROVE StaleOnlyPastCache
  <2>1. ASSUME NEW t \in Thread, KeyOf(t) \notin bypassed, pc[t] = "done", Finds(t)
        PROVE  ret[t] \in legal[t] \cup {PENDING}
    BY <1>1, <2>1 DEF IInv, ReadsLegal, Finds, Does
  <2>2. QED
    BY <2>1 DEF StaleOnlyPastCache, Regular
<1>2. QED
  BY <1>1, CacheInvariance, PTL

=============================================================================
