------------------------------ MODULE CachedMap ------------------------------
(***************************************************************************)
(* ConcurrentHashMap with its fast table: Insert and Find go past the      *)
(* cache of hot keys before they reach the trie, and AsyncInsert and       *)
(* AsyncFind, when they find nothing there, leave it to the caller to try  *)
(* again.  Each thread records its inserts until it has seen kWarmUp of    *)
(* them; from then on it tries to update the cache first, and the thread   *)
(* with id 0 fills the cache, once, with the keys it saw most.             *)
(*                                                                         *)
(* The trie is a map whose operations are atomic (ConcurrentMap, without   *)
(* the losses of its races), and a cache node is read and replaced under   *)
(* the protection FastTable shows: a compare_exchange succeeds when the    *)
(* slot was not written since the thread looked at it.                     *)
(***************************************************************************)
EXTENDS FastTableHash

CONSTANTS
  Thread, Key, Value,
  HashFn,        \* the hash of each key
  root_size_,    \* root slots of the trie
  Tid0,          \* the thread whose id is 0
  kWarmUp,       \* 5000000
  NULL,          \* an empty slot, no request, no element
  ABSENT,        \* what Find reports when it returns false
  PENDING        \* AsyncReturnCode::Pending

ASSUME HashAssumption == HashFn \in [Key -> Nat]
ASSUME WarmUpAssumption == kWarmUp \in Nat \ {0}
ASSUME AnswerAssumption ==
  /\ ABSENT \notin BOOLEAN \cup Value
  /\ PENDING \notin BOOLEAN \cup Value \cup {ABSENT}

Hash == {HashFn[k] : k \in Key}

FindRequest == [op : {"Find", "AsyncFind"}, key : Key]
InsertRequest == [op : {"Insert", "AsyncInsert"}, key : Key, val : Value]
Request == FindRequest \cup InsertRequest

FastNode == [hash : Hash \cup {0}, key : Key, val : Value]

ASSUME NullAssumption == NULL \notin Request \cup FastNode

VARIABLES
  trie,      \* what the trie maps each key to
  ft,        \* the node in each slot of ft_
  total,     \* stat_[tid]->total_
  seen,      \* the hashes in thread 0's ss_
  pc,        \* idle, record, tryload, trycas, promote, locate, check, chkcas,
             \* cache, trie, done
  req,       \* the call each thread is executing
  ret,       \* its return value
  todo,      \* counters of ss_.output the promotion has yet to look up
  elem,      \* the hash it is at and the element FindByHash found
  fresh,     \* the slot was not written since the thread looked at it
  current,   \* history: the values a find of the key may start with ...
  legal,     \* ... and those a call in progress may see or be followed by
  bypassed   \* history: keys whose cached value missed or undid an insert

locals == <<pc, req, ret, fresh>>
promotion == <<todo, elem>>
calls == <<current, legal>>
history == <<calls, bypassed>>
vars == <<trie, ft, total, seen, locals, promotion, history>>

Init ==
  /\ trie = [k \in Key |-> ABSENT]
  /\ ft = [i \in Index |-> NULL]
  /\ total = [t \in Thread |-> 0]
  /\ seen = {}
  /\ pc = [t \in Thread |-> "idle"]
  /\ req = [t \in Thread |-> NULL]
  /\ ret = [t \in Thread |-> NULL]
  /\ fresh = [t \in Thread |-> FALSE]
  /\ todo = {}
  /\ elem = NULL
  /\ current = [k \in Key |-> {ABSENT}]
  /\ legal = [t \in Thread |-> {}]
  /\ bypassed = {}

Goto(t, l) == pc' = [pc EXCEPT ![t] = l]
KeyOf(t) == req[t].key
HashOf(t) == HashFn[req[t].key]
Does(t, ops) == req[t] # NULL /\ req[t].op \in ops
Inserts(t) == Does(t, {"Insert", "AsyncInsert"})
Finds(t) == Does(t, {"Find", "AsyncFind"})

(* The slot of hash h holds a node with the second level hash of h; an     *)
(* empty slot has the second level hash 0.                                 *)
TagMatches(h) ==
  LET n == ft[GetIdx(h)]
  IN  GetSecondLevelHash(h) = IF n = NULL THEN 0 ELSE GetSecondLevelHash(n.hash)

Watches(t, i) ==
  \/ pc[t] = "trycas" /\ i = GetIdx(HashOf(t))
  \/ pc[t] = "chkcas" /\ i = GetIdx(elem.hash)

WriteSlot(n) ==
  /\ ft' = [ft EXCEPT ![GetIdx(n.hash)] = n]
  /\ fresh' = [u \in Thread |-> fresh[u] /\ ~Watches(u, GetIdx(n.hash))]

-----------------------------------------------------------------------------
(* Calls, with the history of what a Find may answer: the values of the    *)
(* inserts that may have come last, and of all those that overlap it.      *)

Inserting(k) == {u \in Thread : Inserts(u) /\ KeyOf(u) = k}

CallFind(t) ==
  /\ pc[t] = "idle"
  /\ \E r \in FindRequest :
       /\ req' = [req EXCEPT ![t] = r]
       /\ legal' = [legal EXCEPT ![t] = current[r.key] \cup {req[u].val : u \in Inserting(r.key)}]
  /\ Goto(t, "cache")
  /\ UNCHANGED <<trie, ft, total, seen, ret, fresh, promotion, current, bypassed>>

CallInsert(t) ==
  /\ pc[t] = "idle"
  /\ \E r \in InsertRequest :
       /\ req' = [req EXCEPT ![t] = r]
       /\ legal' = [u \in Thread |->
            IF u = t THEN {r.val} \cup {req[w].val : w \in Inserting(r.key)}
            ELSE IF req[u] # NULL /\ req[u].key = r.key THEN legal[u] \cup {r.val}
            ELSE legal[u]]
  /\ Goto(t, IF req'[t].op = "Insert" THEN "record" ELSE "async")
  /\ UNCHANGED <<trie, ft, total, seen, ret, fresh, promotion, current, bypassed>>

Return(t) ==
  /\ pc[t] = "done"
  /\ current' = IF Inserts(t) /\ ret[t] = TRUE
                THEN [current EXCEPT ![KeyOf(t)] = legal[t]] ELSE current
  /\ Goto(t, "idle")
  /\ req' = [req EXCEPT ![t] = NULL]
  /\ ret' = [ret EXCEPT ![t] = NULL]
  /\ fresh' = [fresh EXCEPT ![t] = FALSE]
  /\ legal' = [legal EXCEPT ![t] = {}]
  /\ UNCHANGED <<trie, ft, total, seen, promotion, bypassed>>

Finish(t, r) == Goto(t, "done") /\ ret' = [ret EXCEPT ![t] = r]

-----------------------------------------------------------------------------
(* Insert.                                                                 *)

(* total_ < 5000000: Record.  ss_ is only ever read by thread 0.           *)
Record(t) ==
  /\ pc[t] = "record"
  /\ total' = [total EXCEPT ![t] = IF @ < kWarmUp THEN @ + 1 ELSE @]
  /\ seen' = IF t = Tid0 /\ total[t] < kWarmUp THEN seen \cup {HashOf(t)} ELSE seen
  /\ Goto(t, IF total'[t] >= kWarmUp THEN "tryload" ELSE "trie")
  /\ UNCHANGED <<trie, ft, req, ret, fresh, promotion, history>>

(* AsyncInsert starts with the test of total_.                             *)
AsyncBegin(t) ==
  /\ pc[t] = "async"
  /\ IF total[t] >= kWarmUp THEN Goto(t, "tryload") /\ UNCHANGED ret ELSE Finish(t, PENDING)
  /\ UNCHANGED <<trie, ft, total, seen, req, fresh, promotion, history>>

(* The cache was no help: Insert goes on, AsyncInsert gives up.            *)
GoOn(t) ==
  IF Does(t, {"Insert"}) THEN Goto(t, "promote") /\ UNCHANGED ret ELSE Finish(t, PENDING)

(* TryUpdate looks at the slot of the hash: the insert type plays no part. *)
TryLoad(t) ==
  /\ pc[t] = "tryload"
  /\ LET n == ft[GetIdx(HashOf(t))]
     IN  IF n # NULL /\ TagMatches(HashOf(t)) /\ n.hash = HashOf(t) /\ n.key = KeyOf(t)
         THEN Goto(t, "trycas") /\ UNCHANGED ret ELSE GoOn(t)
  /\ fresh' = [fresh EXCEPT ![t] = TRUE]
  /\ UNCHANGED <<trie, ft, total, seen, req, promotion, history>>

TryCas(t) ==
  /\ pc[t] = "trycas"
  /\ fresh[t]
  /\ WriteSlot([hash |-> HashOf(t), key |-> KeyOf(t), val |-> req[t].val])
  /\ Finish(t, TRUE)
  /\ UNCHANGED <<trie, total, seen, req, promotion, history>>

TryCasLost(t) ==
  /\ pc[t] = "trycas"
  /\ ~fresh[t]
  /\ GoOn(t)
  /\ UNCHANGED <<trie, ft, total, seen, req, fresh, promotion, history>>

(* tid == 0 and total_ == 5000000, which is left by total_++.  The counters *)
(* of ss_.output hold the hashes of those seen that ss_ has kept; p[0] is  *)
(* no counter, and put sets its item to 0.                                 *)
Counter == ({"dummy"} \X {0}) \cup ({"counter"} \X Hash)

(* Mutant: without total_++, the next insert of the thread promotes again. *)
BeginPromotionUncounted(t) ==
  /\ pc[t] = "promote"
  /\ t = Tid0 /\ total[t] = kWarmUp
  /\ \E S \in SUBSET seen : todo' = {<<"dummy", 0>>} \cup ({"counter"} \X S)
  /\ Goto(t, "locate")
  /\ UNCHANGED <<trie, ft, total, seen, req, ret, fresh, elem, history>>

BeginPromotion(t) ==
  /\ pc[t] = "promote"
  /\ t = Tid0 /\ total[t] = kWarmUp
  /\ total' = [total EXCEPT ![t] = @ + 1]
  /\ \E S \in SUBSET seen : todo' = {<<"dummy", 0>>} \cup ({"counter"} \X S)
  /\ Goto(t, "locate")
  /\ UNCHANGED <<trie, ft, seen, req, ret, fresh, elem, history>>

NoPromotion(t) ==
  /\ pc[t] = "promote"
  /\ ~(t = Tid0 /\ total[t] = kWarmUp)
  /\ Goto(t, "trie")
  /\ UNCHANGED <<trie, ft, total, seen, req, ret, fresh, promotion, history>>

PresentKeys == {k \in Key : trie[k] # ABSENT}
WithHash(h) == {k \in PresentKeys : HashFn[k] = h}
SameRoot(h) == {k \in PresentKeys : HashFn[k] % root_size_ = h % root_size_}

(* Mutant: a hash the trie does not hold is cached with the value at hand. *)
FindByHashMadeUp(t, h) ==
  \/ \E k \in Key :
       /\ HashFn[k] = h
       /\ elem' = [hash |-> h, key |-> k, val |-> req[t].val]
       /\ Goto(t, "check")
  \/ UNCHANGED <<elem, pc>>

(* FindByHash: the key with this hash or, when there is none, perhaps the  *)
(* node of another key in the slot where the path of the hash ends.        *)
FindByHash(t, h) ==
  \/ \E k \in IF WithHash(h) # {} THEN WithHash(h) ELSE SameRoot(h) :
       /\ elem' = [hash |-> h, key |-> k, val |-> trie[k]]
       /\ Goto(t, "check")
  \/ WithHash(h) = {} /\ UNCHANGED <<elem, pc>>

Locate(t) ==
  /\ pc[t] = "locate"
  /\ \E c \in todo : todo' = todo \ {c} /\ FindByHash(t, c[2])
  /\ UNCHANGED <<trie, ft, total, seen, req, ret, fresh, history>>

(* CheckedInsert compares hash and key of the node in the slot, if any.    *)
CheckSlot(t) ==
  /\ pc[t] = "check"
  /\ LET n == ft[GetIdx(elem.hash)]
     IN  IF TagMatches(elem.hash) /\ (n # NULL => n.hash = elem.hash /\ n.key = elem.key)
         THEN Goto(t, "chkcas") /\ UNCHANGED elem
         ELSE Goto(t, "locate") /\ elem' = NULL
  /\ fresh' = [fresh EXCEPT ![t] = TRUE]
  /\ UNCHANGED <<trie, ft, total, seen, req, ret, todo, history>>

(* Mutant: a store in place of the compare_exchange.                       *)
CheckedCasUnchecked(t) ==
  /\ pc[t] = "chkcas"
  /\ WriteSlot(elem)
  /\ bypassed' = IF fresh[t] /\ ft[GetIdx(elem.hash)] # NULL
                 THEN bypassed \cup {elem.key} ELSE bypassed
  /\ elem' = NULL
  /\ Goto(t, "locate")
  /\ UNCHANGED <<trie, total, seen, req, ret, todo, calls>>

CheckedCas(t) ==
  /\ pc[t] = "chkcas"
  /\ IF fresh[t] THEN WriteSlot(elem) ELSE UNCHANGED <<ft, fresh>>
  /\ bypassed' = IF fresh[t] /\ ft[GetIdx(elem.hash)] # NULL
                 THEN bypassed \cup {elem.key} ELSE bypassed
  /\ elem' = NULL
  /\ Goto(t, "locate")
  /\ UNCHANGED <<trie, total, seen, req, ret, todo, calls>>

EndPromotion(t) ==
  /\ pc[t] = "locate"
  /\ todo = {}
  /\ Goto(t, "trie")
  /\ UNCHANGED <<trie, ft, total, seen, req, ret, fresh, promotion, history>>

(* DoInsert, as one step.  Nothing before it looks at the insert type, so  *)
(* it is chosen here.                                                      *)
InsertType == {"DOES_NOT_EXIST", "MUST_EXIST", "ANY"}

CachedOrAboutToBe(k) ==
  \/ elem # NULL /\ elem.key = k
  \/ LET n == ft[GetIdx(HashFn[k])] IN n # NULL /\ n.key = k

OtherKeyPresent(k) == PresentKeys \ {k} # {}

Accepts(type, k) ==
  /\ type = "DOES_NOT_EXIST" => trie[k] = ABSENT
  /\ type = "MUST_EXIST" => trie[k] # ABSENT \/ OtherKeyPresent(k)

Refuses(type, k) ==
  \/ type = "DOES_NOT_EXIST" /\ (trie[k] # ABSENT \/ OtherKeyPresent(k))
  \/ type = "MUST_EXIST" /\ trie[k] = ABSENT

TrieStore(t) ==
  /\ pc[t] = "trie" /\ Inserts(t)
  /\ \E type \in InsertType : Accepts(type, KeyOf(t))
  /\ trie' = [trie EXCEPT ![KeyOf(t)] = req[t].val]
  /\ bypassed' = IF CachedOrAboutToBe(KeyOf(t)) THEN bypassed \cup {KeyOf(t)} ELSE bypassed
  /\ Finish(t, TRUE)
  /\ UNCHANGED <<ft, total, seen, req, fresh, promotion, calls>>

TrieRefuse(t) ==
  /\ pc[t] = "trie" /\ Inserts(t)
  /\ \E type \in InsertType : Refuses(type, KeyOf(t))
  /\ Finish(t, FALSE)
  /\ UNCHANGED <<trie, ft, total, seen, req, fresh, promotion, history>>

-----------------------------------------------------------------------------
(* Find, and AsyncFind: PinnedFind compares the tag and the key, not the   *)
(* hash.                                                                   *)

(* Mutant: the second level hash is taken for the key.                     *)
CacheHitByTag(t) == ft[GetIdx(HashOf(t))] # NULL /\ TagMatches(HashOf(t))

CacheHit(t) ==
  /\ ft[GetIdx(HashOf(t))] # NULL
  /\ TagMatches(HashOf(t))
  /\ ft[GetIdx(HashOf(t))].key = KeyOf(t)

FindInCache(t) ==
  /\ pc[t] = "cache"
  /\ CacheHit(t)
  /\ Finish(t, ft[GetIdx(HashOf(t))].val)
  /\ UNCHANGED <<trie, ft, total, seen, req, fresh, promotion, history>>

MissCache(t) ==
  /\ pc[t] = "cache"
  /\ ~CacheHit(t)
  /\ IF Does(t, {"Find"}) THEN Goto(t, "trie") /\ UNCHANGED ret ELSE Finish(t, PENDING)
  /\ UNCHANGED <<trie, ft, total, seen, req, fresh, promotion, history>>

TrieLookup(t) ==
  /\ pc[t] = "trie" /\ Finds(t)
  /\ Finish(t, trie[KeyOf(t)])
  /\ UNCHANGED <<trie, ft, total, seen, req, fresh, promotion, history>>

InsertStep(t) ==
  \/ Record(t) \/ AsyncBegin(t) \/ TryLoad(t) \/ TryCas(t) \/ TryCasLost(t)
  \/ BeginPromotion(t) \/ NoPromotion(t)
  \/ Locate(t) \/ CheckSlot(t) \/ CheckedCas(t) \/ EndPromotion(t)
  \/ TrieStore(t) \/ TrieRefuse(t)

Next ==
  \E t \in Thread :
    \/ CallFind(t) \/ CallInsert(t) \/ Return(t)
    \/ InsertStep(t)
    \/ FindInCache(t) \/ MissCache(t) \/ TrieLookup(t)

Spec == Init /\ [][Next]_vars

-----------------------------------------------------------------------------
(* Properties.                                                             *)

(* Every variable holds what its declaration in the code allows, and the   *)
(* promotion runs once: while it does, total_ is past the value that       *)
(* starts it, and it never gets further.                                   *)
TypeOK ==
  /\ trie \in [Key -> Value \cup {ABSENT}]
  /\ ft \in [Index -> FastNode \cup {NULL}]
  /\ total \in [Thread -> 0..(kWarmUp + 1)]
  /\ seen \subseteq Hash
  /\ req \in [Thread -> Request \cup {NULL}]
  /\ ret \in [Thread -> BOOLEAN \cup Value \cup {ABSENT, PENDING, NULL}]
  /\ todo \subseteq Counter
  /\ elem \in FastNode \cup {NULL}
  /\ \A t \in Thread : pc[t] \in {"locate", "check", "chkcas"} => total[t] = kWarmUp + 1

(* What the cache holds is in the trie as well, whatever slot it came from *)
(* and however late: the cache alone never makes a key present, so a find  *)
(* that misses a slot taken by a stranger still finds its key.             *)
CachedArePresent ==
  \A i \in Index : ft[i] # NULL => trie[ft[i].key] # ABSENT

(* A find answers with the value of an insert that may have been the last  *)
(* one before it, or of one it overlaps, if it answers.                    *)
Regular(t) == pc[t] = "done" /\ Finds(t) => ret[t] \in legal[t] \cup {PENDING}

RegularReads == \A t \in Thread : Regular(t)

(* The only ways to a stale answer: an insert of the key went to the trie  *)
(* while the key was in the cache or on its way there, or the promotion    *)
(* came by a second time and put the trie's value over a newer one.        *)
StaleOnlyPastCache ==
  \A t \in Thread : Regular(t) \/ KeyOf(t) \in bypassed

-----------------------------------------------------------------------------
(* The inductive invariant behind the safety properties.                   *)

HistoryOK ==
  /\ pc \in [Thread -> {"idle", "record", "async", "tryload", "trycas", "promote", "locate",
                       "check", "chkcas", "cache", "trie", "done"}]
  /\ fresh \in [Thread -> BOOLEAN]
  /\ current \in [Key -> SUBSET (Value \cup {ABSENT})]
  /\ legal \in [Thread -> SUBSET (Value \cup {ABSENT})]

(* Which call a thread executes where.                                     *)
Position(t) ==
  /\ pc[t] = "idle" <=> req[t] = NULL
  /\ pc[t] = "cache" => Finds(t)
  /\ pc[t] = "trie" => Finds(t) \/ Does(t, {"Insert"})
  /\ pc[t] \in {"async", "tryload", "trycas"} => Inserts(t)
  /\ pc[t] \in {"record", "promote", "locate", "check", "chkcas"} => Does(t, {"Insert"})
  /\ pc[t] \in {"locate", "check", "chkcas"} => t = Tid0
  /\ pc[t] \in {"check", "chkcas"} => elem # NULL

(* As long as its slot was not written, a thread about to exchange it      *)
(* finds there what it compared.                                           *)
Watched(t) ==
  fresh[t] =>
    /\ pc[t] = "trycas" =>
         LET n == ft[GetIdx(HashOf(t))]
         IN  n # NULL /\ n.hash = HashOf(t) /\ n.key = KeyOf(t)
    /\ pc[t] = "chkcas" =>
         LET n == ft[GetIdx(elem.hash)] IN n # NULL => n.key = elem.key

(* The element on its way into the cache is the trie's.                    *)
ElemFromTrie ==
  elem # NULL =>
    /\ trie[elem.key] # ABSENT
    /\ elem.key \notin bypassed => elem.val = trie[elem.key]

(* What a find of the key that starts now reads.                           *)
InCache(k) ==
  LET n == ft[GetIdx(HashFn[k])] IN n # NULL /\ TagMatches(HashFn[k]) /\ n.key = k
Reads(k) == IF InCache(k) THEN ft[GetIdx(HashFn[k])].val ELSE trie[k]

Acknowledges(t, k) == pc[t] = "done" /\ Inserts(t) /\ ret[t] = TRUE /\ KeyOf(t) = k

(* It is a value a find may start with, or that of an insert about to      *)
(* return true.                                                            *)
ReadsCurrent(k) ==
  \/ Reads(k) \in current[k]
  \/ \E u \in Thread : Acknowledges(u, k) /\ Reads(k) = req[u].val

(* The inserts of its key that a call overlaps are in its history, and the *)
(* value in place is, for who has yet to read it and for who has written.  *)
ReadsLegal(t) ==
  /\ \A u \in Thread :
       req[t] # NULL /\ Inserts(u) /\ KeyOf(u) = KeyOf(t) => req[u].val \in legal[t]
  /\ req[t] # NULL /\ KeyOf(t) \notin bypassed =>
       /\ pc[t] = "cache" => Reads(KeyOf(t)) \in legal[t]
       /\ pc[t] = "trie" /\ Finds(t) => trie[KeyOf(t)] \in legal[t]
       /\ pc[t] = "done" /\ Finds(t) => ret[t] \in legal[t] \cup {PENDING}
       /\ Acknowledges(t, KeyOf(t)) => Reads(KeyOf(t)) \in legal[t]

IInv ==
  /\ TypeOK /\ HistoryOK
  /\ \A t \in Thread : Position(t) /\ Watched(t)
  /\ CachedArePresent
  /\ ElemFromTrie
  /\ \A k \in Key : k \notin bypassed => ReadsCurrent(k)
  /\ \A t \in Thread : ReadsLegal(t)

=============================================================================
