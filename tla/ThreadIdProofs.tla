--------------------------- MODULE ThreadIdProofs ---------------------------
(***************************************************************************)
(* Proofs about ThreadId, for any number of threads, any size of the table *)
(* and any width of the counter.                                           *)
(***************************************************************************)
EXTENDS ThreadId, TLAPS

USE SizeAssumption, InvalidAssumption

LEMMA ModRange ==
  ASSUME NEW x \in Nat, NEW m \in Nat \ {0}
  PROVE  x % m \in 0..(m - 1)
OBVIOUS

LEMMA HereEntry ==
  ASSUME TypeOK, NEW t \in Thread
  PROVE  Here(t) \in Entry
<1>1. index[t] \in Nat
  BY DEF TypeOK, Word
<1>2. QED
  BY <1>1, ModRange DEF Here, Entry

-----------------------------------------------------------------------------
(* Ids are unique, and the flags are those of the live threads.            *)

LEMMA InitHolder == Init => HolderInv
<1> SUFFICES ASSUME Init PROVE HolderInv
  OBVIOUS
<1>1. 0 \in Word
  BY DEF Word
<1>2. TypeOK
  BY <1>1 DEF Init, TypeOK
<1>3. QED
  BY <1>2 DEF Init, HolderInv, UniqueIds, FlagsMatchThreads

LEMMA NextType == TypeOK /\ [Next]_vars => TypeOK'
<1> SUFFICES ASSUME TypeOK, [Next]_vars PROVE TypeOK'
  OBVIOUS
<1> USE DEF TypeOK, scan
<1>1. ASSUME NEW t \in Thread, BeginScan(t)
      PROVE  TypeOK'
  <2>1. \A x \in Nat : x % WordSize \in Word
    <3>1. WordSize \in Nat \ {0}
      OBVIOUS
    <3>2. QED
      BY <3>1, ModRange DEF Word
  <2>2. next_index_ \in Nat
    BY DEF Word
  <2>3. next_index_' \in Word /\ (next_index_ + 2 * kMaxNumThreads) % WordSize \in Word
    BY <1>1, <2>1, <2>2 DEF BeginScan
  <2>4. Full \in BOOLEAN
    BY DEF Full
  <2>5. QED
    BY <1>1, <2>3, <2>4 DEF BeginScan, Goto
<1>2. ASSUME NEW t \in Thread, Take(t)
      PROVE  TypeOK'
  BY <1>2, HereEntry DEF Take, Goto, Full
<1>3. ASSUME NEW t \in Thread, Skip(t)
      PROVE  TypeOK'
  <2>1. index[t] + 1 \in Word
    BY <1>3 DEF InScan, Skip, Word
  <2>2. QED
    BY <1>3, <2>1 DEF Skip
<1>4. ASSUME NEW t \in Thread, Throw(t)
      PROVE  TypeOK'
  BY <1>4 DEF Throw, Goto
<1>5. ASSUME NEW t \in Thread, Release(t)
      PROVE  TypeOK'
  BY <1>5 DEF Release, Goto
<1>6. CASE UNCHANGED vars
  BY <1>6 DEF vars, scan
<1>7. QED
  BY <1>1, <1>2, <1>3, <1>4, <1>5, <1>6 DEF Next

(* A step that neither takes nor releases an entry changes nothing of it.  *)
LEMMA NotHolding ==
  ASSUME HolderInv, TypeOK', NEW t \in Thread, UNCHANGED <<id_used_, id_>>,
         pc[t] # "running", pc'[t] # "running",
         \A u \in Thread \ {t} : pc'[u] = pc[u]
  PROVE  HolderInv'
BY DEF HolderInv, UniqueIds, FlagsMatchThreads

LEMMA NextHolder == HolderInv /\ [Next]_vars => HolderInv'
<1> SUFFICES ASSUME HolderInv, [Next]_vars PROVE HolderInv'
  OBVIOUS
<1>1. TypeOK /\ TypeOK'
  BY NextType DEF HolderInv
<1>2. ASSUME NEW t \in Thread, BeginScan(t) \/ Skip(t) \/ Throw(t)
      PROVE  HolderInv'
  <2>1. UNCHANGED <<id_used_, id_>> /\ pc[t] # "running"
    BY <1>2 DEF BeginScan, Skip, Throw, InScan
  <2>2. pc'[t] # "running" /\ \A u \in Thread \ {t} : pc'[u] = pc[u]
    BY <1>1, <1>2 DEF BeginScan, Skip, Throw, InScan, Goto, TypeOK
  <2>3. QED
    BY <1>1, <2>1, <2>2, NotHolding
<1>3. ASSUME NEW t \in Thread, Take(t)
      PROVE  HolderInv'
  <2>1. Here(t) \in Entry /\ ~id_used_[Here(t)] /\ pc[t] # "running"
    BY <1>1, <1>3, HereEntry DEF Take, InScan
  <2>2. /\ pc'[t] = "running" /\ id_'[t] = Here(t)
        /\ \A u \in Thread \ {t} : pc'[u] = pc[u] /\ id_'[u] = id_[u]
    BY <1>1, <1>3 DEF Take, Goto, TypeOK
  <2>3. id_used_'[Here(t)] /\ \A i \in Entry \ {Here(t)} : id_used_'[i] = id_used_[i]
    BY <1>1, <1>3, <2>1 DEF Take, TypeOK
  <2>4. \A u \in Thread : pc[u] = "running" => id_[u] # Here(t)
    BY <2>1 DEF HolderInv, FlagsMatchThreads
  <2>5. UniqueIds'
    BY <2>2, <2>4 DEF HolderInv, UniqueIds
  <2>6. ASSUME NEW i \in Entry
        PROVE  id_used_'[i] <=> \E u \in Thread : pc'[u] = "running" /\ id_'[u] = i
    <3>1. CASE i = Here(t)
      BY <2>2, <2>3, <3>1
    <3>2. CASE i # Here(t)
      <4>1. id_used_[i] <=> \E u \in Thread : pc[u] = "running" /\ id_[u] = i
        BY DEF HolderInv, FlagsMatchThreads
      <4>2. QED
        BY <2>1, <2>2, <2>3, <3>2, <4>1
    <3>3. QED
      BY <3>1, <3>2
  <2>7. QED
    BY <1>1, <2>1, <2>2, <2>5, <2>6 DEF HolderInv, FlagsMatchThreads
<1>4. ASSUME NEW t \in Thread, Release(t)
      PROVE  HolderInv'
  <2>1. pc[t] = "running" /\ id_[t] \in Entry
    BY <1>4 DEF Release, HolderInv
  <2>2. /\ pc'[t] = "unborn"
        /\ \A u \in Thread \ {t} : pc'[u] = pc[u] /\ id_'[u] = id_[u]
    BY <1>1, <1>4 DEF Release, Goto, TypeOK
  <2>3. ~id_used_'[id_[t]] /\ \A i \in Entry \ {id_[t]} : id_used_'[i] = id_used_[i]
    BY <1>1, <1>4, <2>1 DEF Release, TypeOK
  <2>4. \A u \in Thread \ {t} : pc[u] = "running" => id_[u] # id_[t]
    BY <2>1 DEF HolderInv, UniqueIds
  <2>5. UniqueIds'
    BY <2>2 DEF HolderInv, UniqueIds
  <2>6. ASSUME NEW i \in Entry
        PROVE  id_used_'[i] <=> \E u \in Thread : pc'[u] = "running" /\ id_'[u] = i
    <3>1. CASE i = id_[t]
      BY <2>2, <2>3, <2>4, <3>1
    <3>2. CASE i # id_[t]
      <4>1. id_used_[i] <=> \E u \in Thread : pc[u] = "running" /\ id_[u] = i
        BY DEF HolderInv, FlagsMatchThreads
      <4>2. QED
        BY <2>1, <2>2, <2>3, <3>2, <4>1
    <3>3. QED
      BY <3>1, <3>2
  <2>7. QED
    BY <1>1, <2>2, <2>5, <2>6 DEF HolderInv, FlagsMatchThreads
<1>5. CASE UNCHANGED vars
  BY <1>1, <1>5 DEF vars, scan, HolderInv, UniqueIds, FlagsMatchThreads
<1>6. QED
  BY <1>2, <1>3, <1>4, <1>5 DEF Next

(* Types, uniqueness of ids and the agreement of the flags with the        *)
(* threads, in every reachable state.                                      *)
THEOREM HolderInvariance == Spec => []HolderInv
<1>1. QED
  BY InitHolder, NextHolder, PTL DEF Spec

(* Every variable keeps its type; in particular no scan leaves the range   *)
(* of a uint32_t.                                                          *)
THEOREM ThreadTypeCorrect == Spec => []TypeOK
<1>1. HolderInv => TypeOK
  BY DEF HolderInv
<1>2. QED
  BY <1>1, HolderInvariance, PTL

(* No two live threads have the same id.                                   *)
THEOREM IdsAreUnique == Spec => []UniqueIds
<1>1. HolderInv => UniqueIds
  BY DEF HolderInv
<1>2. QED
  BY <1>1, HolderInvariance, PTL

(* An entry is marked used exactly as long as a live thread has its id.    *)
THEOREM FlagsAreRight == Spec => []FlagsMatchThreads
<1>1. HolderInv => FlagsMatchThreads
  BY DEF HolderInv
<1>2. QED
  BY <1>1, HolderInvariance, PTL
-----------------------------------------------------------------------------
(* A quiet scan has seen every entry.                                      *)

LEMMA ModUnique ==
  ASSUME NEW x \in Nat, NEW m \in Nat \ {0}, NEW q \in Nat, NEW r \in 0..(m - 1),
         x = q * m + r
  PROVE  x % m = r
<1>1. x % m \in 0..(m - 1) /\ x \div m \in Nat /\ x = (x \div m) * m + (x % m)
  OBVIOUS
<1>2. ASSUME NEW a \in Nat, NEW b \in Nat, a < b
      PROVE  b * m >= a * m + m
  <2>1. b >= a + 1
    BY <1>2
  <2>2. b * m >= (a + 1) * m
    BY <2>1
  <2>3. QED
    BY <2>2
<1>3. x \div m = q
  <2>1. ~(x \div m < q)
    BY <1>1, <1>2
  <2>2. ~(q < x \div m)
    BY <1>1, <1>2
  <2>3. QED
    BY <1>1, <2>1, <2>2
<1>4. QED
  BY <1>1, <1>3

(* Among 2 * m consecutive numbers each remainder modulo m occurs.         *)
LEMMA TwoRounds ==
  ASSUME NEW s \in Nat, NEW m \in Nat \ {0}, NEW r \in 0..(m - 1)
  PROVE  \E i \in s..(s + 2 * m - 1) : i % m = r
<1> DEFINE q == s \div m
<1>1. s % m \in 0..(m - 1) /\ q \in Nat /\ s = q * m + (s % m)
  OBVIOUS
<1> HIDE DEF q
<1>2. (q + 1) * m = q * m + m /\ q * m \in Nat
  BY <1>1
<1> DEFINE i == (q + 1) * m + r
<1>3. i \in s..(s + 2 * m - 1) /\ i \in Nat
  BY <1>1, <1>2
<1>4. q + 1 \in Nat /\ i = (q + 1) * m + r
  BY <1>1
<1> HIDE DEF i
<1>5. i % m = r
  BY <1>3, <1>4, ModUnique
<1>6. QED
  BY <1>3, <1>5

(* The values of the loop variable a scan has been through.                *)
Passed(t) == (end[t] - 2 * kMaxNumThreads)..(index[t] - 1)

LEMMA NextScan == HolderInv /\ ScanInv /\ [Next]_vars => ScanInv'
<1> SUFFICES ASSUME HolderInv, ScanInv, [Next]_vars PROVE ScanInv'
  OBVIOUS
<1>1. TypeOK
  BY DEF HolderInv
<1>2. ASSUME NEW i \in Nat
      PROVE  i % kMaxNumThreads \in Entry
  BY <1>2, ModRange DEF Entry
<1>3. ASSUME NEW t \in Thread, BeginScan(t)
      PROVE  ScanInv'
  <2>1. end'[t] >= 2 * kMaxNumThreads => end'[t] = index'[t] + 2 * kMaxNumThreads
    <3>1. next_index_ \in Nat /\ next_index_ < WordSize
      BY <1>1 DEF TypeOK, Word
    <3>2. CASE next_index_ + 2 * kMaxNumThreads < WordSize
      <4>1. (next_index_ + 2 * kMaxNumThreads) % WordSize = next_index_ + 2 * kMaxNumThreads
        BY <3>1, <3>2
      <4>2. QED
        BY <1>1, <1>3, <4>1 DEF BeginScan, TypeOK
    <3>3. CASE next_index_ + 2 * kMaxNumThreads >= WordSize
      <4> DEFINE r == next_index_ + 2 * kMaxNumThreads - WordSize
      <4>1. r \in 0..(WordSize - 1) /\ r < 2 * kMaxNumThreads
        BY <3>1, <3>3
      <4>2. next_index_ + 2 * kMaxNumThreads = 1 * WordSize + r
        BY <3>1, <3>3
      <4>3. (next_index_ + 2 * kMaxNumThreads) % WordSize = r
        BY <3>1, <4>1, <4>2, ModUnique
      <4>4. end'[t] = r
        BY <1>1, <1>3, <4>3 DEF BeginScan, TypeOK
      <4>5. QED
        BY <4>1, <4>4
    <3>4. QED
      BY <3>1, <3>2, <3>3
  <2>2. /\ pc'[t] = "scanning" /\ index'[t] \in Nat
        /\ \A u \in Thread \ {t} : /\ pc'[u] = pc[u] /\ index'[u] = index[u]
                                   /\ end'[u] = end[u] /\ churned'[u] = churned[u]
        /\ id_used_' = id_used_
    BY <1>1, <1>3 DEF BeginScan, Goto, TypeOK, Word
  <2>3. end'[t] >= 2 * kMaxNumThreads => Passed(t)' = {}
    BY <2>1, <2>2 DEF Passed
  <2>4. QED
    BY <2>2, <2>3 DEF ScanInv, Passed
<1>4. ASSUME NEW t \in Thread, Take(t)
      PROVE  ScanInv'
  <2>1. /\ pc'[t] = "running" /\ index' = index /\ end' = end /\ churned' = churned
        /\ \A u \in Thread \ {t} : pc'[u] = pc[u]
    BY <1>1, <1>4 DEF Take, Goto, TypeOK, scan
  <2>2. \A i \in Entry : id_used_[i] => id_used_'[i]
    BY <1>1, <1>4 DEF Take, TypeOK
  <2>3. ASSUME NEW u \in Thread, end[u] >= 2 * kMaxNumThreads, NEW i \in Passed(u)
        PROVE  i % kMaxNumThreads \in Entry
    <3>1. i \in Nat
      BY <1>1, <2>3 DEF Passed, TypeOK, Word
    <3>2. QED
      BY <1>2, <3>1
  <2>4. QED
    BY <2>1, <2>2, <2>3 DEF ScanInv, Passed
<1>5. ASSUME NEW t \in Thread, Skip(t)
      PROVE  ScanInv'
  <2>1. /\ index'[t] = index[t] + 1 /\ index[t] \in Nat /\ pc[t] = "scanning"
        /\ end[t] \in Nat /\ \A u \in Thread \ {t} : index'[u] = index[u]
        /\ UNCHANGED <<id_used_, pc, end, churned>>
        /\ id_used_[index[t] % kMaxNumThreads]
    BY <1>1, <1>5 DEF Skip, InScan, Here, TypeOK, Word
  <2>2. \A i \in Passed(t)' : i \in Passed(t) \/ i = index[t]
    BY <2>1 DEF Passed
  <2>3. QED
    BY <2>1, <2>2 DEF ScanInv, Passed
<1>6. ASSUME NEW t \in Thread, Throw(t)
      PROVE  ScanInv'
  BY <1>1, <1>6 DEF Throw, Goto, TypeOK, scan, ScanInv
<1>7. ASSUME NEW t \in Thread, Release(t)
      PROVE  ScanInv'
  BY <1>1, <1>7 DEF Release, Goto, TypeOK, scan, ScanInv
<1>8. CASE UNCHANGED vars
  BY <1>8 DEF vars, scan, ScanInv
<1>9. QED
  BY <1>3, <1>4, <1>5, <1>6, <1>7, <1>8 DEF Next

(* When no id was released during a scan whose bound did not wrap, the     *)
(* thread throws only if all ids are taken.                                *)
THEOREM QuietScansAreRight == Spec => []QuietScanIsRight
<1>1. Init => ScanInv
  BY DEF Init, ScanInv
<1>2. ASSUME HolderInv, ScanInv
      PROVE  QuietScanIsRight
  <2>1. ASSUME NEW t \in Thread, pc[t] = "failed", ~churned[t],
               end[t] >= 2 * kMaxNumThreads, NEW r \in Entry
        PROVE  id_used_[r]
    <3>1. index[t] \in Nat /\ end[t] \in Nat
      BY <1>2 DEF HolderInv, TypeOK, Word
    <3>2. ~(index[t] < end[t])
      BY <1>2, <2>1 DEF ScanInv
    <3>3. PICK i \in (end[t] - 2 * kMaxNumThreads)..(end[t] - 2 * kMaxNumThreads + 2 * kMaxNumThreads - 1) :
            i % kMaxNumThreads = r
      <4>1. end[t] - 2 * kMaxNumThreads \in Nat
        BY <2>1, <3>1
      <4>2. QED
        BY <4>1, TwoRounds DEF Entry
    <3>4. i \in (end[t] - 2 * kMaxNumThreads)..(index[t] - 1)
      BY <2>1, <3>1, <3>2, <3>3
    <3>5. QED
      BY <1>2, <2>1, <3>3, <3>4 DEF ScanInv
  <2>2. QED
    BY <2>1 DEF QuietScanIsRight, Full
<1>3. QED
  BY <1>1, <1>2, NextScan, HolderInvariance, PTL DEF Spec

=============================================================================
