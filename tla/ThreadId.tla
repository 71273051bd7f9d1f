------------------------------- MODULE ThreadId -------------------------------
(***************************************************************************)
(* The allocator of small thread ids behind Thread::id(): a table of       *)
(* kMaxNumThreads flags and a 32-bit counter that tells a new thread where *)
(* to start looking for a free one.                                        *)
(***************************************************************************)
EXTENDS Naturals

CONSTANTS
  Thread,
  kMaxNumThreads,  \* entries in the table
  WordSize,        \* number of values of a uint32_t
  kInvalidId,      \* the id of a thread that has none
  stat_size        \* entries of stat_, which ConcurrentHashMap has for ids (64)

ASSUME SizeAssumption ==
  /\ kMaxNumThreads \in Nat \ {0}
  /\ WordSize \in Nat
  /\ 2 * kMaxNumThreads < WordSize
ASSUME InvalidAssumption == kInvalidId \notin Nat

Entry == 0..(kMaxNumThreads - 1)
Word == 0..(WordSize - 1)

VARIABLES
  next_index_,  \* next thread index to consider
  id_used_,     \* which thread ids have been taken
  pc,           \* unborn, scanning, running, failed
  index,        \* the loop variable of ReserveEntry, before % kMaxNumThreads
  end,          \* its bound
  id_,          \* the id the thread got
  churned       \* history: an id was released since the scan began

scan == <<index, end>>
vars == <<next_index_, id_used_, pc, scan, id_, churned>>

Init ==
  /\ next_index_ = 0
  /\ id_used_ = [i \in Entry |-> FALSE]
  /\ pc = [t \in Thread |-> "unborn"]
  /\ index = [t \in Thread |-> 0]
  /\ end = [t \in Thread |-> 0]
  /\ id_ = [t \in Thread |-> kInvalidId]
  /\ churned = [t \in Thread |-> FALSE]

Full == \A i \in Entry : id_used_[i]
Here(t) == index[t] % kMaxNumThreads

Goto(t, l) == pc' = [pc EXCEPT ![t] = l]

(* Mutant: the scan ends one entry before it has seen them all.            *)
BeginShortScan(t) ==
  /\ pc[t] = "unborn"
  /\ next_index_' = (next_index_ + 1) % WordSize
  /\ index' = [index EXCEPT ![t] = next_index_]
  /\ end' = [end EXCEPT ![t] = (next_index_ + kMaxNumThreads - 1) % WordSize]
  /\ churned' = [churned EXCEPT ![t] = FALSE]
  /\ Goto(t, "scanning")
  /\ UNCHANGED <<id_used_, id_>>

(* Mutant: the bound does not wrap with the counter.                       *)
BeginWideScan(t) ==
  /\ pc[t] = "unborn"
  /\ next_index_' = (next_index_ + 1) % WordSize
  /\ index' = [index EXCEPT ![t] = next_index_]
  /\ end' = [end EXCEPT ![t] = next_index_ + 2 * kMaxNumThreads]
  /\ churned' = [churned EXCEPT ![t] = FALSE]
  /\ Goto(t, "scanning")
  /\ UNCHANGED <<id_used_, id_>>

(* next_index_++, and the bound of the scan: both wrap at WordSize.        *)
BeginScan(t) ==
  /\ pc[t] = "unborn"
  /\ next_index_' = (next_index_ + 1) % WordSize
  /\ index' = [index EXCEPT ![t] = next_index_]
  /\ end' = [end EXCEPT ![t] = (next_index_ + 2 * kMaxNumThreads) % WordSize]
  /\ churned' = [churned EXCEPT ![t] = FALSE]
  /\ Goto(t, "scanning")
  /\ UNCHANGED <<id_used_, id_>>

InScan(t) == pc[t] = "scanning" /\ index[t] < end[t]

(* Mutant: a load and a store in place of the compare_exchange.            *)
TakeUnchecked(t) ==
  /\ InScan(t)
  /\ id_used_' = [id_used_ EXCEPT ![Here(t)] = TRUE]
  /\ id_' = [id_ EXCEPT ![t] = Here(t)]
  /\ Goto(t, "running")
  /\ UNCHANGED <<next_index_, scan, churned>>

(* The compare_exchange that takes a free entry ...                        *)
Take(t) ==
  /\ InScan(t)
  /\ ~id_used_[Here(t)]
  /\ id_used_' = [id_used_ EXCEPT ![Here(t)] = TRUE]
  /\ id_' = [id_ EXCEPT ![t] = Here(t)]
  /\ Goto(t, "running")
  /\ UNCHANGED <<next_index_, scan, churned>>

(* ... or finds it taken.                                                  *)
Skip(t) ==
  /\ InScan(t)
  /\ id_used_[Here(t)]
  /\ index' = [index EXCEPT ![t] = @ + 1]
  /\ UNCHANGED <<next_index_, id_used_, pc, end, id_, churned>>

(* throw std::runtime_error{"Too many threads!"}                           *)
Throw(t) ==
  /\ pc[t] = "scanning"
  /\ ~(index[t] < end[t])
  /\ Goto(t, "failed")
  /\ UNCHANGED <<next_index_, id_used_, scan, id_, churned>>

(* Mutant: the flag is not reset.                                          *)
ReleaseForgotten(t) ==
  /\ pc[t] = "running"
  /\ id_' = [id_ EXCEPT ![t] = kInvalidId]
  /\ churned' = [u \in Thread |-> TRUE]
  /\ Goto(t, "unborn")
  /\ UNCHANGED <<next_index_, id_used_, scan>>

(* ReleaseEntry, when the thread exits; the model lets its name start over.*)
Release(t) ==
  /\ pc[t] = "running"
  /\ id_used_' = [id_used_ EXCEPT ![id_[t]] = FALSE]
  /\ id_' = [id_ EXCEPT ![t] = kInvalidId]
  /\ churned' = [u \in Thread |-> TRUE]
  /\ Goto(t, "unborn")
  /\ UNCHANGED <<next_index_, scan>>

Next ==
  \E t \in Thread :
    BeginScan(t) \/ Take(t) \/ Skip(t) \/ Throw(t) \/ Release(t)

Spec == Init /\ [][Next]_vars

-----------------------------------------------------------------------------
(* Every variable holds what its declaration in the code allows: no scan   *)
(* leaves the range of a uint32_t, and every id is an index of the table.  *)
TypeOK ==
  /\ next_index_ \in Word
  /\ id_used_ \in [Entry -> BOOLEAN]
  /\ pc \in [Thread -> {"unborn", "scanning", "running", "failed"}]
  /\ index \in [Thread -> Word]
  /\ end \in [Thread -> Word]
  /\ id_ \in [Thread -> Entry \cup {kInvalidId}]
  /\ churned \in [Thread -> BOOLEAN]

(* Two live threads never have the same id, however their scans, exits and *)
(* restarts interleave: the counters and slots indexed by it are private.  *)
UniqueIds ==
  \A t, u \in Thread :
    pc[t] = "running" /\ pc[u] = "running" /\ id_[t] = id_[u] => t = u

(* The flags tell exactly which ids live threads have: no exit frees the   *)
(* id of another thread (assert(id_used_[id].load()) in ReleaseEntry), and *)
(* no id is lost for ever.                                                 *)
FlagsMatchThreads ==
  \A i \in Entry : id_used_[i] <=> \E t \in Thread : pc[t] = "running" /\ id_[t] = i

(* The two rounds of the scan are enough: when no id was released during   *)
(* it and its bound did not wrap, a thread only throws with a full table.  *)
QuietScanIsRight ==
  \A t \in Thread :
    pc[t] = "failed" /\ ~churned[t] /\ end[t] >= 2 * kMaxNumThreads => Full

(* ReserveEntry throws when there are "already 64 active threads", as many *)
(* as ConcurrentHashMap has entries in stat_, which Insert indexes by id:  *)
(* with every id below that, each thread would find an entry of its own.   *)
StatEntryExists == \A t \in Thread : pc[t] = "running" => id_[t] < stat_size

-----------------------------------------------------------------------------
(* The inductive invariant behind UniqueIds and FlagsMatchThreads.         *)
HolderInv ==
  /\ TypeOK
  /\ \A t \in Thread : pc[t] = "running" => id_[t] \in Entry
  /\ UniqueIds
  /\ FlagsMatchThreads

(* What a scan that no release disturbed has learnt so far.                *)
ScanInv ==
  \A t \in Thread :
    /\ pc[t] = "failed" => ~(index[t] < end[t])
    /\ pc[t] \in {"scanning", "failed"} /\ ~churned[t] /\ end[t] >= 2 * kMaxNumThreads =>
         \A i \in (end[t] - 2 * kMaxNumThreads)..(index[t] - 1) : id_used_[i % kMaxNumThreads]
=============================================================================
