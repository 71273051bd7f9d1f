------------------------------- MODULE HashMaps -------------------------------
(***************************************************************************)
(* The implementations of HashMap<uint64_t>, each on its own: Init picks   *)
(* one, which the steps are those of.  All are to implement SlotMap.       *)
(***************************************************************************)
EXTENDS HashMapCalls

CONSTANTS
  zero,      \* the value 0
  kOccupied, \* unq_based: the mark
  kTries     \* boost_arc: how often Put tries to store

VARIABLES
  impl,      \* the implementation in use
  lock,      \* lock_based, lock_based_no_alloc
  first,     \* unq_based
  tries,     \* boost_arc
  retired, hazard  \* my_haz_ptr_impl, haz_ptr_impl

own == <<lock, first, tries, retired, hazard>>
allVars == <<impl, vars, own>>

Owning == INSTANCE LockedMap WITH allocates <- TRUE
InPlace == INSTANCE LockedMap WITH allocates <- FALSE
Unq == INSTANCE UniqueOwnership
Arc == INSTANCE ArcMap
Haz == INSTANCE HazPtrMap
Folly == INSTANCE FollyMap

ASSUME ImplementationAssumptions ==
  /\ Owning!SlotAssumption /\ InPlace!SlotAssumption /\ Unq!MarkAssumption
  /\ Arc!TriesAssumption /\ Folly!ZeroAssumption

(* An implementation that is not in use has no state of its own.           *)
NoLock == lock = <<>>
NoUnq == first = <<>>
NoArc == tries = <<>>
NoHaz == retired = {} /\ hazard = <<>>

Init ==
  \/ impl = "lock_based" /\ Owning!Init /\ NoUnq /\ NoArc /\ NoHaz
  \/ impl = "lock_based_no_alloc" /\ InPlace!Init /\ NoUnq /\ NoArc /\ NoHaz
  \/ impl = "unq_based" /\ Unq!Init /\ NoLock /\ NoArc /\ NoHaz
  \/ impl = "boost_arc" /\ Arc!Init /\ NoLock /\ NoUnq /\ NoHaz
  \/ impl = "my_haz_ptr_impl" /\ Haz!Init /\ NoLock /\ NoUnq /\ NoArc
  \/ impl = "haz_ptr_impl" /\ Folly!InitFilled /\ NoLock /\ NoUnq /\ NoArc

Pinning == impl \in {"my_haz_ptr_impl", "haz_ptr_impl"}

Call(t) ==
  \/ impl = "lock_based" /\ Owning!Call(t) /\ UNCHANGED <<impl, first, tries, retired, hazard>>
  \/ impl = "lock_based_no_alloc" /\ InPlace!Call(t) /\ UNCHANGED <<impl, first, tries, retired, hazard>>
  \/ impl = "unq_based" /\ Unq!Call(t) /\ UNCHANGED <<impl, lock, tries, retired, hazard>>
  \/ impl = "boost_arc" /\ Arc!Call(t) /\ UNCHANGED <<impl, lock, first, retired, hazard>>
  \/ Pinning /\ Haz!Call(t) /\ UNCHANGED <<impl, lock, first, tries>>

Step(t) ==
  \/ impl = "lock_based" /\ Owning!Step(t) /\ UNCHANGED <<impl, first, tries, retired, hazard>>
  \/ impl = "lock_based_no_alloc" /\ InPlace!Step(t) /\ UNCHANGED <<impl, first, tries, retired, hazard>>
  \/ impl = "unq_based" /\ Unq!Step(t) /\ UNCHANGED <<impl, lock, tries, retired, hazard>>
  \/ impl = "boost_arc" /\ Arc!Step(t) /\ UNCHANGED <<impl, lock, first, retired, hazard>>
  \/ impl = "my_haz_ptr_impl" /\ Haz!Step(t) /\ UNCHANGED <<impl, lock, first, tries>>
  \/ impl = "haz_ptr_impl" /\ Folly!FollyStep(t) /\ UNCHANGED <<impl, lock, first, tries>>

Reclaim(a) ==
  Pinning /\ Haz!Reclaim(a) /\ UNCHANGED <<impl, lock, first, tries>>

Next ==
  \/ \E t \in Thread : Call(t) \/ Step(t)
  \/ \E a \in Node : Reclaim(a)

Spec == Init /\ [][Next]_allVars

(* A thread inside a call keeps being scheduled; nobody has to call.  The  *)
(* library gets to reclaim, since here, as not in the code, memory is      *)
(* scarce.                                                                 *)
FairSpec ==
  /\ Spec
  /\ \A t \in Thread : WF_allVars(Step(t))
  /\ \A a \in Node : WF_allVars(Reclaim(a))

-----------------------------------------------------------------------------
(* Properties.                                                             *)

Locks == impl \in {"lock_based", "lock_based_no_alloc"}

(* What a call may return.                                                 *)
Outcomes(t) ==
  IF req[t].op = "Put" THEN BOOLEAN
  ELSE Value \cup {ABSENT} \cup (IF impl = "unq_based" THEN {FREE} ELSE {})

(* Every variable holds what its declaration in the code allows; a call    *)
(* returns an answer of its own kind, and has none before.  Of the six,    *)
(* only unq_based, with its second read, may have a Get return what the    *)
(* deleted memory it reads happens to hold.                                *)
TypeOK ==
  /\ data \in [Node -> Value \cup {FREE}]
  /\ req \in [Thread -> Request \cup {NULL}]
  /\ target \in [Thread -> Node \cup {NULL, kOccupied}]
  /\ desired \in [Thread -> Node \cup {NULL}]
  /\ \A t \in Thread : IF pc[t] = "done" THEN ret[t] \in Outcomes(t) ELSE ret[t] = PENDING
  /\ Locks => Owning!TypeOK
  /\ impl = "unq_based" => Unq!TypeOK
  /\ impl = "boost_arc" => Arc!TypeOK
  /\ Pinning => Haz!TypeOK

(* A mutex that is locked, and a mark of unq_based in a slot, has exactly  *)
(* one owner: no slot stays taken for ever, and no two threads use it.     *)
OneOwner == (Locks => Owning!OneOwner) /\ (impl = "unq_based" => Unq!OneOwner)

(* What a reader is about to read through a pointer, having taken it out   *)
(* of its slot or pinned it, is alive, whatever writers deleted meanwhile. *)
ReadAlive ==
  \A t \in Thread :
    \/ impl = "unq_based" /\ Unq!Reads(t)
    \/ Pinning /\ Haz!Reads(t)
    => data[target[t]] # FREE

(* haz_ptr_impl: Put has an old value to retire, on a map that was filled  *)
(* through the overload that checks.                                       *)
RetiresPointer == impl = "haz_ptr_impl" => Folly!RetiresPointer

(* unq_based, my_haz_ptr_impl, haz_ptr_impl: every allocated value is in   *)
(* one place only.  Nothing leaks, nothing is deleted or retired twice.    *)
OnePlace ==
  LET InOne(a, holders) ==
        (data[a] # FREE <=> holders # {}) /\ \A g, h \in holders : g = h
  IN  \A a \in Node :
        /\ impl = "unq_based" => InOne(a, Unq!Holders(a))
        /\ Pinning => InOne(a, Haz!Holders(a))

(* Some thread inside a call gets to its end, however the others' locks,   *)
(* marks and stores make each one wait or start over.                      *)
SomeCallReturns ==
  (\E t \in Thread : pc[t] \notin {"idle", "done"}) ~> (\E t \in Thread : pc[t] = "done")

(* The map they implement, and what each of them allows itself: a Put of   *)
(* lock_based_no_alloc overwrites whatever it is asked, a Get of unq_based *)
(* reads again when it owns the pointer no more, those with counted and    *)
(* hazard pointers may replace a value that was not there when they        *)
(* looked, and an overwriting Put of boost_arc reports failure.            *)
None == [t \in Thread |-> FALSE]

MapContents ==
  CASE Locks -> slot
    [] impl = "unq_based" -> Unq!Contents
    [] impl = "boost_arc" -> Arc!Contents
    [] OTHER -> Haz!Contents

MapAnswer ==
  CASE Locks -> ret
    [] impl = "unq_based" -> Unq!Answer
    [] impl = "boost_arc" -> Arc!Answer
    [] OTHER -> Haz!Answer

MapCleared ==
  CASE impl = "boost_arc" -> Arc!Cleared
    [] Pinning -> Haz!Cleared
    [] OTHER -> None

MapOvertaken == IF impl = "unq_based" THEN Unq!Overtaken ELSE None

MapAllows ==
  CASE impl = "lock_based" -> {}
    [] impl = "lock_based_no_alloc" -> {"forced"}
    [] impl = "unq_based" -> {"reread"}
    [] impl = "boost_arc" -> {"late", "denied"}
    [] OTHER -> {"late"}

Map == INSTANCE SlotMap WITH
  contents <- MapContents, answer <- MapAnswer, cleared <- MapCleared,
  overtaken <- MapOvertaken, allows <- MapAllows

(* Get and Put take effect atomically, between call and return, but for    *)
(* what the implementation in use allows itself.                           *)
ImplementsMap == Map!Spec

=============================================================================
