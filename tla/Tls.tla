-------------------------------- MODULE Tls --------------------------------
(***************************************************************************)
(* fea::tls (include_cpp17/fea/performance/tls.hpp): thread storage that a *)
(* thread must lock before use.                                            *)
(*                                                                         *)
(* Every thread looks for a free slot of its own by scanning the deque     *)
(* `_locks` WITHOUT the mutex, while other threads append to that deque    *)
(* under the mutex.  Only when the scan finds nothing does the thread take *)
(* the mutex and append a slot.  combine_each and clear take the mutex,    *)
(* check that no slot is locked, and then walk or wipe the storage.        *)
(*                                                                         *)
(* The steps of the scan and of deque_list::push_back that other threads   *)
(* can observe are actions of their own.  `_datas` is appended to under    *)
(* the mutex and a thread only ever reads the element of a slot that it    *)
(* appended itself, so its append is one step.                             *)
(***************************************************************************)
EXTENDS Naturals, FiniteSets, Functions

CONSTANTS
  Threads,      (* thread ids                                              *)
  NoThread,     (* std_thread_id_t{}, and the holder of a free mutex       *)
  Combiners,    (* the threads that may call combine_each                  *)
  BucketSize,   (* elements per deque_list bucket (128 in tls)             *)
  MaxSlots,     (* bound of the model: slots the storage can reach         *)
  MaxNest,      (* bound of the model: locks one thread holds at a time    *)
  Ordered       (* TRUE: push_back's plain stores become visible in        *)
                (* program order.  FALSE: in any order, which the data     *)
                (* race with the scan allows.                              *)

ASSUME ThreadsAssumption == NoThread \notin Threads
ASSUME CombinersAssumption == Combiners \subseteq Threads
ASSUME BoundsAssumption ==
  /\ BucketSize \in Nat \ {0}
  /\ MaxSlots \in Nat
  /\ MaxNest \in Nat
ASSUME OrderedAssumption == Ordered \in BOOLEAN

VARIABLES
  threadId, (* per slot: thread_id of its thread_info in _locks            *)
  locked,   (* the slots whose thread_info is flagged locked               *)
  last,     (* _locks._last_bucket, as the number of the bucket            *)
  size,     (* _locks._size                                                *)
  dsize,    (* _datas._size                                                *)
  mutex,    (* _mutex: the thread that holds it, or NoThread               *)
  held,     (* per thread and slot: how many live tls_lock objects         *)
  pc,       (* per thread: where it is in lock(), combine_each() or clear()*)
  seenSize, (* per thread: the size it read at the start of its scan       *)
  seenLast, (* per thread: the last bucket its scan's iterator knows       *)
  cursor,   (* per thread: the index its loop is at                        *)
  pending   (* per thread: stores of push_back still to become visible     *)

vars == <<threadId, locked, last, size, dsize, mutex, held, pc, seenSize,
          seenLast, cursor, pending>>
infos == <<threadId, locked>>
storage == <<threadId, locked, last, size, dsize>>
seen == <<seenSize, seenLast>>

SlotIds == 0 .. (MaxSlots - 1)
Stores == {"last", "element", "size"}
Locations == {"idle", "begin", "scan", "claim", "wait", "push", "publish",
              "release", "combine", "check", "visit"}

\* The locations at which a thread is inside a lock_guard of _mutex.
Guarded == {"push", "publish", "release", "check", "visit"}

TypeOK ==
  /\ threadId \in [SlotIds -> Threads \cup {NoThread}]
  /\ locked \subseteq SlotIds
  /\ last \in Nat
  /\ size \in 0 .. MaxSlots
  /\ dsize \in 0 .. MaxSlots
  /\ mutex \in Threads \cup {NoThread}
  /\ held \in [Threads -> [SlotIds -> Nat]]
  /\ pc \in [Threads -> Locations]
  /\ seenSize \in [Threads -> 0 .. MaxSlots]
  /\ seenLast \in [Threads -> Nat]
  /\ cursor \in [Threads -> 0 .. MaxSlots]
  /\ pending \in [Threads -> SUBSET Stores]

\* A bucket's storage is zeroed when it is allocated.
Init ==
  /\ threadId = [i \in SlotIds |-> NoThread]
  /\ locked = {}
  /\ last = 0
  /\ size = 0
  /\ dsize = 0
  /\ mutex = NoThread
  /\ held = [t \in Threads |-> [i \in SlotIds |-> 0]]
  /\ pc = [t \in Threads |-> "idle"]
  /\ seenSize = [t \in Threads |-> 0]
  /\ seenLast = [t \in Threads |-> 0]
  /\ cursor = [t \in Threads |-> 0]
  /\ pending = [t \in Threads |-> {}]

\* How many tls_lock objects thread t has alive.
Nesting(t) == FoldFunction(+, 0, held[t])

Goto(t, location) == pc' = [pc EXCEPT ![t] = location]

-----------------------------------------------------------------------------
(* tls::lock: the scan without the mutex.                                  *)

\* Mutated form: the loop forgets to test the flag.
IsSlotOf(i, t) == threadId[i] = t

\* Mutated form: the loop forgets to test the thread.
IsUnlockedSlot(i, t) == i \notin locked

\* A free slot of thread t, as the loop's condition tests it.
IsFreeSlotOf(i, t) ==
  threadId[i] = t /\ i \notin locked

\* size_type size = _locks.size();
LockReadSize(t) ==
  /\ pc[t] = "idle"
  /\ Nesting(t) < MaxNest
  /\ seenSize' = [seenSize EXCEPT ![t] = size]
  /\ Goto(t, "begin")
  /\ UNCHANGED <<storage, mutex, held, seenLast, cursor, pending>>

\* auto begin_it = _locks.begin(); the iterator copies _last_bucket.
LockReadBegin(t) ==
  /\ pc[t] = "begin"
  /\ seenLast' = [seenLast EXCEPT ![t] = last]
  /\ cursor' = [cursor EXCEPT ![t] = 0]
  /\ Goto(t, "scan")
  /\ UNCHANGED <<storage, mutex, held, seenSize, pending>>

\* One turn of the loop: a match leaves it, anything else moves the cursor on.
LockScan(t) ==
  /\ pc[t] = "scan"
  /\ cursor[t] < seenSize[t]
  /\ IF IsFreeSlotOf(cursor[t], t)
       THEN Goto(t, "claim") /\ UNCHANGED cursor
       ELSE cursor' = [cursor EXCEPT ![t] = @ + 1] /\ UNCHANGED pc
  /\ UNCHANGED <<storage, mutex, held, seen, pending>>

\* i < size: info.locked = true, and the tls_lock is returned.
LockClaim(t) ==
  /\ pc[t] = "claim"
  /\ locked' = locked \cup {cursor[t]}
  /\ held' = [held EXCEPT ![t][cursor[t]] = @ + 1]
  /\ Goto(t, "idle")
  /\ UNCHANGED <<threadId, last, size, dsize, mutex, seen, cursor, pending>>

\* Mutated form: the loop stops before its last element.
LockScanEndEarly(t) ==
  /\ pc[t] = "scan"
  /\ cursor[t] + 1 >= seenSize[t]
  /\ Goto(t, "wait")
  /\ UNCHANGED <<storage, mutex, held, seen, cursor, pending>>

\* The loop ended without a match: the lock_guard waits for the mutex.
LockScanEnd(t) ==
  /\ pc[t] = "scan"
  /\ cursor[t] = seenSize[t]
  /\ Goto(t, "wait")
  /\ UNCHANGED <<storage, mutex, held, seen, cursor, pending>>

-----------------------------------------------------------------------------
(* tls::lock: the new slot, under the mutex.                               *)

\* The last bucket of _locks is full, so that push_back moves to the next one.
BucketFull == size = (last + 1) * BucketSize

\* Mutated form: the lock_guard is missing.
LockAcquireUnguarded(t) ==
  /\ pc[t] = "wait"
  /\ size < MaxSlots
  /\ cursor' = [cursor EXCEPT ![t] = size]
  /\ Goto(t, "push")
  /\ UNCHANGED <<storage, mutex, held, seen, pending>>

\* lock_guard, size_t idx = _locks.size(), _datas.push_back({}).
LockAcquire(t) ==
  /\ pc[t] = "wait"
  /\ mutex = NoThread
  /\ size < MaxSlots
  /\ mutex' = t
  /\ cursor' = [cursor EXCEPT ![t] = size]
  /\ Goto(t, "push")
  /\ UNCHANGED <<storage, held, seen, pending>>

LockPushData(t) ==
  /\ pc[t] = "push"
  /\ dsize' = dsize + 1
  /\ pending' = [pending EXCEPT ![t] =
                   {"element", "size"} \cup IF BucketFull THEN {"last"} ELSE {}]
  /\ Goto(t, "publish")
  /\ UNCHANGED <<infos, last, size, mutex, held, seen, cursor>>

\* Mutated form: the size is published before the element is written.
MayStoreSizeFirst(t, s) ==
  /\ s \in pending[t]
  /\ s = "element" => "size" \notin pending[t]

\* Program order is: _last_bucket (maybe_grow), the element, ++_size.
MayStore(t, s) ==
  /\ s \in pending[t]
  /\ Ordered => /\ s = "element" => "last" \notin pending[t]
                /\ s = "size" => pending[t] = {"size"}

\* _locks.push_back(thread_info{ tid, true }), one visible store at a time.
LockStore(t, s) ==
  /\ pc[t] = "publish"
  /\ MayStore(t, s)
  /\ pending' = [pending EXCEPT ![t] = @ \ {s}]
  /\ last' = IF s = "last" THEN last + 1 ELSE last
  /\ IF s = "element"
       THEN /\ threadId' = [threadId EXCEPT ![cursor[t]] = t]
            /\ locked' = locked \cup {cursor[t]}
       ELSE UNCHANGED infos
  /\ size' = IF s = "size" THEN size + 1 ELSE size
  /\ Goto(t, IF pending[t] = {s} THEN "release" ELSE "publish")
  /\ UNCHANGED <<dsize, mutex, held, seen, cursor>>

\* Mutated form: the mutex stays locked.
LockReleaseKeepsMutex(t) ==
  /\ pc[t] = "release"
  /\ held' = [held EXCEPT ![t][cursor[t]] = @ + 1]
  /\ Goto(t, "idle")
  /\ UNCHANGED <<storage, mutex, seen, cursor, pending>>

\* The lock_guard ends and the tls_lock on the new slot is returned.
LockRelease(t) ==
  /\ pc[t] = "release"
  /\ mutex' = NoThread
  /\ held' = [held EXCEPT ![t][cursor[t]] = @ + 1]
  /\ Goto(t, "idle")
  /\ UNCHANGED <<storage, seen, cursor, pending>>

-----------------------------------------------------------------------------
(* tls::unlock, called by the destructor of a tls_lock.                    *)

\* The two tests of unlock that throw.
UnlockThrows(i) == i >= size \/ i \notin locked

\* Mutated form: the flag is not reset.
UnlockKeepsFlag(t, i) ==
  /\ pc[t] = "idle"
  /\ held[t][i] > 0
  /\ ~UnlockThrows(i)
  /\ held' = [held EXCEPT ![t][i] = @ - 1]
  /\ UNCHANGED <<storage, mutex, pc, seen, cursor, pending>>

Unlock(t, i) ==
  /\ pc[t] = "idle"
  /\ held[t][i] > 0
  /\ ~UnlockThrows(i)
  /\ locked' = locked \ {i}
  /\ held' = [held EXCEPT ![t][i] = @ - 1]
  /\ UNCHANGED <<threadId, last, size, dsize, mutex, pc, seen, cursor, pending>>

-----------------------------------------------------------------------------
(* tls::combine_each: the mutex, the check of every lock, then the walk.   *)

CombineCall(t) ==
  /\ pc[t] = "idle"
  /\ t \in Combiners
  /\ Goto(t, "combine")
  /\ UNCHANGED <<storage, mutex, held, seen, cursor, pending>>

CombineAcquire(t) ==
  /\ pc[t] = "combine"
  /\ mutex = NoThread
  /\ mutex' = t
  /\ cursor' = [cursor EXCEPT ![t] = 0]
  /\ Goto(t, "check")
  /\ UNCHANGED <<storage, held, seen, pending>>

\* A locked slot makes combine_each throw, which releases the mutex.
CombineCheck(t) ==
  /\ pc[t] = "check"
  /\ cursor[t] < size
  /\ IF cursor[t] \in locked
       THEN mutex' = NoThread /\ Goto(t, "idle") /\ UNCHANGED cursor
       ELSE cursor' = [cursor EXCEPT ![t] = @ + 1] /\ UNCHANGED <<mutex, pc>>
  /\ UNCHANGED <<storage, held, seen, pending>>

CombineCheckEnd(t) ==
  /\ pc[t] = "check"
  /\ cursor[t] = size
  /\ cursor' = [cursor EXCEPT ![t] = 0]
  /\ Goto(t, "visit")
  /\ UNCHANGED <<storage, mutex, held, seen, pending>>

\* func(t) has returned for the datum under the cursor.
CombineVisit(t) ==
  /\ pc[t] = "visit"
  /\ cursor[t] < dsize
  /\ cursor' = [cursor EXCEPT ![t] = @ + 1]
  /\ UNCHANGED <<storage, mutex, held, pc, seen, pending>>

CombineEnd(t) ==
  /\ pc[t] = "visit"
  /\ cursor[t] = dsize
  /\ mutex' = NoThread
  /\ Goto(t, "idle")
  /\ UNCHANGED <<storage, held, seen, cursor, pending>>

-----------------------------------------------------------------------------
(* tls::clear.                                                             *)

\* Wiping the deques keeps their buckets, and what the elements last held.
Wipe ==
  /\ last' = 0
  /\ size' = 0
  /\ dsize' = 0
  /\ UNCHANGED infos

\* clear() called while no thread is inside the storage, as its comment asks:
\* one step.
ClearQuiescent ==
  /\ \A t \in Threads : pc[t] = "idle" /\ \A i \in SlotIds : held[t][i] = 0
  /\ size > 0
  /\ Wipe
  /\ UNCHANGED <<mutex, held, pc, seen, cursor, pending>>

-----------------------------------------------------------------------------
Lock(t) ==
  \/ LockReadSize(t)
  \/ LockReadBegin(t)
  \/ LockScan(t)
  \/ LockClaim(t)
  \/ LockScanEnd(t)
  \/ LockAcquire(t)
  \/ LockPushData(t)
  \/ \E s \in Stores : LockStore(t, s)
  \/ LockRelease(t)

Combine(t) ==
  \/ CombineCall(t)
  \/ CombineAcquire(t)
  \/ CombineCheck(t)
  \/ CombineCheckEnd(t)
  \/ CombineVisit(t)
  \/ CombineEnd(t)

Step(t) ==
  \/ Lock(t)
  \/ \E i \in SlotIds : Unlock(t, i)
  \/ Combine(t)

Next ==
  \/ \E t \in Threads : Step(t)
  \/ ClearQuiescent

Spec == Init /\ [][Next]_vars

\* Programs that never clear the storage.
KeepsSpec == Init /\ [][\E t \in Threads : Step(t)]_vars

\* A thread inside lock() or combine_each() is scheduled again.
Fairness == \A t \in Threads : WF_vars(pc[t] # "idle" /\ (Lock(t) \/ Combine(t)))
FairSpec == Spec /\ Fairness

-----------------------------------------------------------------------------
(* What makes the storage correct.                                         *)

Published == 0 .. (size - 1)

\* No datum is in the hands of two tls_lock objects, of one thread or of two.
\* "fea::tls will throw if 2 threads try to access the same data": lock()
\* itself must never hand a datum out twice.
SlotExclusive ==
  \A t, u \in Threads : \A i \in SlotIds :
    /\ held[t][i] <= 1
    /\ held[t][i] > 0 /\ held[u][i] > 0 => t = u

\* The slot of a live tls_lock exists, carries the thread's id and is flagged,
\* whatever the other threads append: neither throw of unlock can happen, and
\* unlock runs in a destructor.
HandleLocked ==
  \A t \in Threads : \A i \in SlotIds :
    held[t][i] > 0 => i < size /\ threadId[i] = t /\ i \in locked

\* The unguarded scan stays inside the buckets its iterator knows, and reads
\* only elements that push_back has finished writing.
ScanInBounds ==
  \A t \in Threads :
    pc[t] \in {"scan", "claim"} /\ cursor[t] < seenSize[t] =>
      /\ cursor[t] \div BucketSize <= seenLast[t]
      /\ threadId[cursor[t]] # NoThread

\* "If the underlying thread local storage has already been initialized for a
\* thread, locking and unlocking doesn't actually lock": a thread takes the
\* mutex only when it has no free slot.
FastPathComplete ==
  \A t \in Threads :
    pc[t] \in {"wait", "push", "publish"} =>
      \A i \in Published : ~IsFreeSlotOf(i, t)

\* The storage never holds more data for a thread than it nests locks.
SlotsBounded ==
  \A t \in Threads :
    Cardinality({i \in Published : threadId[i] = t}) <= MaxNest

\* A call of lock() returns, whatever the other threads lock and unlock, unless
\* they call combine_each() again and again: the mutex is not a fair one.
LockReturns ==
  \A t \in Threads :
    \/ pc[t] = "begin" ~> pc[t] = "idle"
    \/ []<>(\E u \in Threads \ {t} : pc[u] \in {"check", "visit"})

-----------------------------------------------------------------------------
(* The storage implements the abstract row of slots.                       *)

\* A lock counts from the step that makes its slot visible.
SlotsInUse(t) ==
  {i + 1 : i \in {j \in SlotIds :
     held[t][j] > 0 \/ (pc[t] = "release" /\ cursor[t] = j)}}

Abstract == INSTANCE ThreadSlots WITH
  owner <- [i \in 1 .. size |-> threadId[i - 1]],
  inUse <- [t \in Threads |-> SlotsInUse(t)]

\* Scanning without the mutex, appending one store at a time and walking the
\* storage are invisible: every behaviour of fea::tls is one of ThreadSlots.
ImplementsThreadSlots == Abstract!Spec

-----------------------------------------------------------------------------
(* What the comments and assertions say and the code does not do.          *)

\* "fea::tls will throw if 2 threads try to access the same data": while
\* combine_each gives a datum to its callback no other thread has it locked.
CombineExclusive ==
  \A t, u \in Threads :
    pc[t] = "visit" /\ cursor[t] < dsize => held[u][cursor[t]] = 0

\* "assert(_locks.size() == _datas.size());" in size() and empty(), which take
\* no mutex and which any thread that is not inside lock() may call.
SizeAsserts ==
  \A t \in Threads : pc[t] = "idle" => size = dsize

-----------------------------------------------------------------------------
(* The inductive invariant: what is counted, whatever order the stores of    *)
(* push_back are seen in.                                                    *)

\* The mutex admits one thread at a time to the guarded sections.
MutexOwner ==
  \A t \in Threads : pc[t] \in Guarded <=> mutex = t

\* The assertions on the sizes that are made under the mutex, in lock, clear and
\* combine_each: no thread is between the two push_backs.
SizesAgree ==
  (\A t \in Threads : pc[t] # "publish") => size = dsize

\* What a thread knows of its own cursor during the scan.
ScanCounts ==
  \A t \in Threads :
    /\ pc[t] \in {"begin", "scan", "claim"} => seenSize[t] <= size
    /\ pc[t] = "scan" => cursor[t] <= seenSize[t]
    /\ pc[t] = "claim" => cursor[t] < seenSize[t]

\* What the thread inside the slow path has counted so far.
PushCounts ==
  \A t \in Threads :
    /\ pc[t] = "push" => cursor[t] = size /\ size < MaxSlots
    /\ pc[t] = "publish" =>
         /\ cursor[t] < MaxSlots
         /\ dsize = cursor[t] + 1
         /\ size = IF "size" \in pending[t] THEN cursor[t] ELSE cursor[t] + 1
    /\ pc[t] = "release" => cursor[t] < size

CountsInv ==
  /\ TypeOK
  /\ MutexOwner
  /\ SizesAgree
  /\ ScanCounts
  /\ PushCounts

-----------------------------------------------------------------------------
(* Whose the slots are.                                                      *)

\* A slot that a thread found is still its own free one when it claims it.
ClaimState == \A t \in Threads : pc[t] = "claim" => IsFreeSlotOf(cursor[t], t)

\* What the thread inside the slow path has written so far, for nobody yet.
PushWritten ==
  \A t \in Threads :
    LET written == threadId[cursor[t]] = t /\ cursor[t] \in locked
    IN  /\ pc[t] = "publish" => "element" \in pending[t] \/ written
        /\ pc[t] = "release" => written
        /\ pc[t] \in {"publish", "release"} => held[t][cursor[t]] = 0

HandsInv ==
  /\ SlotExclusive
  /\ HandleLocked
  /\ ClaimState
  /\ PushWritten

\* The size is stored last, so that nobody looks at a slot that is not written.
SizeLast == \A t \in Threads : pc[t] = "publish" => "size" \in pending[t]

\* Or it is nobody's when somebody does: the storage was never cleared.
Unwritten ==
  /\ \A i \in SlotIds : i >= dsize => threadId[i] = NoThread
  /\ \A t \in Threads :
       pc[t] = "publish" /\ "element" \in pending[t] => threadId[cursor[t]] = NoThread

\* Every step preserves it when the stores of push_back are seen in order.
IInv == CountsInv /\ HandsInv /\ SizeLast

\* Every step but clear does, whatever the order.
KeepsInv == CountsInv /\ HandsInv /\ Unwritten

=============================================================================
