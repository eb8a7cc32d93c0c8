----------------------------- MODULE Tls_proofs -----------------------------
(***************************************************************************)
(* Proofs about Tls for any number of threads, slots and nested locks.     *)
(***************************************************************************)
EXTENDS Tls, Recursion, SequenceTheorems, TLAPS

\* The new storage has no slot, no lock and no call in progress.
LEMMA InitInvs == Init => CountsInv /\ HandsInv /\ SizeLast /\ Unwritten
<1> SUFFICES ASSUME Init PROVE CountsInv /\ HandsInv /\ SizeLast /\ Unwritten
  OBVIOUS
<1>1. TypeOK
  BY BoundsAssumption DEF Init, TypeOK, SlotIds, Locations
<1>2. MutexOwner
  BY ThreadsAssumption DEF Init, MutexOwner, Guarded
<1>3. SizesAgree /\ ScanCounts /\ PushCounts
  BY DEF Init, SizesAgree, ScanCounts, PushCounts
<1>4. HandsInv
  BY DEF Init, HandsInv, SlotExclusive, HandleLocked, ClaimState, PushWritten
<1>5. SizeLast /\ Unwritten
  BY DEF Init, SizeLast, Unwritten
<1> QED
  BY <1>1, <1>2, <1>3, <1>4, <1>5 DEF CountsInv

\* Every variable keeps its type: in particular no more than MaxSlots slots are
\* ever appended and every index stays in range, in each step of tls.
LEMMA TypeStep ==
  ASSUME CountsInv, [Next]_vars
  PROVE  TypeOK'
<1> USE ThreadsAssumption, BoundsAssumption
    DEF TypeOK, SlotIds, storage, infos, seen
<1>0. TypeOK
  BY DEF CountsInv
<1>1. ASSUME NEW t \in Threads, LockReadSize(t) PROVE TypeOK'
  BY <1>0, <1>1 DEF LockReadSize, Goto, Locations
<1>2. ASSUME NEW t \in Threads, LockReadBegin(t) PROVE TypeOK'
  BY SMTT(30), <1>0, <1>2 DEF LockReadBegin, Goto, Locations
<1>3. ASSUME NEW t \in Threads, LockScan(t) PROVE TypeOK'
  <2>1. cursor[t] + 1 \in 0 .. MaxSlots
    BY SMTT(30), <1>0, <1>3 DEF LockScan
  <2>2. CASE IsFreeSlotOf(cursor[t], t)
    BY <1>0, <1>3, <2>2 DEF LockScan, Goto, Locations
  <2>3. CASE ~IsFreeSlotOf(cursor[t], t)
    <3>1. cursor' = [cursor EXCEPT ![t] = cursor[t] + 1]
      BY <1>3, <2>3 DEF LockScan
    <3>2. cursor' \in [Threads -> 0 .. MaxSlots]
      BY <1>0, <2>1, <3>1
    <3> QED
      BY <1>0, <1>3, <2>3, <3>2 DEF LockScan, Goto, Locations
  <2> QED BY <2>2, <2>3
<1>4. ASSUME NEW t \in Threads, LockClaim(t) PROVE TypeOK'
  <2>1. cursor[t] \in SlotIds
    BY <1>0, <1>4 DEF CountsInv, ScanCounts, LockClaim
  <2>2. held' \in [Threads -> [SlotIds -> Nat]]
    BY SMTT(30), <1>0, <1>4, <2>1 DEF LockClaim
  <2> QED
    BY <1>0, <1>4, <2>1, <2>2 DEF LockClaim, Goto, Locations
<1>5. ASSUME NEW t \in Threads, LockScanEnd(t) PROVE TypeOK'
  BY <1>0, <1>5 DEF LockScanEnd, Goto, Locations
<1>6. ASSUME NEW t \in Threads, LockAcquire(t) PROVE TypeOK'
  BY <1>0, <1>6 DEF LockAcquire, Goto, Locations
<1>7. ASSUME NEW t \in Threads, LockPushData(t) PROVE TypeOK'
  <2>1. dsize + 1 \in 0 .. MaxSlots
    <3>1. \A u \in Threads : pc[u] # "publish"
      BY <1>7 DEF LockPushData, CountsInv, MutexOwner, Guarded
    <3> QED
      BY <1>0, <1>7, <3>1 DEF LockPushData, CountsInv, PushCounts, SizesAgree
  <2> QED
    BY <1>0, <1>7, <2>1 DEF LockPushData, Goto, Locations, Stores
<1>8. ASSUME NEW t \in Threads, NEW s \in Stores, LockStore(t, s) PROVE TypeOK'
  <2>1. cursor[t] < MaxSlots /\ cursor[t] \in SlotIds /\ (s = "size" => size < MaxSlots)
    BY <1>0, <1>8 DEF LockStore, MayStore, CountsInv, PushCounts
  <2>2. threadId' \in [SlotIds -> Threads \cup {NoThread}] /\ locked' \subseteq SlotIds
    BY <1>0, <1>8, <2>1 DEF LockStore
  <2>3. last' \in Nat /\ size' \in 0 .. MaxSlots
    BY <1>0, <1>8, <2>1 DEF LockStore
  <2> QED
    BY <1>0, <1>8, <2>2, <2>3 DEF LockStore, Goto, Locations
<1>9. ASSUME NEW t \in Threads, LockRelease(t) PROVE TypeOK'
  <2>1. cursor[t] \in SlotIds
    BY <1>0, <1>9 DEF CountsInv, PushCounts, LockRelease
  <2>2. held' \in [Threads -> [SlotIds -> Nat]]
    BY SMTT(30), <1>0, <1>9, <2>1 DEF LockRelease
  <2> QED
    BY <1>0, <1>9, <2>1, <2>2 DEF LockRelease, Goto, Locations
<1>10. ASSUME NEW t \in Threads, NEW i \in SlotIds, Unlock(t, i) PROVE TypeOK'
  <2>1. held[t][i] - 1 \in Nat
    BY <1>0, <1>10 DEF Unlock
  <2>2. held' \in [Threads -> [SlotIds -> Nat]]
    BY <1>0, <1>10, <2>1 DEF Unlock
  <2> QED
    BY <1>0, <1>10, <2>2 DEF Unlock
<1>11. ASSUME NEW t \in Threads, Combine(t) PROVE TypeOK'
  <2>1. CASE CombineCall(t)
    BY <1>0, <2>1 DEF CombineCall, Goto, Locations
  <2>2. CASE CombineAcquire(t)
    BY <1>0, <2>2 DEF CombineAcquire, Goto, Locations
  <2>3. CASE CombineCheck(t)
    <3>1. CASE cursor[t] \in locked
      BY <1>0, <2>3, <3>1 DEF CombineCheck, Goto, Locations
    <3>2. CASE cursor[t] \notin locked
      <4>1. cursor[t] + 1 \in 0 .. MaxSlots
        BY <1>0, <2>3 DEF CombineCheck
      <4>2. cursor' \in [Threads -> 0 .. MaxSlots]
        BY <1>0, <2>3, <3>2, <4>1 DEF CombineCheck
      <4> QED
        BY <1>0, <2>3, <3>2, <4>2 DEF CombineCheck
    <3> QED BY <3>1, <3>2
  <2>4. CASE CombineCheckEnd(t)
    BY SMTT(30), <1>0, <2>4 DEF CombineCheckEnd, Goto, Locations
  <2>5. CASE CombineVisit(t)
    <3>1. cursor[t] + 1 \in 0 .. MaxSlots
      BY SMTT(30), <1>0, <2>5 DEF CombineVisit
    <3>2. cursor' \in [Threads -> 0 .. MaxSlots]
      BY <1>0, <2>5, <3>1 DEF CombineVisit
    <3> QED
      BY <1>0, <2>5, <3>2 DEF CombineVisit
  <2>6. CASE CombineEnd(t)
    BY <1>0, <2>6 DEF CombineEnd, Goto, Locations
  <2> QED BY <1>11, <2>1, <2>2, <2>3, <2>4, <2>5, <2>6 DEF Combine
<1>12. CASE ClearQuiescent
  BY <1>0, <1>12 DEF ClearQuiescent, Wipe
<1>13. CASE UNCHANGED vars
  BY <1>0, <1>13 DEF vars
<1> QED
  BY <1>1, <1>2, <1>3, <1>4, <1>5, <1>6, <1>7, <1>8, <1>9, <1>10, <1>11, <1>12,
     <1>13 DEF Next, Step, Lock


\* A step of combine_each stores nothing and moves its thread alone.
LEMMA CombineMoves ==
  ASSUME TypeOK, NEW t \in Threads, Combine(t)
  PROVE  /\ UNCHANGED <<storage, held, seen, pending>>
         /\ pc[t] \in {"idle", "combine", "check", "visit"}
         /\ pc'[t] \in {"idle", "combine", "check", "visit"}
         /\ \A u \in Threads \ {t} : pc'[u] = pc[u] /\ cursor'[u] = cursor[u]
<1> USE DEF TypeOK, Goto
<1>1. CASE CombineCall(t)
  BY <1>1 DEF CombineCall
<1>2. CASE CombineAcquire(t)
  BY <1>2 DEF CombineAcquire
<1>3. CASE CombineCheck(t)
  BY <1>3 DEF CombineCheck
<1>4. CASE CombineCheckEnd(t)
  BY <1>4 DEF CombineCheckEnd
<1>5. CASE CombineVisit(t)
  BY <1>5 DEF CombineVisit
<1>6. CASE CombineEnd(t)
  BY <1>6 DEF CombineEnd
<1> QED BY <1>1, <1>2, <1>3, <1>4, <1>5, <1>6 DEF Combine

-----------------------------------------------------------------------------
\* Every step of tls keeps its counts right, one action at a time, whatever the
\* order in which the stores of an append are seen.
LEMMA CountsStep ==
  ASSUME CountsInv, [Next]_vars
  PROVE  CountsInv'
<1> USE ThreadsAssumption, BoundsAssumption
    DEF storage, infos, seen, Goto, Guarded
<1>0. TypeOK /\ TypeOK'
  BY TypeStep DEF CountsInv
<1>b. /\ size \in Nat /\ dsize \in Nat
      /\ \A u \in Threads : cursor[u] \in Nat /\ seenSize[u] \in Nat
  BY <1>0 DEF TypeOK
<1> DEFINE Inv == /\ MutexOwner
                  /\ SizesAgree
                  /\ ScanCounts
                  /\ PushCounts
<1>a. Inv
  BY DEF CountsInv
<1>1. ASSUME NEW t \in Threads, LockReadSize(t) PROVE Inv'
  <2>1. MutexOwner'
    BY <1>0, <1>a, <1>b, <1>1 DEF TypeOK, LockReadSize, MutexOwner
  <2>2. SizesAgree'
    BY <1>0, <1>a, <1>b, <1>1 DEF TypeOK, LockReadSize, SizesAgree, MutexOwner, PushCounts
  <2>3. ScanCounts'
    BY <1>0, <1>a, <1>b, <1>1 DEF TypeOK, LockReadSize, ScanCounts
  <2>4. PushCounts'
    BY <1>0, <1>a, <1>b, <1>1 DEF TypeOK, LockReadSize, PushCounts, MutexOwner
  <2> QED BY <2>1, <2>2, <2>3, <2>4
<1>2. ASSUME NEW t \in Threads, LockReadBegin(t) PROVE Inv'
  <2>1. MutexOwner'
    BY <1>0, <1>a, <1>b, <1>2 DEF TypeOK, LockReadBegin, MutexOwner
  <2>2. SizesAgree'
    BY <1>0, <1>a, <1>b, <1>2 DEF TypeOK, LockReadBegin, SizesAgree, MutexOwner, PushCounts
  <2>3. ScanCounts'
    BY <1>0, <1>a, <1>b, <1>2 DEF TypeOK, LockReadBegin, ScanCounts
  <2>4. PushCounts'
    BY <1>0, <1>a, <1>b, <1>2 DEF TypeOK, LockReadBegin, PushCounts, MutexOwner
  <2> QED BY <2>1, <2>2, <2>3, <2>4
<1>3. ASSUME NEW t \in Threads, LockScan(t) PROVE Inv'
  <2>1. MutexOwner'
    BY <1>0, <1>a, <1>b, <1>3 DEF TypeOK, LockScan, MutexOwner
  <2>2. SizesAgree'
    BY <1>0, <1>a, <1>b, <1>3 DEF TypeOK, LockScan, SizesAgree, MutexOwner, PushCounts
  <2>3. ScanCounts'
    <3>1. CASE IsFreeSlotOf(cursor[t], t)
      BY <1>0, <1>a, <1>b, <1>3, <3>1 DEF TypeOK, LockScan, ScanCounts
    <3>2. CASE ~IsFreeSlotOf(cursor[t], t)
      <4>1. /\ pc' = pc /\ pc[t] = "scan" /\ cursor[t] < seenSize[t]
            /\ cursor'[t] = cursor[t] + 1
            /\ \A u \in Threads \ {t} : cursor'[u] = cursor[u]
        BY <1>0, <1>3, <3>2 DEF TypeOK, LockScan
      <4>2. UNCHANGED <<storage, seen>>
        BY <1>3 DEF LockScan
      <4> QED
        BY <1>a, <1>b, <4>1, <4>2 DEF ScanCounts
    <3> QED BY <3>1, <3>2
  <2>4. PushCounts'
    BY <1>0, <1>a, <1>b, <1>3 DEF TypeOK, LockScan, PushCounts, MutexOwner
  <2> QED BY <2>1, <2>2, <2>3, <2>4
<1>4. ASSUME NEW t \in Threads, LockClaim(t) PROVE Inv'
  <2>1. MutexOwner'
    BY <1>0, <1>a, <1>b, <1>4 DEF TypeOK, LockClaim, MutexOwner
  <2>2. SizesAgree'
    BY <1>0, <1>a, <1>b, <1>4 DEF TypeOK, LockClaim, SizesAgree, MutexOwner, PushCounts
  <2>3. ScanCounts'
    BY <1>0, <1>a, <1>b, <1>4 DEF TypeOK, LockClaim, ScanCounts
  <2>4. PushCounts'
    BY <1>0, <1>a, <1>b, <1>4 DEF TypeOK, LockClaim, PushCounts, MutexOwner
  <2> QED BY <2>1, <2>2, <2>3, <2>4
<1>5. ASSUME NEW t \in Threads, LockScanEnd(t) PROVE Inv'
  <2>1. MutexOwner'
    BY <1>0, <1>a, <1>b, <1>5 DEF TypeOK, LockScanEnd, MutexOwner
  <2>2. SizesAgree'
    BY <1>0, <1>a, <1>b, <1>5 DEF TypeOK, LockScanEnd, SizesAgree, MutexOwner, PushCounts
  <2>3. ScanCounts'
    BY <1>0, <1>a, <1>b, <1>5 DEF TypeOK, LockScanEnd, ScanCounts
  <2>4. PushCounts'
    BY <1>0, <1>a, <1>b, <1>5 DEF TypeOK, LockScanEnd, PushCounts, MutexOwner
  <2> QED BY <2>1, <2>2, <2>3, <2>4
<1>6. ASSUME NEW t \in Threads, LockAcquire(t) PROVE Inv'
  <2>1. MutexOwner'
    BY <1>0, <1>a, <1>b, <1>6 DEF TypeOK, LockAcquire, MutexOwner
  <2>2. SizesAgree'
    BY <1>0, <1>a, <1>b, <1>6 DEF TypeOK, LockAcquire, SizesAgree, MutexOwner, PushCounts
  <2>3. ScanCounts'
    BY <1>0, <1>a, <1>b, <1>6 DEF TypeOK, LockAcquire, ScanCounts
  <2>4. PushCounts'
    BY <1>0, <1>a, <1>b, <1>6 DEF TypeOK, LockAcquire, PushCounts, MutexOwner
  <2> QED BY <2>1, <2>2, <2>3, <2>4
<1>7. ASSUME NEW t \in Threads, LockPushData(t) PROVE Inv'
  <2>1. MutexOwner'
    BY <1>0, <1>a, <1>b, <1>7 DEF TypeOK, LockPushData, MutexOwner
  <2>2. SizesAgree'
    BY <1>0, <1>a, <1>b, <1>7 DEF TypeOK, LockPushData, SizesAgree, MutexOwner, PushCounts
  <2>3. ScanCounts'
    BY <1>0, <1>a, <1>b, <1>7 DEF TypeOK, LockPushData, ScanCounts
  <2>4. PushCounts'
    <3>1. /\ pc[t] = "push" /\ pc'[t] = "publish" /\ "size" \in pending'[t]
          /\ \A u \in Threads \ {t} : pc'[u] = pc[u] /\ pending'[u] = pending[u]
          /\ UNCHANGED <<infos, last, size, held, cursor>>
          /\ dsize' = dsize + 1
      BY <1>0, <1>7 DEF TypeOK, LockPushData
    <3>2. \A u \in Threads \ {t} : pc[u] \notin Guarded
      BY <1>a, <1>7 DEF LockPushData, MutexOwner
    <3>3. size = dsize
      BY <1>a, <1>7, <3>2 DEF LockPushData, SizesAgree
    <3> QED
      BY <1>a, <1>b, <3>1, <3>2, <3>3 DEF PushCounts
  <2> QED BY <2>1, <2>2, <2>3, <2>4
<1>8. ASSUME NEW t \in Threads, NEW s \in Stores, LockStore(t, s) PROVE Inv'
  <2>a. /\ pc[t] = "publish" /\ s \in pending[t] /\ pending'[t] = pending[t] \ {s}
        /\ \A u \in Threads \ {t} : pc'[u] = pc[u] /\ pending'[u] = pending[u]
        /\ pc'[t] = IF pending[t] = {s} THEN "release" ELSE "publish"
        /\ size' = IF s = "size" THEN size + 1 ELSE size
        /\ UNCHANGED <<dsize, mutex, cursor, seenSize>>
    BY <1>0, <1>8 DEF TypeOK, LockStore, MayStore
  <2>b. \A u \in Threads \ {t} : pc[u] \notin Guarded
    BY <1>a, <2>a DEF MutexOwner
  <2>c. /\ cursor[t] < MaxSlots /\ dsize = cursor[t] + 1
        /\ size = IF "size" \in pending[t] THEN cursor[t] ELSE cursor[t] + 1
    BY <1>a, <2>a DEF PushCounts
  <2>1. MutexOwner'
    BY <1>a, <2>a DEF MutexOwner
  <2>2. SizesAgree'
    <3>1. CASE pending[t] = {s}
      BY <1>b, <2>a, <2>c, <3>1 DEF SizesAgree
    <3>2. CASE pending[t] # {s}
      BY <2>a, <3>2 DEF SizesAgree
    <3> QED BY <3>1, <3>2
  <2>3. ScanCounts'
    BY <1>a, <1>b, <2>a DEF ScanCounts
  <2>4. PushCounts'
    <3>1. PushCounts!(t)'
      <4>1. CASE pending[t] = {s} BY <1>b, <2>a, <2>c, <4>1
      <4>2. CASE pending[t] # {s} BY <1>b, <2>a, <2>c, <4>2
      <4> QED BY <4>1, <4>2
    <3>2. \A u \in Threads \ {t} : pc'[u] \notin {"push", "publish", "release"}
      BY <2>a, <2>b
    <3> QED BY <3>1, <3>2 DEF PushCounts
  <2> QED BY <2>1, <2>2, <2>3, <2>4
<1>9. ASSUME NEW t \in Threads, LockRelease(t) PROVE Inv'
  <2>1. MutexOwner'
    BY <1>0, <1>a, <1>b, <1>9 DEF TypeOK, LockRelease, MutexOwner
  <2>2. SizesAgree'
    BY <1>0, <1>a, <1>b, <1>9 DEF TypeOK, LockRelease, SizesAgree, MutexOwner, PushCounts
  <2>3. ScanCounts'
    BY <1>0, <1>a, <1>b, <1>9 DEF TypeOK, LockRelease, ScanCounts
  <2>4. PushCounts'
    BY <1>0, <1>a, <1>b, <1>9 DEF TypeOK, LockRelease, PushCounts, MutexOwner
  <2> QED BY <2>1, <2>2, <2>3, <2>4
<1>10. ASSUME NEW t \in Threads, NEW i \in SlotIds, Unlock(t, i) PROVE Inv'
  <2>1. MutexOwner'
    BY <1>0, <1>a, <1>b, <1>10 DEF TypeOK, Unlock, MutexOwner
  <2>2. SizesAgree'
    BY <1>0, <1>a, <1>b, <1>10 DEF TypeOK, Unlock, SizesAgree, MutexOwner, PushCounts
  <2>3. ScanCounts'
    BY <1>0, <1>a, <1>b, <1>10 DEF TypeOK, Unlock, ScanCounts
  <2>4. PushCounts'
    BY <1>0, <1>a, <1>b, <1>10 DEF TypeOK, Unlock, PushCounts, MutexOwner
  <2> QED BY <2>1, <2>2, <2>3, <2>4
<1>11. ASSUME NEW t \in Threads, Combine(t) PROVE Inv'
  <2>a. /\ UNCHANGED <<storage, held, seen, pending>>
        /\ pc[t] \in {"idle", "combine", "check", "visit"}
        /\ pc'[t] \in {"idle", "combine", "check", "visit"}
        /\ \A u \in Threads \ {t} : pc'[u] = pc[u] /\ cursor'[u] = cursor[u]
    BY <1>0, <1>11, CombineMoves
  <2>b. \A u \in Threads : pc[u] # "publish" <=> pc'[u] # "publish"
    BY <2>a
  <2>1. MutexOwner'
    <3>1. CASE CombineCall(t)
      BY <1>0, <1>a, <3>1 DEF TypeOK, CombineCall, MutexOwner
    <3>2. CASE CombineAcquire(t)
      BY <1>0, <1>a, <3>2 DEF TypeOK, CombineAcquire, MutexOwner
    <3>3. CASE CombineCheck(t)
      BY <1>0, <1>a, <3>3 DEF TypeOK, CombineCheck, MutexOwner
    <3>4. CASE CombineCheckEnd(t)
      BY <1>0, <1>a, <3>4 DEF TypeOK, CombineCheckEnd, MutexOwner
    <3>5. CASE CombineVisit(t)
      BY <1>0, <1>a, <3>5 DEF TypeOK, CombineVisit, MutexOwner
    <3>6. CASE CombineEnd(t)
      BY <1>0, <1>a, <3>6 DEF TypeOK, CombineEnd, MutexOwner
    <3> QED BY <1>11, <3>1, <3>2, <3>3, <3>4, <3>5, <3>6 DEF Combine
  <2>2. SizesAgree'
    BY <1>a, <2>a, <2>b DEF SizesAgree
  <2>3. ScanCounts'
    BY <1>a, <2>a DEF ScanCounts
  <2>4. PushCounts'
    BY <1>a, <2>a DEF PushCounts
  <2> QED BY <2>1, <2>2, <2>3, <2>4
<1>12. ASSUME ClearQuiescent PROVE Inv'
  <2>1. MutexOwner'
    BY <1>0, <1>a, <1>b, <1>12 DEF TypeOK, ClearQuiescent, Wipe, MutexOwner
  <2>2. SizesAgree'
    BY <1>0, <1>a, <1>b, <1>12 DEF TypeOK, ClearQuiescent, Wipe, SizesAgree
  <2>3. ScanCounts'
    BY <1>0, <1>a, <1>b, <1>12 DEF TypeOK, ClearQuiescent, Wipe, ScanCounts
  <2>4. PushCounts'
    BY <1>0, <1>a, <1>b, <1>12 DEF TypeOK, ClearQuiescent, Wipe, PushCounts
  <2> QED BY <2>1, <2>2, <2>3, <2>4
<1>13. ASSUME UNCHANGED vars PROVE Inv'
  BY <1>a, <1>13 DEF vars, MutexOwner, SizesAgree, ScanCounts, PushCounts
<1> HIDE DEF Inv
<1>q. Inv'
  BY <1>1, <1>2, <1>3, <1>4, <1>5, <1>6, <1>7, <1>8, <1>9, <1>10, <1>11, <1>12,
     <1>13 DEF Next, Step, Lock
<1> QED
  BY <1>0, <1>q DEF Inv, CountsInv

-----------------------------------------------------------------------------
\* No step gives a slot away twice, frees one that is held or throws, whatever
\* the order in which the stores of an append are seen, if nobody looks at a
\* slot that is not written or it is nobody's.
LEMMA HandsStep ==
  ASSUME CountsInv, CountsInv', HandsInv, SizeLast \/ Unwritten, [Next]_vars
  PROVE  HandsInv'
<1> USE ThreadsAssumption, BoundsAssumption
    DEF storage, infos, seen, Goto, Guarded
<1>0. TypeOK /\ TypeOK' /\ MutexOwner /\ ScanCounts /\ PushCounts
  BY DEF CountsInv
<1>b. /\ \A u \in Threads : \A i \in SlotIds : held[u][i] \in Nat
      /\ size \in Nat
      /\ \A u \in Threads : cursor[u] \in Nat /\ seenSize[u] \in Nat
  BY <1>0 DEF TypeOK
<1>c. \A i \in Nat : i < MaxSlots => i \in SlotIds
  BY DEF SlotIds
<1>d. \A i \in SlotIds : i \in Nat /\ i < MaxSlots
  BY DEF SlotIds
<1> DEFINE Inv == /\ SlotExclusive
                  /\ HandleLocked
                  /\ ClaimState
                  /\ PushWritten
<1>a. Inv
  BY DEF HandsInv
\* A step that gives and frees nothing and moves no thread to a slot.
<1>e. ASSUME UNCHANGED <<infos, size, held>>,
             \A u \in Threads :
               \/ pc'[u] = pc[u] /\ cursor'[u] = cursor[u] /\ pending'[u] = pending[u]
               \/ pc'[u] \notin {"claim", "publish", "release"}
      PROVE  Inv'
  <2>1. SlotExclusive' BY <1>a, <1>e DEF SlotExclusive
  <2>2. HandleLocked' BY <1>a, <1>e DEF HandleLocked
  <2>3. ClaimState' BY <1>a, <1>e DEF ClaimState, IsFreeSlotOf
  <2>4. PushWritten' BY <1>a, <1>e DEF PushWritten
  <2> QED BY <2>1, <2>2, <2>3, <2>4
<1>1. ASSUME NEW t \in Threads, LockReadSize(t) PROVE Inv'
  BY <1>0, <1>1, <1>e DEF TypeOK, LockReadSize
<1>2. ASSUME NEW t \in Threads, LockReadBegin(t) PROVE Inv'
  BY <1>0, <1>2, <1>e DEF TypeOK, LockReadBegin
<1>3. ASSUME NEW t \in Threads, LockScan(t) PROVE Inv'
  <2>1. CASE IsFreeSlotOf(cursor[t], t)
    <3>1. /\ pc[t] = "scan" /\ pc' = [pc EXCEPT ![t] = "claim"]
          /\ UNCHANGED <<infos, size, held, cursor, pending>>
      BY <1>3, <2>1 DEF LockScan
    <3>2. SlotExclusive' /\ HandleLocked'
      BY <1>a, <3>1 DEF SlotExclusive, HandleLocked
    <3>3. ClaimState'
      BY <1>0, <1>a, <2>1, <3>1 DEF TypeOK, ClaimState, IsFreeSlotOf
    <3>4. PushWritten'
      BY <1>0, <1>a, <3>1 DEF TypeOK, PushWritten
    <3> QED BY <3>2, <3>3, <3>4
  <2>2. CASE ~IsFreeSlotOf(cursor[t], t)
    <3>1. /\ pc' = pc /\ pc[t] = "scan" /\ UNCHANGED <<infos, size, held, pending>>
          /\ \A u \in Threads \ {t} : cursor'[u] = cursor[u]
      BY <1>0, <1>3, <2>2 DEF TypeOK, LockScan
    <3> QED BY <1>e, <3>1
  <2> QED BY <2>1, <2>2
<1>4. ASSUME NEW t \in Threads, LockClaim(t) PROVE Inv'
  <2>a. cursor[t] \in SlotIds /\ cursor[t] < size /\ IsFreeSlotOf(cursor[t], t)
    <3>1. pc[t] = "claim" BY <1>4 DEF LockClaim
    <3>2. cursor[t] < seenSize[t] /\ seenSize[t] <= size /\ size <= MaxSlots
      BY <1>0, <3>1 DEF TypeOK, ScanCounts
    <3>3. IsFreeSlotOf(cursor[t], t) BY <1>a, <3>1 DEF ClaimState
    <3> QED BY <1>b, <1>c, <3>2, <3>3
  <2>b. \A u \in Threads : \A i \in SlotIds :
          held'[u][i] = IF u = t /\ i = cursor[t] THEN held[u][i] + 1 ELSE held[u][i]
    BY <1>0, <1>4, <2>a DEF LockClaim, TypeOK
  <2>c. \A u \in Threads : held[u][cursor[t]] = 0
    <3> SUFFICES ASSUME NEW u \in Threads PROVE held[u][cursor[t]] = 0
      OBVIOUS
    <3>1. held[u][cursor[t]] \in Nat
      BY <1>b, <2>a
    <3> QED
      BY <1>a, <2>a, <3>1 DEF HandleLocked, IsFreeSlotOf
  <2>d. /\ pc[t] = "claim" /\ pc' = [pc EXCEPT ![t] = "idle"]
        /\ locked' = locked \cup {cursor[t]}
        /\ UNCHANGED <<threadId, size, cursor, pending>>
    BY <1>4 DEF LockClaim
  <2>1. SlotExclusive'
    BY <1>a, <1>b, <2>a, <2>b, <2>c DEF SlotExclusive
  <2>2. HandleLocked'
    BY <1>a, <1>b, <2>a, <2>b, <2>d DEF HandleLocked, IsFreeSlotOf
  <2>3. ClaimState'
    BY <1>0, <1>a, <2>a, <2>d DEF TypeOK, ClaimState, IsFreeSlotOf
  <2>4. PushWritten'
    <3> SUFFICES ASSUME NEW u \in Threads PROVE PushWritten!(u)'
      BY DEF PushWritten
    <3>1. u = t => pc'[u] = "idle" BY <1>0, <2>d DEF TypeOK
    <3>2. u # t => pc'[u] = pc[u] BY <1>0, <2>d DEF TypeOK
    <3>3. PushWritten!(u) BY <1>a DEF PushWritten
    <3>4. u # t /\ pc[u] \in {"publish", "release"} =>
            held'[u][cursor[u]] = held[u][cursor[u]]
      <4>1. pc[u] \in {"publish", "release"} => cursor[u] \in SlotIds
        BY <1>0, <1>b, <1>c DEF PushCounts, TypeOK
      <4> QED BY <2>b, <4>1
    <3> QED BY <2>d, <3>1, <3>2, <3>3, <3>4
  <2> QED BY <2>1, <2>2, <2>3, <2>4
<1>5. ASSUME NEW t \in Threads, LockScanEnd(t) PROVE Inv'
  BY <1>0, <1>5, <1>e DEF TypeOK, LockScanEnd
<1>6. ASSUME NEW t \in Threads, LockAcquire(t) PROVE Inv'
  BY <1>0, <1>6, <1>e DEF TypeOK, LockAcquire
<1>7. ASSUME NEW t \in Threads, LockPushData(t) PROVE Inv'
  <2>1. /\ pc[t] = "push" /\ pc' = [pc EXCEPT ![t] = "publish"]
        /\ "element" \in pending'[t]
        /\ \A u \in Threads \ {t} : pending'[u] = pending[u]
        /\ UNCHANGED <<infos, size, held, cursor>>
    BY <1>0, <1>7 DEF TypeOK, LockPushData
  <2>2. held[t][cursor[t]] = 0
    <3>1. cursor[t] = size /\ cursor[t] \in SlotIds
      BY <1>0, <1>b, <1>c, <2>1 DEF PushCounts
    <3>2. ~(held[t][cursor[t]] > 0) BY <1>a, <1>b, <3>1 DEF HandleLocked
    <3> QED BY <1>b, <3>1, <3>2
  <2>3. SlotExclusive' /\ HandleLocked'
    BY <1>a, <2>1 DEF SlotExclusive, HandleLocked
  <2>4. ClaimState'
    BY <1>0, <1>a, <2>1 DEF TypeOK, ClaimState, IsFreeSlotOf
  <2>5. PushWritten'
    BY <1>0, <1>a, <2>1, <2>2 DEF TypeOK, PushWritten
  <2> QED BY <2>3, <2>4, <2>5
<1>8. ASSUME NEW t \in Threads, NEW s \in Stores, LockStore(t, s) PROVE Inv'
  <2>a. /\ pc[t] = "publish" /\ s \in pending[t] /\ pending'[t] = pending[t] \ {s}
        /\ \A u \in Threads \ {t} : pc'[u] = pc[u] /\ pending'[u] = pending[u]
        /\ pc'[t] = IF pending[t] = {s} THEN "release" ELSE "publish"
        /\ size' \in Nat /\ size' >= size
        /\ UNCHANGED <<held, cursor>>
    BY <1>0, <1>b, <1>8 DEF TypeOK, LockStore, MayStore
  <2>b. \A u \in Threads \ {t} : pc[u] \notin Guarded
    BY <1>0, <2>a DEF MutexOwner
  <2>c. cursor[t] \in SlotIds
    BY <1>0, <1>b, <1>c, <2>a DEF PushCounts
  <2>d. held[t][cursor[t]] = 0 /\ ("element" \in pending[t] \/
          (threadId[cursor[t]] = t /\ cursor[t] \in locked))
    BY <1>a, <2>a DEF PushWritten
  <2>1. SlotExclusive'
    BY <1>a, <2>a DEF SlotExclusive
  <2>2. CASE s # "element"
    <3>1. UNCHANGED infos BY <1>8, <2>2 DEF LockStore
    <3>2. HandleLocked'
      BY <1>a, <1>b, <1>d, <2>a, <3>1 DEF HandleLocked
    <3>3. ClaimState'
      BY <1>a, <2>a, <3>1 DEF ClaimState, IsFreeSlotOf
    <3>4. PushWritten'
      BY <1>a, <2>2, <2>a, <2>b, <2>d, <3>1 DEF PushWritten
    <3> QED BY <2>1, <3>2, <3>3, <3>4
  <2>3. CASE s = "element"
    <3>1. /\ threadId' = [threadId EXCEPT ![cursor[t]] = t]
          /\ locked' = locked \cup {cursor[t]}
      BY <1>8, <2>3 DEF LockStore
    \* Nobody has the slot or is about to: it is not counted, or nobody's.
    <3>2. ASSUME NEW u \in Threads
          PROVE  /\ ~(held[u][cursor[t]] > 0)
                 /\ pc[u] = "claim" => cursor[u] # cursor[t]
      <4>1. held[u][cursor[t]] > 0 => cursor[t] < size /\ threadId[cursor[t]] = u
        BY <1>a, <2>c DEF HandleLocked
      <4>2. pc[u] = "claim" => cursor[u] < size /\ threadId[cursor[u]] = u
        <5>1. pc[u] = "claim" => cursor[u] < seenSize[u] /\ seenSize[u] <= size
          BY <1>0 DEF ScanCounts
        <5> QED BY <1>a, <1>b, <5>1 DEF ClaimState, IsFreeSlotOf
      <4>3. CASE SizeLast
        <5>1. size = cursor[t] BY <1>0, <2>a, <4>3 DEF SizeLast, PushCounts
        <5> QED BY <1>b, <4>1, <4>2, <5>1
      <4>4. CASE Unwritten
        <5>1. threadId[cursor[t]] = NoThread
          BY <2>3, <2>a, <4>4 DEF Unwritten
        <5> QED BY <4>1, <4>2, <5>1
      <4> QED BY <4>3, <4>4
    <3>3. \A i \in SlotIds : i # cursor[t] =>
            threadId'[i] = threadId[i] /\ (i \in locked' <=> i \in locked)
      BY <1>0, <3>1 DEF TypeOK
    <3>4. threadId'[cursor[t]] = t /\ cursor[t] \in locked'
      BY <1>0, <2>c, <3>1 DEF TypeOK
    <3>5. HandleLocked'
      <4> SUFFICES ASSUME NEW u \in Threads, NEW i \in SlotIds, held[u][i] > 0
                   PROVE  i < size' /\ threadId'[i] = u /\ i \in locked'
        BY <2>a DEF HandleLocked
      <4>1. i # cursor[t] BY <3>2
      <4>2. i < size /\ threadId[i] = u /\ i \in locked BY <1>a DEF HandleLocked
      <4> QED BY <1>b, <1>d, <2>a, <3>3, <4>1, <4>2
    <3>6. ClaimState'
      <4> SUFFICES ASSUME NEW u \in Threads, pc'[u] = "claim"
                   PROVE  threadId'[cursor[u]] = u /\ cursor[u] \notin locked'
        BY <2>a DEF ClaimState, IsFreeSlotOf
      <4>1. pc[u] = "claim" /\ cursor[u] # cursor[t] BY <2>a, <3>2
      <4>2. threadId[cursor[u]] = u /\ cursor[u] \notin locked
        BY <1>a, <4>1 DEF ClaimState, IsFreeSlotOf
      <4>3. cursor[u] \in SlotIds
        <5>1. cursor[u] < seenSize[u] /\ seenSize[u] <= MaxSlots
          BY <1>0, <4>1 DEF ScanCounts, TypeOK
        <5> QED BY <1>b, <1>c, <5>1
      <4> QED BY <3>3, <4>1, <4>2, <4>3
    <3>7. PushWritten'
      BY <2>a, <2>b, <2>d, <3>4 DEF PushWritten
    <3> QED BY <2>1, <3>5, <3>6, <3>7
  <2> QED BY <2>2, <2>3
<1>9. ASSUME NEW t \in Threads, LockRelease(t) PROVE Inv'
  <2>a. /\ cursor[t] \in SlotIds
        /\ cursor[t] < size
        /\ threadId[cursor[t]] = t /\ cursor[t] \in locked
        /\ held[t][cursor[t]] = 0
    <3>1. pc[t] = "release" BY <1>9 DEF LockRelease
    <3>2. cursor[t] < size /\ size <= MaxSlots BY <1>0, <3>1 DEF PushCounts, TypeOK
    <3>3. threadId[cursor[t]] = t /\ cursor[t] \in locked /\ held[t][cursor[t]] = 0
      BY <1>a, <3>1 DEF PushWritten
    <3> QED BY <1>b, <1>c, <3>2, <3>3
  <2>b. \A u \in Threads : \A i \in SlotIds :
          held'[u][i] = IF u = t /\ i = cursor[t] THEN held[u][i] + 1 ELSE held[u][i]
    BY <1>0, <1>9, <2>a DEF LockRelease, TypeOK
  <2>c. \A u \in Threads : held[u][cursor[t]] > 0 => u = t
    BY <1>a, <2>a DEF HandleLocked
  <2>d. /\ pc[t] = "release" /\ pc' = [pc EXCEPT ![t] = "idle"]
        /\ UNCHANGED <<infos, size, cursor, pending>>
    BY <1>9 DEF LockRelease
  <2>e. \A u \in Threads \ {t} : pc'[u] = pc[u] /\ pc[u] \notin Guarded
    BY <1>0, <2>d DEF TypeOK, MutexOwner
  <2>1. SlotExclusive'
    BY <1>a, <1>b, <2>a, <2>b, <2>c DEF SlotExclusive
  <2>2. HandleLocked'
    BY <1>a, <1>b, <2>a, <2>b, <2>d DEF HandleLocked
  <2>3. ClaimState'
    BY <1>0, <1>a, <2>d DEF TypeOK, ClaimState, IsFreeSlotOf
  <2>4. PushWritten'
    BY <1>0, <2>d, <2>e DEF TypeOK, PushWritten
  <2> QED BY <2>1, <2>2, <2>3, <2>4
<1>10. ASSUME NEW t \in Threads, NEW i \in SlotIds, Unlock(t, i) PROVE Inv'
  <2>a. held[t][i] = 1 /\ i < size /\ threadId[i] = t
    BY <1>a, <1>b, <1>10 DEF Unlock, SlotExclusive, HandleLocked
  <2>b. \A u \in Threads : \A j \in SlotIds :
          held'[u][j] = IF u = t /\ j = i THEN held[u][j] - 1 ELSE held[u][j]
    BY <1>0, <1>10 DEF Unlock, TypeOK
  <2>c. \A u \in Threads : held[u][i] > 0 => u = t
    BY <1>a, <2>a DEF HandleLocked
  <2>d. /\ pc[t] = "idle" /\ locked' = locked \ {i}
        /\ UNCHANGED <<threadId, size, pc, cursor, pending>>
    BY <1>10 DEF Unlock
  <2>1. SlotExclusive'
    BY <1>a, <1>b, <2>a, <2>b DEF SlotExclusive
  <2>2. HandleLocked'
    <3> SUFFICES ASSUME NEW u \in Threads, NEW j \in SlotIds, held'[u][j] > 0
                 PROVE  j < size /\ threadId[j] = u /\ j \in locked'
      BY <2>d DEF HandleLocked
    <3>1. j # i
      <4>1. CASE u = t BY <2>a, <2>b, <4>1
      <4>2. CASE u # t BY <2>b, <2>c, <4>2
      <4> QED BY <4>1, <4>2
    <3>2. held[u][j] > 0 BY <2>b, <3>1
    <3> QED BY <1>a, <2>d, <3>1, <3>2 DEF HandleLocked
  <2>3. ClaimState'
    BY <1>a, <2>d DEF ClaimState, IsFreeSlotOf
  <2>4. PushWritten'
    <3> SUFFICES ASSUME NEW u \in Threads, pc[u] \in {"publish", "release"}
                 PROVE  PushWritten!(u)'
      BY <2>d DEF PushWritten
    <3>1. u # t BY <2>d
    <3>2. cursor[u] \in SlotIds
      BY <1>0, <1>b, <1>c DEF PushCounts, TypeOK
    <3>3. PushWritten!(u) BY <1>a DEF PushWritten
    <3>4. held'[u][cursor[u]] = held[u][cursor[u]] BY <2>b, <3>1, <3>2
    <3>5. threadId[cursor[u]] = u => cursor[u] # i BY <2>a, <3>1
    <3> QED BY <2>d, <3>3, <3>4, <3>5
  <2> QED BY <2>1, <2>2, <2>3, <2>4
<1>11. ASSUME NEW t \in Threads, Combine(t) PROVE Inv'
  BY <1>0, <1>11, <1>e, CombineMoves
<1>12. ASSUME ClearQuiescent PROVE Inv'
  <2>1. \A u \in Threads : pc'[u] = "idle" /\ \A i \in SlotIds : held'[u][i] = 0
    BY <1>12 DEF ClearQuiescent
  <2> QED
    BY <2>1 DEF SlotExclusive, HandleLocked, ClaimState, PushWritten
<1>13. ASSUME UNCHANGED vars PROVE Inv'
  BY <1>13, <1>e DEF vars
<1> HIDE DEF Inv
<1>q. Inv'
  BY <1>1, <1>2, <1>3, <1>4, <1>5, <1>6, <1>7, <1>8, <1>9, <1>10, <1>11, <1>12,
     <1>13 DEF Next, Step, Lock
<1> QED
  BY <1>q DEF Inv, HandsInv

\* Stores that are seen in order are seen with the size last.
LEMMA SizeLastStep ==
  ASSUME CountsInv, SizeLast, [Next]_vars, Ordered = TRUE
  PROVE  SizeLast'
<1>0. TypeOK BY DEF CountsInv
<1> USE DEF TypeOK, SizeLast, Goto
<1>1. ASSUME NEW t \in Threads, NEW s \in Stores, LockStore(t, s) PROVE SizeLast'
  <2>1. /\ pending' = [pending EXCEPT ![t] = pending[t] \ {s}]
        /\ pc' = [pc EXCEPT ![t] = IF pending[t] = {s} THEN "release" ELSE "publish"]
        /\ s = "size" => pending[t] = {s}
    BY <1>1 DEF LockStore, MayStore
  <2> QED BY <1>0, <1>1, <2>1 DEF LockStore
<1>2. ASSUME NEW t \in Threads, LockPushData(t) PROVE SizeLast'
  BY <1>0, <1>2 DEF LockPushData
<1>3. ASSUME NEW t \in Threads,
             LockReadSize(t) \/ LockReadBegin(t) \/ LockScan(t) \/ LockScanEnd(t)
             \/ LockAcquire(t) \/ LockClaim(t) \/ LockRelease(t)
      PROVE SizeLast'
  BY <1>0, <1>3 DEF LockReadSize, LockReadBegin, LockScan, LockScanEnd, LockAcquire,
     LockClaim, LockRelease
<1>4. ASSUME NEW t \in Threads, NEW i \in SlotIds, Unlock(t, i) PROVE SizeLast'
  BY <1>4 DEF Unlock
<1>5. ASSUME NEW t \in Threads, Combine(t) PROVE SizeLast'
  BY <1>0, <1>5, CombineMoves
<1>6. CASE ClearQuiescent BY <1>6 DEF ClearQuiescent
<1>7. CASE UNCHANGED vars BY <1>7 DEF vars
<1> QED BY <1>1, <1>2, <1>3, <1>4, <1>5, <1>6, <1>7 DEF Next, Step, Lock

\* Without clear a slot that is not written is nobody's.
LEMMA UnwrittenStep ==
  ASSUME CountsInv, Unwritten, [\E t \in Threads : Step(t)]_vars
  PROVE  Unwritten'
<1>0. TypeOK /\ MutexOwner /\ SizesAgree /\ PushCounts BY DEF CountsInv
<1>b. dsize \in Nat /\ \A u \in Threads : cursor[u] \in Nat
  BY <1>0, BoundsAssumption DEF TypeOK
<1>d. \A i \in SlotIds : i \in Nat BY BoundsAssumption DEF SlotIds
<1> USE DEF Goto
<1>1. ASSUME NEW t \in Threads, NEW s \in Stores, LockStore(t, s) PROVE Unwritten'
  <2>1. /\ pc[t] = "publish" /\ UNCHANGED <<dsize, cursor>>
        /\ pending' = [pending EXCEPT ![t] = pending[t] \ {s}]
        /\ pc' = [pc EXCEPT ![t] = IF pending[t] = {s} THEN "release" ELSE "publish"]
    BY <1>1 DEF LockStore
  <2>2. \A u \in Threads \ {t} : pc[u] # "publish"
    BY <1>0, <2>1 DEF MutexOwner, Guarded
  <2>3. dsize = cursor[t] + 1 BY <1>0, <2>1 DEF PushCounts
  <2>4. CASE s = "element"
    <3>1. threadId' = [threadId EXCEPT ![cursor[t]] = t] BY <1>1, <2>4 DEF LockStore
    <3>2. \A i \in SlotIds : i >= dsize => threadId'[i] = threadId[i]
      BY <1>0, <1>b, <1>d, <2>3, <3>1 DEF TypeOK
    <3>3. \A u \in Threads : pc'[u] = "publish" => u = t BY <1>0, <2>1, <2>2 DEF TypeOK
    <3>4. "element" \notin pending'[t] BY <1>0, <2>1, <2>4 DEF TypeOK
    <3> QED BY <2>1, <3>2, <3>3, <3>4 DEF Unwritten
  <2>5. CASE s # "element"
    <3>1. UNCHANGED threadId BY <1>1, <2>5 DEF LockStore, infos
    <3> QED BY <1>0, <2>1, <3>1 DEF Unwritten, TypeOK
  <2> QED BY <2>4, <2>5
<1>2. ASSUME NEW t \in Threads, LockPushData(t) PROVE Unwritten'
  <2>1. /\ pc[t] = "push" /\ dsize' = dsize + 1 /\ UNCHANGED <<threadId, cursor>>
        /\ pc' = [pc EXCEPT ![t] = "publish"]
        /\ \A u \in Threads \ {t} : pending'[u] = pending[u]
    BY <1>0, <1>2 DEF LockPushData, infos, TypeOK
  <2>2. \A u \in Threads : pc[u] # "publish"
    BY <1>0, <2>1 DEF MutexOwner, Guarded
  <2>3. cursor[t] = dsize /\ cursor[t] \in SlotIds
    <3>1. size = dsize BY <1>0, <2>2 DEF SizesAgree
    <3>2. cursor[t] = size /\ size < MaxSlots BY <1>0, <2>1 DEF PushCounts
    <3> QED BY <1>b, <3>1, <3>2, BoundsAssumption DEF SlotIds
  <2>4. threadId[cursor[t]] = NoThread BY <1>b, <2>3 DEF Unwritten
  <2>5. \A i \in SlotIds : i >= dsize' => i >= dsize BY <1>b, <1>d, <2>1
  <2>6. \A u \in Threads : pc'[u] = "publish" => u = t BY <1>0, <2>1, <2>2 DEF TypeOK
  <2> QED BY <2>1, <2>4, <2>5, <2>6 DEF Unwritten
<1>3. ASSUME NEW t \in Threads,
             LockReadSize(t) \/ LockReadBegin(t) \/ LockScan(t) \/ LockScanEnd(t)
             \/ LockAcquire(t) \/ LockClaim(t) \/ LockRelease(t)
      PROVE Unwritten'
  <2>1. /\ UNCHANGED <<threadId, dsize, pending>>
        /\ \A u \in Threads : pc'[u] = "publish" => pc[u] = "publish" /\ cursor'[u] = cursor[u]
    BY <1>0, <1>3 DEF LockReadSize, LockReadBegin, LockScan, LockScanEnd, LockAcquire,
       LockClaim, LockRelease, storage, infos, TypeOK
  <2> QED BY <2>1 DEF Unwritten
<1>4. ASSUME NEW t \in Threads, NEW i \in SlotIds, Unlock(t, i) PROVE Unwritten'
  BY <1>4 DEF Unlock, Unwritten
<1>5. ASSUME NEW t \in Threads, Combine(t) PROVE Unwritten'
  BY <1>0, <1>5, CombineMoves DEF Unwritten, storage, infos
<1>7. CASE UNCHANGED vars BY <1>7 DEF vars, Unwritten
<1> QED BY <1>1, <1>2, <1>3, <1>4, <1>5, <1>7 DEF Step, Lock

-----------------------------------------------------------------------------
\* The counts are right for ever, whatever the order in which the stores of an
\* append are seen.
THEOREM CountsInvariance == Spec => []CountsInv
<1>1. Init => CountsInv
  BY InitInvs
<1>2. CountsInv /\ [Next]_vars => CountsInv'
  BY CountsStep
<1> QED
  BY <1>1, <1>2, PTL DEF Spec

\* Every index tls computes is in range, in whatever order stores are seen.
THEOREM TypeCorrect == Spec => []TypeOK
<1>1. CountsInv => TypeOK
  BY DEF CountsInv
<1> QED
  BY <1>1, CountsInvariance, PTL

\* The assertions on the sizes that lock, combine_each and clear make under the
\* mutex hold, in whatever order stores are seen: no thread is between the two
\* push_backs.  Those of size and empty, which take no mutex, do not.
THEOREM GuardedAssertions == Spec => []SizesAgree
<1>1. CountsInv => SizesAgree
  BY DEF CountsInv
<1> QED
  BY <1>1, CountsInvariance, PTL

\* With the stores of push_back seen in order, IInv holds for ever.
THEOREM Invariance ==
  ASSUME Ordered = TRUE
  PROVE  Spec => []IInv
<1>1. Init => IInv
  BY InitInvs DEF IInv
<1>2. IInv /\ [Next]_vars => IInv'
  BY CountsStep, HandsStep, SizeLastStep DEF IInv
<1> QED
  BY <1>1, <1>2, PTL DEF Spec

\* In programs that never clear KeepsInv does, whatever the order.
THEOREM KeepsInvariance == KeepsSpec => []KeepsInv
<1>1. Init => KeepsInv
  BY InitInvs DEF KeepsInv
<1>2. KeepsInv /\ [\E t \in Threads : Step(t)]_vars => KeepsInv'
  <2>1. [\E t \in Threads : Step(t)]_vars => [Next]_vars
    BY DEF Next
  <2> QED
    BY <2>1, CountsStep, HandsStep, UnwrittenStep DEF KeepsInv
<1> QED
  BY <1>1, <1>2, PTL DEF KeepsSpec

\* lock() never hands out a datum that a live tls_lock still refers to, for any
\* number of threads, nested locks and appended slots: if the stores of an
\* append are seen in order, or else if the storage is never cleared.
THEOREM Exclusion ==
  /\ Ordered = TRUE => (Spec => []SlotExclusive)
  /\ KeepsSpec => []SlotExclusive
<1>1. IInv => SlotExclusive
  BY DEF IInv, HandsInv
<1>2. KeepsInv => SlotExclusive
  BY DEF KeepsInv, HandsInv
<1>3. ASSUME Ordered = TRUE PROVE Spec => []SlotExclusive
  BY <1>1, <1>3, Invariance, PTL
<1>4. KeepsSpec => []SlotExclusive
  BY <1>2, KeepsInvariance, PTL
<1> QED
  BY <1>3, <1>4

\* Neither throw of unlock, which the destructor of tls_lock calls, is reachable,
\* under the same conditions.
THEOREM UnlockSafe ==
  /\ Ordered = TRUE => (Spec => []HandleLocked)
  /\ KeepsSpec => []HandleLocked
<1>1. IInv => HandleLocked
  BY DEF IInv, HandsInv
<1>2. KeepsInv => HandleLocked
  BY DEF KeepsInv, HandsInv
<1>3. ASSUME Ordered = TRUE PROVE Spec => []HandleLocked
  BY <1>1, <1>3, Invariance, PTL
<1>4. KeepsSpec => []HandleLocked
  BY <1>2, KeepsInvariance, PTL
<1> QED
  BY <1>3, <1>4

\* What IInv says when the stores are seen in order, of a thread that looks for
\* a slot and of one that appends it.
ScanState ==
  \A t \in Threads :
    /\ pc[t] \in {"begin", "scan", "claim"} => seenSize[t] <= size
    /\ pc[t] = "scan" => cursor[t] <= seenSize[t]
    /\ pc[t] = "claim" => cursor[t] < seenSize[t] /\ IsFreeSlotOf(cursor[t], t)

PushState ==
  \A t \in Threads :
    LET written == threadId[cursor[t]] = t /\ cursor[t] \in locked
    IN  /\ pc[t] = "push" => cursor[t] = size /\ size < MaxSlots
        /\ pc[t] = "publish" =>
             /\ cursor[t] = size
             /\ size < MaxSlots
             /\ dsize = size + 1
             /\ "size" \in pending[t]
             /\ "element" \in pending[t] \/ written
        /\ pc[t] = "release" =>
             /\ cursor[t] < size
             /\ written
             /\ held[t][cursor[t]] = 0

\* The parts of IInv by name.
LEMMA Parts ==
  ASSUME IInv
  PROVE  /\ TypeOK /\ MutexOwner /\ SlotExclusive /\ HandleLocked
         /\ ScanState /\ PushState
<1>1. CountsInv /\ HandsInv /\ SizeLast
  BY DEF IInv
<1>2. TypeOK /\ MutexOwner /\ ScanCounts /\ PushCounts
  BY <1>1 DEF CountsInv
<1>3. SlotExclusive /\ HandleLocked /\ ClaimState /\ PushWritten
  BY <1>1 DEF HandsInv
<1>4. ScanState
  BY <1>2, <1>3 DEF ScanState, ScanCounts, ClaimState
<1>5. PushState
  <2> SUFFICES ASSUME NEW t \in Threads PROVE PushState!(t)
    BY DEF PushState
  <2>1. PushCounts!(t) BY <1>2 DEF PushCounts
  <2>2. PushWritten!(t) BY <1>3 DEF PushWritten
  <2>3. pc[t] = "publish" => "size" \in pending[t] BY <1>1 DEF SizeLast
  <2> QED BY <2>1, <2>2, <2>3
<1> QED BY <1>2, <1>3, <1>4, <1>5

-----------------------------------------------------------------------------
(* The scan without the mutex.                                             *)

\* The buckets of a full size exist, a published slot has its owner, and a scan
\* knows the last bucket of what it may read.
StoreState ==
  /\ size <= (last + 1) * BucketSize
  /\ \A i \in Published : threadId[i] \in Threads
  /\ \A t \in Threads :
       /\ pc[t] = "publish" =>
            IF "last" \in pending[t] THEN size = (last + 1) * BucketSize
                                     ELSE size < (last + 1) * BucketSize
       /\ pc[t] \in {"scan", "claim"} =>
            seenSize[t] <= (seenLast[t] + 1) * BucketSize

\* A thread that scans or appends has passed over no free slot of its own, and
\* what was appended since it read the size belongs to others.
PassedState ==
  \A t \in Threads :
    /\ pc[t] \in {"begin", "scan"} =>
         \A i \in Published : i >= seenSize[t] => threadId[i] # t
    /\ pc[t] = "scan" => \A i \in Published : i < cursor[t] => ~IsFreeSlotOf(i, t)
    /\ pc[t] \in {"wait", "push", "publish"} =>
         \A i \in Published : ~IsFreeSlotOf(i, t)

ScanInv == StoreState /\ PassedState

\* The new storage has one bucket and nothing to scan.
LEMMA InitScanInv == Init => ScanInv
<1> SUFFICES ASSUME Init PROVE ScanInv
  OBVIOUS
<1>1. size = 0 /\ last = 0 /\ Published = {}
  BY DEF Init, Published
<1>2. size <= (last + 1) * BucketSize
  BY <1>1, BoundsAssumption
<1>3. \A t \in Threads : pc[t] = "idle"
  BY DEF Init
<1> QED
  BY <1>1, <1>2, <1>3 DEF ScanInv, StoreState, PassedState

\* A bucket more has room for BucketSize elements more.
LEMMA BucketArithmetic ==
  /\ \A b \in Nat : (b + 1) * BucketSize \in Nat
  /\ \A b \in Nat : (b + 1 + 1) * BucketSize = (b + 1) * BucketSize + BucketSize
  /\ BucketSize \in Nat /\ BucketSize >= 1
BY BoundsAssumption

\* Every step keeps enough buckets for the size, an owner for each slot and the
\* bucket of a scan's end.
LEMMA StoreStep ==
  ASSUME IInv, IInv', ScanInv, [Next]_vars, Ordered = TRUE
  PROVE  StoreState'
<1> DEFINE Room(b) == (b + 1) * BucketSize
<1>b. /\ \A b \in Nat : Room(b) \in Nat /\ Room(b + 1) = Room(b) + BucketSize
      /\ BucketSize \in Nat /\ BucketSize >= 1
  BY BucketArithmetic
<1>s. /\ size <= Room(last)
      /\ \A i \in Published : threadId[i] \in Threads
      /\ \A t \in Threads :
           /\ pc[t] = "publish" =>
                IF "last" \in pending[t] THEN size = Room(last)
                                         ELSE size < Room(last)
           /\ pc[t] \in {"scan", "claim"} => seenSize[t] <= Room(seenLast[t])
  BY DEF ScanInv, StoreState
<1> DEFINE Buckets == /\ size' <= Room(last')
                      /\ \A i \in Published' : threadId'[i] \in Threads
           Thread(u) == /\ pc'[u] = "publish" =>
                             IF "last" \in pending'[u] THEN size' = Room(last')
                                                       ELSE size' < Room(last')
                        /\ pc'[u] \in {"scan", "claim"} =>
                             seenSize'[u] <= Room(seenLast'[u])
<1> SUFFICES Buckets /\ \A u \in Threads : Thread(u)
  BY DEF StoreState
<1>f. BucketFull <=> size = Room(last)
  BY DEF BucketFull
<1>0. TypeOK /\ MutexOwner /\ PushState /\ ScanState
  BY Parts
<1>n. /\ size \in Nat /\ last \in Nat
      /\ \A u \in Threads : seenSize[u] \in Nat /\ seenLast[u] \in Nat /\ cursor[u] \in Nat
  BY <1>0 DEF TypeOK
<1> HIDE DEF Room
\* Nothing is stored and nobody begins to scan or to append.
<1>q. ASSUME UNCHANGED <<storage, seen, pending>>,
             \A u \in Threads : pc'[u] = pc[u] \/ pc'[u] \notin {"publish", "scan", "claim"}
      PROVE  Buckets /\ \A u \in Threads : Thread(u)
  BY <1>s, <1>q DEF storage, infos, seen, Published
<1>1. ASSUME NEW t \in Threads, LockReadSize(t) PROVE Buckets /\ \A u \in Threads : Thread(u)
  <2>1. Buckets
    BY <1>s, <1>1 DEF LockReadSize, storage, infos, Published
  <2>2. \A u \in Threads : u # t => seenSize'[u] = seenSize[u]
    BY <1>0, <1>1 DEF LockReadSize, TypeOK
  <2>3. \A u \in Threads : pc'[u] = IF u = t THEN "begin" ELSE pc[u]
    BY <1>0, <1>1 DEF LockReadSize, TypeOK, Goto
  <2> QED
    BY <1>s, <1>1, <2>1, <2>2, <2>3 DEF LockReadSize, storage, infos
<1>2. ASSUME NEW t \in Threads, LockReadBegin(t) PROVE Buckets /\ \A u \in Threads : Thread(u)
  <2>1. Buckets
    BY <1>s, <1>2 DEF LockReadBegin, storage, infos, Published
  <2>2. \A u \in Threads : seenLast'[u] = IF u = t THEN last ELSE seenLast[u]
    BY <1>0, <1>2 DEF LockReadBegin, TypeOK
  <2>3. \A u \in Threads : pc'[u] = IF u = t THEN "scan" ELSE pc[u]
    BY <1>0, <1>2 DEF LockReadBegin, TypeOK, Goto
  <2>4. seenSize[t] <= Room(last)
    BY <1>0, <1>s, <1>n, <1>b, <1>2 DEF LockReadBegin, ScanState
  <2> QED
    BY <1>s, <1>2, <2>1, <2>2, <2>3, <2>4 DEF LockReadBegin, storage, infos
<1>3. ASSUME NEW t \in Threads, LockScan(t) PROVE Buckets /\ \A u \in Threads : Thread(u)
  <2>1. \A u \in Threads : pc'[u] = pc[u] \/ (u = t /\ pc[t] = "scan" /\ pc'[u] = "claim")
    BY <1>0, <1>3 DEF LockScan, TypeOK, Goto
  <2> QED
    BY <1>s, <1>3, <2>1 DEF LockScan, storage, infos, seen, Published
<1>4. ASSUME NEW t \in Threads, LockClaim(t) PROVE Buckets /\ \A u \in Threads : Thread(u)
  <2>1. \A u \in Threads : pc'[u] = pc[u] \/ pc'[u] = "idle"
    BY <1>0, <1>4 DEF LockClaim, TypeOK, Goto
  <2> QED
    BY <1>s, <1>4, <2>1 DEF LockClaim, seen, Published
<1>5. ASSUME NEW t \in Threads, LockScanEnd(t) PROVE Buckets /\ \A u \in Threads : Thread(u)
  <2>1. \A u \in Threads : pc'[u] = pc[u] \/ pc'[u] = "wait"
    BY <1>0, <1>5 DEF LockScanEnd, TypeOK, Goto
  <2> QED
    BY <1>5, <1>q, <2>1 DEF LockScanEnd
<1>6. ASSUME NEW t \in Threads, LockAcquire(t) PROVE Buckets /\ \A u \in Threads : Thread(u)
  <2>1. \A u \in Threads : pc'[u] = pc[u] \/ pc'[u] = "push"
    BY <1>0, <1>6 DEF LockAcquire, TypeOK, Goto
  <2> QED
    BY <1>6, <1>q, <2>1 DEF LockAcquire
<1>7. ASSUME NEW t \in Threads, LockPushData(t) PROVE Buckets /\ \A u \in Threads : Thread(u)
  <2>1. Buckets
    BY <1>s, <1>7 DEF LockPushData, infos, Published
  <2>2. \A u \in Threads : u # t => pc'[u] = pc[u] /\ pending'[u] = pending[u]
    BY <1>0, <1>7 DEF LockPushData, TypeOK, Goto
  <2>3. /\ pc'[t] = "publish"
        /\ pending'[t] = {"element", "size"} \cup IF BucketFull THEN {"last"} ELSE {}
    BY <1>0, <1>7 DEF LockPushData, TypeOK, Goto
  <2>4. Thread(t)
    <3>1. CASE BucketFull
      BY <1>7, <1>f, <2>3, <3>1 DEF LockPushData
    <3>2. CASE ~BucketFull
      <4>1. size < Room(last)
        BY <1>s, <1>n, <1>b, <1>f, <3>2
      <4> QED
        BY <1>7, <2>3, <3>2, <4>1 DEF LockPushData
    <3> QED BY <3>1, <3>2
  <2> QED
    BY <1>s, <1>7, <2>1, <2>2, <2>4 DEF LockPushData, seen
<1>8. ASSUME NEW t \in Threads, NEW s \in Stores, LockStore(t, s)
      PROVE  Buckets /\ \A u \in Threads : Thread(u)
  <2>1. /\ pc[t] = "publish" /\ MayStore(t, s) /\ s \in pending[t]
        /\ UNCHANGED seen
        /\ cursor[t] = size /\ size < MaxSlots /\ size \in SlotIds
        /\ \A u \in Threads : u # t => /\ pc'[u] = pc[u] /\ pc[u] # "publish"
                                       /\ pending'[u] = pending[u]
        /\ pc'[t] \in {"publish", "release"}
        /\ pending'[t] = pending[t] \ {s}
    <3>1. \A u \in Threads : u # t => pc[u] # "publish"
      BY <1>0, <1>8 DEF LockStore, MutexOwner, Guarded
    <3>2. /\ pc[t] = "publish" /\ MayStore(t, s) /\ s \in pending[t] /\ UNCHANGED seen
      BY <1>8 DEF LockStore, MayStore
    <3>3. cursor[t] = size /\ size < MaxSlots /\ size \in SlotIds
      BY <1>0, <1>n, <3>2, BoundsAssumption DEF PushState, SlotIds
    <3>4. \A u \in Threads : u # t => pc'[u] = pc[u] /\ pending'[u] = pending[u]
      BY <1>0, <1>8 DEF LockStore, TypeOK, Goto
    <3>5. pc'[t] \in {"publish", "release"} /\ pending'[t] = pending[t] \ {s}
      BY <1>0, <1>8 DEF LockStore, TypeOK, Goto
    <3> QED
      BY <3>1, <3>2, <3>3, <3>4, <3>5
  <2>2. CASE s = "last"
    <3>1. last' = last + 1 /\ size' = size /\ threadId' = threadId
      BY <1>8, <2>2 DEF LockStore, infos
    <3>2. size = Room(last)
      BY <1>s, <2>1, <2>2
    <3>3. Room(last') = Room(last) + BucketSize /\ size < Room(last')
      BY <1>b, <1>n, <3>1, <3>2
    <3> QED
      BY <1>s, <1>n, <1>b, <2>1, <2>2, <3>1, <3>3 DEF Published, seen
  <2>3. CASE s = "element"
    <3>1. last' = last /\ size' = size /\ "last" \notin pending[t]
      BY <1>8, <2>3 DEF LockStore, MayStore
    <3>2. \A i \in Published : threadId'[i] = threadId[i]
      <4>1. \A i \in Published : i \in SlotIds /\ i # size
        BY <1>n, <2>1, BoundsAssumption DEF Published, SlotIds
      <4>2. threadId' = [threadId EXCEPT ![size] = t]
        BY <1>8, <2>1, <2>3 DEF LockStore
      <4> QED
        BY <1>0, <4>1, <4>2 DEF TypeOK
    <3> QED
      BY <1>s, <2>1, <2>3, <3>1, <3>2 DEF Published, seen
  <2>4. CASE s = "size"
    <3>1. /\ last' = last /\ size' = size + 1 /\ threadId' = threadId
          /\ pending[t] = {"size"} /\ pc'[t] = "release"
      BY <1>0, <1>8, <2>4 DEF LockStore, MayStore, infos, Goto, TypeOK
    <3>2. size < Room(last)
      BY <1>s, <2>1, <3>1
    <3>3. threadId[size] = t
      BY <1>0, <2>1, <3>1 DEF PushState
    <3>4. Buckets
      <4>1. size' <= Room(last')
        BY <1>n, <1>b, <3>1, <3>2
      <4>2. \A i \in Published' : i \in Published \/ i = size
        BY <1>n, <3>1 DEF Published
      <4> QED
        BY <1>s, <3>1, <3>3, <4>1, <4>2
    <3> QED
      BY <1>s, <2>1, <3>1, <3>4 DEF seen
  <2> QED BY <2>2, <2>3, <2>4 DEF Stores
<1>9. ASSUME NEW t \in Threads, LockRelease(t) PROVE Buckets /\ \A u \in Threads : Thread(u)
  <2>1. \A u \in Threads : pc'[u] = pc[u] \/ pc'[u] = "idle"
    BY <1>0, <1>9 DEF LockRelease, TypeOK, Goto
  <2> QED
    BY <1>9, <1>q, <2>1 DEF LockRelease
<1>10. ASSUME NEW t \in Threads, NEW i \in SlotIds, Unlock(t, i)
       PROVE  Buckets /\ \A u \in Threads : Thread(u)
  BY <1>s, <1>10 DEF Unlock, Published, seen
<1>11. ASSUME NEW t \in Threads, Combine(t) PROVE Buckets /\ \A u \in Threads : Thread(u)
  <2>1. UNCHANGED <<storage, seen, pending>>
    BY <1>11 DEF Combine, CombineCall, CombineAcquire, CombineCheck,
       CombineCheckEnd, CombineVisit, CombineEnd
  <2>2. \A u \in Threads : pc'[u] = pc[u] \/ pc'[u] \in {"idle", "combine", "check", "visit"}
    BY <1>0, <1>11 DEF Combine, CombineCall, CombineAcquire, CombineCheck,
       CombineCheckEnd, CombineVisit, CombineEnd, TypeOK, Goto
  <2> QED
    BY <1>q, <2>1, <2>2
<1>12. ASSUME ClearQuiescent PROVE Buckets /\ \A u \in Threads : Thread(u)
  <2>1. size' = 0 /\ last' = 0 /\ Published' = {}
    BY <1>12 DEF ClearQuiescent, Wipe, Published
  <2>2. \A u \in Threads : pc'[u] = "idle"
    BY <1>12 DEF ClearQuiescent
  <2> QED
    BY <1>b, <2>1, <2>2
<1>13. ASSUME UNCHANGED vars PROVE Buckets /\ \A u \in Threads : Thread(u)
  BY <1>q, <1>13 DEF vars, storage, infos, seen
<1> HIDE DEF Buckets, Thread
<1> QED
  BY <1>1, <1>2, <1>3, <1>4, <1>5, <1>6, <1>7, <1>8, <1>9, <1>10, <1>11, <1>12,
     <1>13 DEF Next, Step, Lock

\* What a thread has passed over: a slot of its own is freed and bound only by
\* itself.
LEMMA PassedStep ==
  ASSUME IInv, IInv', ScanInv, [Next]_vars, Ordered = TRUE
  PROVE  PassedState'
<1>0. TypeOK /\ MutexOwner /\ PushState /\ ScanState /\ HandleLocked /\ PassedState
  BY Parts DEF ScanInv
<1>n. /\ size \in Nat
      /\ \A u \in Threads : seenSize[u] \in Nat /\ cursor[u] \in Nat
  BY <1>0 DEF TypeOK
<1> DEFINE Passed(u) ==
      /\ pc[u] \in {"begin", "scan"} =>
           \A i \in Published : i >= seenSize[u] => threadId[i] # u
      /\ pc[u] = "scan" => \A i \in Published : i < cursor[u] => ~IsFreeSlotOf(i, u)
      /\ pc[u] \in {"wait", "push", "publish"} =>
           \A i \in Published : ~IsFreeSlotOf(i, u)
<1>p. \A u \in Threads : Passed(u)
  BY <1>0 DEF PassedState
<1> SUFFICES \A u \in Threads : Passed(u)'
  BY DEF PassedState
<1>q. ASSUME UNCHANGED <<infos, size>>,
             \A u \in Threads :
               \/ pc'[u] = pc[u] /\ seenSize'[u] = seenSize[u]
                  /\ (pc[u] = "scan" => cursor'[u] = cursor[u])
               \/ pc'[u] \notin {"begin", "scan", "wait", "push", "publish"}
               \/ pc[u] \in {"wait", "push"} /\ pc'[u] \in {"push", "publish"}
      PROVE  \A u \in Threads : Passed(u)'
  BY <1>p, <1>q DEF infos, Published, IsFreeSlotOf
<1>1. ASSUME NEW t \in Threads, LockReadSize(t) PROVE \A u \in Threads : Passed(u)'
  <2>1. \A u \in Threads : /\ pc'[u] = IF u = t THEN "begin" ELSE pc[u]
                           /\ seenSize'[u] = IF u = t THEN size ELSE seenSize[u]
    BY <1>0, <1>1 DEF LockReadSize, TypeOK, Goto
  <2>2. \A i \in Published : ~(i >= size)
    BY <1>n DEF Published
  <2> QED
    BY <1>p, <1>1, <2>1, <2>2 DEF LockReadSize, storage, infos, Published, IsFreeSlotOf
<1>2. ASSUME NEW t \in Threads, LockReadBegin(t) PROVE \A u \in Threads : Passed(u)'
  <2>1. \A u \in Threads : /\ pc'[u] = IF u = t THEN "scan" ELSE pc[u]
                           /\ cursor'[u] = IF u = t THEN 0 ELSE cursor[u]
    BY <1>0, <1>2 DEF LockReadBegin, TypeOK, Goto
  <2>2. \A i \in Published : ~(i < 0)
    BY <1>n DEF Published
  <2> QED
    BY <1>p, <1>2, <2>1, <2>2 DEF LockReadBegin, storage, infos, Published, IsFreeSlotOf
<1>3. ASSUME NEW t \in Threads, LockScan(t) PROVE \A u \in Threads : Passed(u)'
  <2>1. CASE IsFreeSlotOf(cursor[t], t)
    <3>1. \A u \in Threads : pc'[u] = IF u = t THEN "claim" ELSE pc[u]
      BY <1>0, <1>3, <2>1 DEF LockScan, TypeOK, Goto
    <3> QED
      BY <1>3, <1>q, <2>1, <3>1 DEF LockScan, storage, infos, seen
  <2>2. CASE ~IsFreeSlotOf(cursor[t], t)
    <3>1. \A u \in Threads : /\ pc'[u] = pc[u]
                             /\ cursor'[u] = IF u = t THEN cursor[u] + 1 ELSE cursor[u]
      BY <1>0, <1>3, <2>2 DEF LockScan, TypeOK
    <3>2. \A i \in Published : i < cursor[t] + 1 => i < cursor[t] \/ i = cursor[t]
      BY <1>n DEF Published
    <3> QED
      BY <1>p, <1>3, <2>2, <3>1, <3>2 DEF LockScan, storage, infos, seen, Published, IsFreeSlotOf
  <2> QED BY <2>1, <2>2
<1>4. ASSUME NEW t \in Threads, LockClaim(t) PROVE \A u \in Threads : Passed(u)'
  <2>1. \A u \in Threads : pc'[u] = IF u = t THEN "idle" ELSE pc[u]
    BY <1>0, <1>4 DEF LockClaim, TypeOK, Goto
  <2> QED
    BY <1>p, <1>4, <2>1 DEF LockClaim, seen, Published, IsFreeSlotOf
<1>5. ASSUME NEW t \in Threads, LockScanEnd(t) PROVE \A u \in Threads : Passed(u)'
  <2>1. \A u \in Threads : pc'[u] = IF u = t THEN "wait" ELSE pc[u]
    BY <1>0, <1>5 DEF LockScanEnd, TypeOK, Goto
  <2>2. \A i \in Published : ~IsFreeSlotOf(i, t)
    <3>1. \A i \in Published : i < cursor[t] \/ i >= seenSize[t]
      BY <1>n, <1>5 DEF LockScanEnd, Published
    <3> QED
      BY <1>p, <1>5, <3>1 DEF LockScanEnd, IsFreeSlotOf
  <2> QED
    BY <1>p, <1>5, <2>1, <2>2 DEF LockScanEnd, storage, infos, seen, Published, IsFreeSlotOf
<1>6. ASSUME NEW t \in Threads, LockAcquire(t) PROVE \A u \in Threads : Passed(u)'
  <2>1. \A u \in Threads : /\ pc'[u] = IF u = t THEN "push" ELSE pc[u]
                           /\ u # t => cursor'[u] = cursor[u]
    BY <1>0, <1>6 DEF LockAcquire, TypeOK, Goto
  <2> QED
    BY <1>6, <1>q, <2>1 DEF LockAcquire, storage, infos, seen
<1>7. ASSUME NEW t \in Threads, LockPushData(t) PROVE \A u \in Threads : Passed(u)'
  <2>1. \A u \in Threads : pc'[u] = IF u = t THEN "publish" ELSE pc[u]
    BY <1>0, <1>7 DEF LockPushData, TypeOK, Goto
  <2> QED
    BY <1>7, <1>q, <2>1 DEF LockPushData, seen
<1>8. ASSUME NEW t \in Threads, NEW s \in Stores, LockStore(t, s)
      PROVE  \A u \in Threads : Passed(u)'
  <2>1. /\ pc[t] = "publish" /\ MayStore(t, s) /\ UNCHANGED <<seen, cursor>>
        /\ \A u \in Threads : u # t => pc'[u] = pc[u] /\ pc[u] # "publish"
        /\ pc'[t] = IF pending[t] = {s} THEN "release" ELSE "publish"
    BY <1>0, <1>8 DEF LockStore, MutexOwner, Guarded, TypeOK, Goto
  <2>2. cursor[t] = size /\ \A i \in Published : i \in SlotIds /\ i # size
    BY <1>0, <1>n, <2>1, BoundsAssumption DEF PushState, Published, SlotIds
  <2>3. CASE s = "last"
    BY <1>p, <1>8, <2>1, <2>3 DEF LockStore, infos, seen, Published, IsFreeSlotOf
  <2>4. CASE s = "element"
    <3>1. size' = size /\ threadId' = [threadId EXCEPT ![size] = t]
          /\ locked' = locked \cup {size}
      BY <1>8, <2>2, <2>4 DEF LockStore
    <3>2. \A i \in Published : threadId'[i] = threadId[i] /\ (i \in locked => i \in locked')
      BY <1>0, <2>2, <3>1 DEF TypeOK
    <3> QED
      BY <1>p, <2>1, <3>1, <3>2 DEF seen, Published, IsFreeSlotOf
  <2>5. CASE s = "size"
    <3>1. UNCHANGED infos /\ pending[t] = {"size"} /\ pc'[t] = "release"
      BY <1>8, <2>1, <2>5 DEF LockStore, MayStore
    <3>2. threadId[size] = t
      BY <1>0, <2>1, <2>2, <3>1 DEF PushState
    <3>3. \A i \in Published' : i \in Published \/ i = size
      BY <1>n, <1>8, <2>5 DEF LockStore, Published
    <3> QED
      BY <1>p, <2>1, <3>1, <3>2, <3>3 DEF infos, seen, IsFreeSlotOf
  <2> QED BY <2>3, <2>4, <2>5 DEF Stores
<1>9. ASSUME NEW t \in Threads, LockRelease(t) PROVE \A u \in Threads : Passed(u)'
  <2>1. \A u \in Threads : pc'[u] = IF u = t THEN "idle" ELSE pc[u]
    BY <1>0, <1>9 DEF LockRelease, TypeOK, Goto
  <2> QED
    BY <1>9, <1>q, <2>1 DEF LockRelease, storage, infos, seen
<1>10. ASSUME NEW t \in Threads, NEW i \in SlotIds, Unlock(t, i)
       PROVE  \A u \in Threads : Passed(u)'
  <2>1. threadId[i] = t
    BY <1>0, <1>10 DEF Unlock, HandleLocked
  <2> QED
    BY <1>p, <1>10, <2>1 DEF Unlock, seen, Published, IsFreeSlotOf
<1>11. ASSUME NEW t \in Threads, Combine(t) PROVE \A u \in Threads : Passed(u)'
  <2>1. UNCHANGED <<infos, size, seen>>
    BY <1>11 DEF Combine, CombineCall, CombineAcquire, CombineCheck,
       CombineCheckEnd, CombineVisit, CombineEnd, storage, infos, seen
  <2>2. \A u \in Threads : \/ pc'[u] = pc[u] /\ cursor'[u] = cursor[u]
                           \/ pc'[u] \in {"idle", "combine", "check", "visit"}
    BY <1>0, <1>11 DEF Combine, CombineCall, CombineAcquire, CombineCheck,
       CombineCheckEnd, CombineVisit, CombineEnd, TypeOK, Goto
  <2> QED
    BY <1>q, <2>1, <2>2 DEF seen
<1>12. ASSUME ClearQuiescent PROVE \A u \in Threads : Passed(u)'
  <2>1. \A u \in Threads : pc'[u] = "idle"
    BY <1>12 DEF ClearQuiescent
  <2> QED
    BY <2>1
<1>13. ASSUME UNCHANGED vars PROVE \A u \in Threads : Passed(u)'
  BY <1>q, <1>13 DEF vars, infos
<1> HIDE DEF Passed
<1> QED
  BY <1>1, <1>2, <1>3, <1>4, <1>5, <1>6, <1>7, <1>8, <1>9, <1>10, <1>11, <1>12,
     <1>13 DEF Next, Step, Lock

\* The scan without the mutex reads what the appending thread has finished.
THEOREM ScanInvariance ==
  ASSUME Ordered = TRUE
  PROVE  Spec => []ScanInv
<1>1. Init => ScanInv
  BY InitScanInv
<1>2. IInv /\ IInv' /\ ScanInv /\ [Next]_vars => ScanInv'
  BY StoreStep, PassedStep DEF ScanInv
<1> QED
  BY <1>1, <1>2, Invariance, PTL DEF Spec

\* The scan without the mutex stays in the buckets its iterator knows and reads
\* elements that are written, for buckets of any size.
THEOREM ScanSafe ==
  ASSUME Ordered = TRUE
  PROVE  Spec => []ScanInBounds
<1>1. IInv /\ ScanInv => ScanInBounds
  <2> SUFFICES ASSUME IInv, ScanInv, NEW t \in Threads,
                      pc[t] \in {"scan", "claim"}, cursor[t] < seenSize[t]
               PROVE  /\ cursor[t] \div BucketSize <= seenLast[t]
                      /\ threadId[cursor[t]] # NoThread
    BY DEF ScanInBounds
  <2>1. /\ cursor[t] \in Nat /\ seenLast[t] \in Nat /\ seenSize[t] \in Nat
        /\ size \in Nat /\ seenSize[t] <= size
    BY Parts DEF TypeOK, ScanState
  <2>2. cursor[t] < (seenLast[t] + 1) * BucketSize
    <3>1. seenSize[t] <= (seenLast[t] + 1) * BucketSize
      BY DEF ScanInv, StoreState
    <3> QED
      BY <2>1, <3>1, BucketArithmetic
  <2>3. \A c, b \in Nat : c < (b + 1) * BucketSize => c \div BucketSize <= b
    BY BoundsAssumption
  <2>4. cursor[t] \in Published
    BY <2>1 DEF Published
  <2> QED
    BY <2>1, <2>2, <2>3, <2>4, ThreadsAssumption DEF ScanInv, StoreState
<1> QED
  BY <1>1, Invariance, ScanInvariance, PTL

\* A thread takes the mutex only when every slot it owns is in use, whatever
\* the others do meanwhile.
THEOREM FastPath ==
  ASSUME Ordered = TRUE
  PROVE  Spec => []FastPathComplete
<1>1. ScanInv => FastPathComplete
  BY DEF ScanInv, PassedState, FastPathComplete
<1> QED
  BY <1>1, ScanInvariance, PTL

-----------------------------------------------------------------------------
(* The refinement of ThreadSlots.                                          *)

\* A published slot that is flagged is in the hands of its thread.
LockedHeld ==
  \A i \in Published : i \in locked =>
    \E t \in Threads :
      threadId[i] = t /\ (held[t][i] > 0 \/ (pc[t] = "release" /\ cursor[t] = i))

\* A slot is flagged and handed to its thread by one thread alone.
LEMMA LockedHeldStep ==
  ASSUME IInv, IInv', ScanInv, LockedHeld, [Next]_vars, Ordered = TRUE
  PROVE  LockedHeld'
<1>0. TypeOK /\ MutexOwner /\ PushState /\ ScanState /\ HandleLocked
  BY Parts
<1>n. /\ size \in Nat /\ \A u \in Threads : cursor[u] \in Nat
      /\ \A i \in Published : i \in SlotIds
      /\ \A u \in Threads : \A i \in SlotIds : held[u][i] \in Nat
  BY <1>0, BoundsAssumption DEF TypeOK, Published, SlotIds
<1> DEFINE InHand(u, i) == held[u][i] > 0 \/ (pc[u] = "release" /\ cursor[u] = i)
<1>h. \A i \in Published : i \in locked => \E u \in Threads : threadId[i] = u /\ InHand(u, i)
  BY DEF LockedHeld
<1> SUFFICES \A i \in Published' : i \in locked' =>
               \E u \in Threads : threadId'[i] = u /\ InHand(u, i)'
  BY DEF LockedHeld
<1> USE DEF storage, infos, seen
\* Nothing is stored, and no thread moves from "release".
<1>q. ASSUME UNCHANGED <<infos, size, held>>,
             \A u \in Threads : pc[u] = "release" => pc'[u] = "release" /\ cursor'[u] = cursor[u]
      PROVE  \A i \in Published' : i \in locked' =>
               \E u \in Threads : threadId'[i] = u /\ InHand(u, i)'
  BY <1>h, <1>q DEF Published
<1>1. ASSUME NEW t \in Threads,
             LockReadSize(t) \/ LockReadBegin(t) \/ LockScan(t) \/ LockScanEnd(t)
             \/ LockAcquire(t) \/ LockPushData(t)
      PROVE  \A u \in Threads : pc[u] = "release" => pc'[u] = "release" /\ cursor'[u] = cursor[u]
  BY <1>0, <1>1 DEF LockReadSize, LockReadBegin, LockScan, LockScanEnd, LockAcquire,
     LockPushData, TypeOK, Goto
<1>2. ASSUME NEW t \in Threads,
             LockReadSize(t) \/ LockReadBegin(t) \/ LockScan(t) \/ LockScanEnd(t)
             \/ LockAcquire(t) \/ LockPushData(t)
      PROVE  UNCHANGED <<infos, size, held>>
  BY <1>2 DEF LockReadSize, LockReadBegin, LockScan, LockScanEnd, LockAcquire, LockPushData
<1>3. ASSUME NEW t \in Threads, Combine(t)
      PROVE  UNCHANGED <<infos, size, held>>
  BY <1>3 DEF Combine, CombineCall, CombineAcquire, CombineCheck,
       CombineCheckEnd, CombineVisit, CombineEnd
<1>4. ASSUME NEW t \in Threads, Combine(t)
      PROVE  \A u \in Threads : pc[u] = "release" => pc'[u] = "release" /\ cursor'[u] = cursor[u]
  BY <1>0, <1>4 DEF Combine, CombineCall, CombineAcquire, CombineCheck,
       CombineCheckEnd, CombineVisit, CombineEnd, TypeOK, Goto
<1>5. ASSUME NEW t \in Threads, LockClaim(t)
      PROVE  \A i \in Published' : i \in locked' =>
               \E u \in Threads : threadId'[i] = u /\ InHand(u, i)'
  <2>1. /\ cursor[t] \in SlotIds /\ threadId[cursor[t]] = t
        /\ \A u \in Threads : pc'[u] = IF u = t THEN "idle" ELSE pc[u]
        /\ pc[t] = "claim"
    BY SMTT(30), <1>0, <1>5, <1>n, BoundsAssumption DEF LockClaim, ScanState, IsFreeSlotOf, TypeOK, Goto, SlotIds
  <2>2. \A u \in Threads : \A i \in SlotIds :
          held'[u][i] = IF u = t /\ i = cursor[t] THEN held[u][i] + 1 ELSE held[u][i]
    BY <1>0, <1>5, <2>1 DEF LockClaim, TypeOK
  <2>3. held'[t][cursor[t]] > 0
    BY <1>n, <2>1, <2>2
  <2>4. UNCHANGED <<threadId, size, cursor>> /\ locked' = locked \cup {cursor[t]}
    BY <1>5 DEF LockClaim
  <2> QED
    BY <1>h, <1>n, <2>1, <2>2, <2>3, <2>4 DEF Published
<1>6. ASSUME NEW t \in Threads, NEW s \in Stores, LockStore(t, s)
      PROVE  \A i \in Published' : i \in locked' =>
               \E u \in Threads : threadId'[i] = u /\ InHand(u, i)'
  <2>1. /\ pc[t] = "publish" /\ MayStore(t, s) /\ cursor[t] = size
        /\ UNCHANGED <<held, cursor>>
        /\ \A u \in Threads : u # t => pc'[u] = pc[u]
        /\ pc'[t] = IF pending[t] = {s} THEN "release" ELSE "publish"
    BY <1>0, <1>6 DEF LockStore, PushState, TypeOK, Goto
  <2>2. \A i \in Published : i # size
    BY <1>n DEF Published
  <2>3. CASE s = "last"
    BY <1>h, <1>6, <2>1, <2>3 DEF LockStore, Published
  <2>4. CASE s = "element"
    <3>1. size' = size /\ threadId' = [threadId EXCEPT ![size] = t]
          /\ locked' = locked \cup {size}
      BY <1>6, <2>1, <2>4 DEF LockStore
    <3>2. \A i \in Published : threadId'[i] = threadId[i] /\ (i \in locked' => i \in locked)
      BY <1>0, <1>n, <2>2, <3>1 DEF TypeOK
    <3> QED
      BY <1>h, <2>1, <3>1, <3>2 DEF Published
  <2>5. CASE s = "size"
    <3>1. UNCHANGED infos /\ pending[t] = {"size"} /\ pc'[t] = "release"
      BY <1>6, <2>1, <2>5 DEF LockStore, MayStore
    <3>2. threadId[size] = t
      BY <1>0, <2>1, <3>1 DEF PushState
    <3>3. \A i \in Published' : i \in Published \/ i = size
      BY <1>n, <1>6, <2>5 DEF LockStore, Published
    <3> QED
      BY <1>h, <2>1, <3>1, <3>2, <3>3
  <2> QED BY <2>3, <2>4, <2>5 DEF Stores
<1>7. ASSUME NEW t \in Threads, LockRelease(t)
      PROVE  \A i \in Published' : i \in locked' =>
               \E u \in Threads : threadId'[i] = u /\ InHand(u, i)'
  <2>1. /\ cursor[t] \in SlotIds
        /\ \A u \in Threads : pc'[u] = IF u = t THEN "idle" ELSE pc[u]
    BY <1>0, <1>7, <1>n, BoundsAssumption DEF LockRelease, PushState, TypeOK, Goto, SlotIds
  <2>2. \A u \in Threads : \A i \in SlotIds :
          held'[u][i] = IF u = t /\ i = cursor[t] THEN held[u][i] + 1 ELSE held[u][i]
    BY <1>0, <1>7, <2>1 DEF LockRelease, TypeOK
  <2>3. held'[t][cursor[t]] > 0
    BY <1>n, <2>1, <2>2
  <2>4. UNCHANGED <<infos, size, cursor>>
    BY <1>7 DEF LockRelease
  <2> QED
    BY <1>h, <1>n, <2>1, <2>2, <2>3, <2>4 DEF Published
<1>8. ASSUME NEW t \in Threads, NEW j \in SlotIds, Unlock(t, j)
      PROVE  \A i \in Published' : i \in locked' =>
               \E u \in Threads : threadId'[i] = u /\ InHand(u, i)'
  <2>1. \A u \in Threads : \A i \in SlotIds :
          held'[u][i] = IF u = t /\ i = j THEN held[u][i] - 1 ELSE held[u][i]
    BY <1>0, <1>8 DEF Unlock, TypeOK
  <2>2. UNCHANGED <<threadId, size, cursor, pc>> /\ locked' = locked \ {j}
    BY <1>8 DEF Unlock
  <2> QED
    BY <1>h, <1>n, <2>1, <2>2 DEF Published
<1>9. CASE ClearQuiescent
  BY <1>9 DEF ClearQuiescent, Wipe, Published
<1>10. CASE UNCHANGED vars
  BY <1>q, <1>10 DEF vars
<1> HIDE DEF InHand, storage, infos, seen
<1> QED
  BY <1>q, <1>1, <1>2, <1>3, <1>4, <1>5, <1>6, <1>7, <1>8, <1>9, <1>10 DEF Next, Step, Lock

\* The new storage has no flag up.
LEMMA InitLockedHeld == Init => LockedHeld
BY DEF Init, LockedHeld

\* A slot that is flagged is held or about to be given.
THEOREM HeldInvariance ==
  ASSUME Ordered = TRUE
  PROVE  Spec => []LockedHeld
<1>1. Init => LockedHeld
  BY InitLockedHeld
<1>2. IInv /\ IInv' /\ ScanInv /\ LockedHeld /\ [Next]_vars => LockedHeld'
  BY LockedHeldStep
<1> QED
  BY <1>1, <1>2, Invariance, ScanInvariance, PTL DEF Spec

\* The row of slots as ThreadSlots sees it.
Owner == [i \in 1 .. size |-> threadId[i - 1]]
InUse == [t \in Threads |-> SlotsInUse(t)]

\* The row of owners is a sequence as long as the storage.
LEMMA OwnerRow ==
  ASSUME IInv
  PROVE  /\ size \in Nat /\ Len(Owner) = size /\ DOMAIN Owner = 1 .. size
         /\ Owner \in Seq(Threads \cup {NoThread})
         /\ \A i \in 1 .. size : Owner[i] = threadId[i - 1] /\ i - 1 \in SlotIds
<1>1. size \in Nat /\ size <= MaxSlots /\ MaxSlots \in Nat
  BY BoundsAssumption, Parts DEF TypeOK
<1>2. \A i \in 1 .. size : i - 1 \in SlotIds
  BY <1>1 DEF SlotIds
<1>3. \A i \in 1 .. size : threadId[i - 1] \in Threads \cup {NoThread}
  BY <1>2, Parts DEF TypeOK
<1> QED
  BY <1>1, <1>2, <1>3 DEF Owner

\* A step that changes neither the row nor what is in use is invisible.
LEMMA SameSlots ==
  ASSUME IInv, UNCHANGED size,
         \A i \in SlotIds : i < size => threadId'[i] = threadId[i],
         \A t \in Threads : SlotsInUse(t)' = SlotsInUse(t)
  PROVE  UNCHANGED <<Owner, InUse>>
<1>1. \A i \in 1 .. size : i - 1 \in SlotIds /\ i - 1 < size
  BY OwnerRow
<1> QED
  BY <1>1 DEF Owner, InUse

\* Every step of tls is a step of ThreadSlots or nothing to it.
LEMMA RefinementStep ==
  ASSUME IInv, IInv', ScanInv, LockedHeld, [Next]_vars, Ordered = TRUE
  PROVE  [Abstract!Next]_<<Owner, InUse>>
<1>0. TypeOK /\ MutexOwner /\ PushState /\ ScanState /\ HandleLocked /\ SlotExclusive
  BY Parts
<1>n. /\ size \in Nat /\ \A u \in Threads : cursor[u] \in Nat
      /\ \A i \in Published : i \in SlotIds
      /\ \A u \in Threads : \A i \in SlotIds : held[u][i] \in Nat
      /\ SlotIds \subseteq Nat
  BY <1>0, BoundsAssumption DEF TypeOK, Published, SlotIds
<1>o. /\ Len(Owner) = size /\ DOMAIN Owner = 1 .. size
      /\ Owner \in Seq(Threads \cup {NoThread})
      /\ \A i \in 1 .. size : Owner[i] = threadId[i - 1] /\ i - 1 \in SlotIds
  BY OwnerRow
<1>a. /\ Abstract!Data = 1 .. Len(Owner)
      /\ \A t \in Threads : Abstract!Free(t) = {i \in Abstract!Data : Owner[i] = t} \ InUse[t]
  BY DEF Abstract!Data, Abstract!Free, Owner, InUse
<1>b. \A t \in Threads, i \in SlotIds :
        i + 1 \in SlotsInUse(t) <=> held[t][i] > 0 \/ (pc[t] = "release" /\ cursor[t] = i)
  BY <1>n DEF SlotsInUse
<1> USE DEF storage, infos, seen
\* The steps that ThreadSlots does not see.
<1>1. ASSUME UNCHANGED size,
             \A i \in SlotIds : i < size => threadId'[i] = threadId[i],
             \A t \in Threads : /\ held'[t] = held[t]
                                /\ pc[t] = "release" <=> pc'[t] = "release"
                                /\ pc[t] = "release" => cursor'[t] = cursor[t]
      PROVE  UNCHANGED <<Owner, InUse>>
  <2>1. \A t \in Threads : SlotsInUse(t)' = SlotsInUse(t)
    BY <1>1 DEF SlotsInUse
  <2> QED
    BY <1>1, <2>1, SameSlots
<1>2. ASSUME NEW t \in Threads,
             LockReadSize(t) \/ LockReadBegin(t) \/ LockScan(t) \/ LockScanEnd(t)
             \/ LockAcquire(t) \/ LockPushData(t)
      PROVE  UNCHANGED <<Owner, InUse>>
  <2>1. UNCHANGED <<infos, size, held>>
    BY <1>2 DEF LockReadSize, LockReadBegin, LockScan, LockScanEnd, LockAcquire, LockPushData
  <2>2. \A u \in Threads : /\ pc[u] = "release" <=> pc'[u] = "release"
                           /\ pc[u] = "release" => cursor'[u] = cursor[u]
    BY <1>0, <1>2 DEF LockReadSize, LockReadBegin, LockScan, LockScanEnd, LockAcquire,
       LockPushData, TypeOK, Goto
  <2> QED
    BY <1>1, <2>1, <2>2
<1>3. ASSUME NEW t \in Threads, Combine(t) PROVE UNCHANGED <<Owner, InUse>>
  <2>1. UNCHANGED <<infos, size, held>>
    BY <1>3 DEF Combine, CombineCall, CombineAcquire, CombineCheck,
       CombineCheckEnd, CombineVisit, CombineEnd
  <2>2. \A u \in Threads : /\ pc[u] = "release" <=> pc'[u] = "release"
                           /\ pc[u] = "release" => cursor'[u] = cursor[u]
    BY <1>0, <1>3 DEF Combine, CombineCall, CombineAcquire, CombineCheck,
       CombineCheckEnd, CombineVisit, CombineEnd, TypeOK, Goto
  <2> QED
    BY <1>1, <2>1, <2>2
\* A slot is claimed: Reuse.
<1>4. ASSUME NEW t \in Threads, LockClaim(t) PROVE Abstract!Reuse(t)
  <2> DEFINE c == cursor[t]
  <2>1. /\ c \in SlotIds /\ c < size /\ threadId[c] = t /\ c \notin locked /\ pc[t] = "claim"
        /\ \A u \in Threads : pc'[u] = IF u = t THEN "idle" ELSE pc[u]
    BY SMTT(30), <1>0, <1>4, <1>n, BoundsAssumption DEF LockClaim, ScanState, IsFreeSlotOf, TypeOK, Goto, SlotIds
  <2>2. \A u \in Threads : \A i \in SlotIds :
          held'[u][i] = IF u = t /\ i = c THEN held[u][i] + 1 ELSE held[u][i]
    BY <1>0, <1>4, <2>1 DEF LockClaim, TypeOK
  <2>3. UNCHANGED <<threadId, size, cursor>>
    BY <1>4 DEF LockClaim
  <2> HIDE DEF c
  <2>4. held[t][c] = 0
    BY <1>0, <1>n, <2>1 DEF HandleLocked
  <2>5. c + 1 \in Abstract!Free(t)
    <3>1. c + 1 \in 1 .. size /\ (c + 1) - 1 = c
      BY <1>n, <2>1
    <3>2. c + 1 \notin SlotsInUse(t)
      BY <1>b, <2>1, <2>4
    <3> QED
      BY <1>a, <1>o, <2>1, <3>1, <3>2 DEF InUse
  <2>6. \A u \in Threads :
          SlotsInUse(u)' = IF u = t THEN SlotsInUse(u) \cup {c + 1} ELSE SlotsInUse(u)
    <3> TAKE u \in Threads
    <3>1. ASSUME NEW j \in SlotIds
          PROVE  held'[u][j] > 0 <=> held[u][j] > 0 \/ (u = t /\ j = c)
      <4>1. CASE u = t /\ j = c
        BY <2>2, <2>4, <4>1
      <4>2. CASE ~(u = t /\ j = c)
        BY <2>2, <4>2
      <4> QED BY <4>1, <4>2
    <3>2. pc[u] = "release" <=> pc'[u] = "release"
      BY <2>1
    <3> QED
      BY <2>1, <2>3, <3>1, <3>2 DEF SlotsInUse
  <2>7. InUse' = [InUse EXCEPT ![t] = @ \cup {c + 1}]
    BY <2>6 DEF InUse
  <2>8. Owner' = Owner
    BY <2>3 DEF Owner
  <2> QED
    BY <2>5, <2>7, <2>8 DEF Abstract!Reuse, InUse, Owner
\* The size is stored: Grow.
<1>5. ASSUME NEW t \in Threads, NEW s \in Stores, LockStore(t, s)
      PROVE  UNCHANGED <<Owner, InUse>> \/ Abstract!Grow(t)
  <2>1. /\ pc[t] = "publish" /\ MayStore(t, s) /\ cursor[t] = size /\ size \in SlotIds
        /\ UNCHANGED <<held, cursor>>
        /\ \A u \in Threads : u # t => pc'[u] = pc[u]
        /\ pc'[t] = IF pending[t] = {s} THEN "release" ELSE "publish"
        /\ "size" \in pending[t] /\ s \in pending[t]
    BY <1>0, <1>5, <1>n, BoundsAssumption DEF LockStore, MayStore, PushState, TypeOK, Goto, SlotIds
  <2>2. CASE s # "size"
    <3>1. size' = size
      BY <1>5, <2>2 DEF LockStore
    <3>2. \A i \in SlotIds : i < size => threadId'[i] = threadId[i]
      BY <1>0, <1>5, <1>n, <2>1 DEF LockStore, TypeOK
    <3>3. pc'[t] = "publish"
      BY <2>1, <2>2
    <3> QED
      BY <1>1, <2>1, <3>1, <3>2, <3>3
  <2>3. CASE s = "size"
    <3>1. UNCHANGED infos /\ pending[t] = {"size"} /\ pc'[t] = "release" /\ size' = size + 1
      BY <1>5, <2>1, <2>3 DEF LockStore, MayStore
    <3>2. threadId[size] = t
      BY <1>0, <2>1, <3>1 DEF PushState
    <3>3. Abstract!Free(t) = {}
      <4> SUFFICES ASSUME NEW i \in 1 .. size, Owner[i] = t, i \notin SlotsInUse(t)
                   PROVE  FALSE
        BY <1>a, <1>o DEF InUse
      <4>1. i - 1 \in Published /\ i - 1 \in SlotIds /\ (i - 1) + 1 = i /\ threadId[i - 1] = t
        BY <1>n, <1>o DEF Published
      <4>2. i - 1 \in locked
        BY <2>1, <4>1 DEF ScanInv, PassedState, IsFreeSlotOf
      <4>3. held[t][i - 1] > 0 \/ (pc[t] = "release" /\ cursor[t] = i - 1)
        BY <4>1, <4>2 DEF LockedHeld
      <4>4. i \in SlotsInUse(t)
        BY <1>b, <4>1, <4>3
      <4> QED BY <4>4
    <3>4. \A u \in Threads :
            SlotsInUse(u)' = IF u = t THEN SlotsInUse(u) \cup {size + 1} ELSE SlotsInUse(u)
      BY <1>n, <2>1, <3>1 DEF SlotsInUse
    <3>5. InUse' = [InUse EXCEPT ![t] = @ \cup {Len(Owner) + 1}]
      BY <1>o, <3>4 DEF InUse
    <3>6. Owner' = Append(Owner, t)
      <4>1. /\ Append(Owner, t) \in Seq(Threads \cup {NoThread})
            /\ Len(Append(Owner, t)) = size + 1
            /\ \A i \in 1 .. size : Append(Owner, t)[i] = threadId[i - 1]
            /\ Append(Owner, t)[size + 1] = t
        BY <1>n, <1>o
      <4>2. /\ Owner' \in Seq(Threads \cup {NoThread}) /\ Len(Owner') = size + 1
            /\ \A i \in 1 .. size + 1 : Owner'[i] = threadId[i - 1]
        <5>1. Owner' = [i \in 1 .. size + 1 |-> threadId[i - 1]]
          BY <3>1 DEF Owner
        <5>2. \A i \in 1 .. size + 1 : i - 1 \in SlotIds
          <6>1. size \in Nat /\ size <= MaxSlots - 1
            BY <1>n, <2>1, BoundsAssumption DEF SlotIds
          <6> QED
            BY <6>1, BoundsAssumption DEF SlotIds
        <5>3. \A i \in 1 .. size + 1 : threadId[i - 1] \in Threads \cup {NoThread}
          BY <1>0, <5>2 DEF TypeOK
        <5>4. size + 1 \in Nat
          BY <1>n
        <5> QED
          BY <5>1, <5>3, <5>4
      <4>3. \A i \in 1 .. size + 1 : i \in 1 .. size \/ (i = size + 1 /\ i - 1 = size)
        BY <1>n
      <4>4. \A i \in 1 .. size + 1 : Append(Owner, t)[i] = Owner'[i]
        BY <3>2, <4>1, <4>2, <4>3
      <4> QED
        BY <4>1, <4>2, <4>4, SeqEqual
    <3> QED
      BY <3>3, <3>5, <3>6 DEF Abstract!Grow, Owner, InUse
  <2> QED BY <2>2, <2>3
\* The mutex is given back: nobody sees it.
<1>6. ASSUME NEW t \in Threads, LockRelease(t) PROVE UNCHANGED <<Owner, InUse>>
  <2>1. /\ cursor[t] \in SlotIds /\ held[t][cursor[t]] = 0 /\ pc[t] = "release"
        /\ \A u \in Threads : pc'[u] = IF u = t THEN "idle" ELSE pc[u]
    BY <1>0, <1>6, <1>n, BoundsAssumption DEF LockRelease, PushState, TypeOK, Goto, SlotIds
  <2>2. \A u \in Threads : \A i \in SlotIds :
          held'[u][i] = IF u = t /\ i = cursor[t] THEN held[u][i] + 1 ELSE held[u][i]
    BY <1>0, <1>6, <2>1 DEF LockRelease, TypeOK
  <2>3. UNCHANGED <<infos, size, cursor>>
    BY <1>6 DEF LockRelease
  <2>4. \A u \in Threads : SlotsInUse(u)' = SlotsInUse(u)
    <3> TAKE u \in Threads
    <3>1. \A j \in SlotIds : held'[u][j] > 0 <=> held[u][j] > 0 \/ (u = t /\ j = cursor[t])
      BY <1>n, <2>1, <2>2
    <3> QED
      BY <2>1, <2>3, <3>1 DEF SlotsInUse
  <2> QED
    BY <2>3, <2>4, SameSlots
\* A lock is given back: Release.
<1>7. ASSUME NEW t \in Threads, NEW i \in SlotIds, Unlock(t, i) PROVE Abstract!Release(t)
  <2>1. /\ pc[t] = "idle" /\ held[t][i] = 1 /\ UNCHANGED <<threadId, size, cursor, pc>>
        /\ \A u \in Threads : \A j \in SlotIds :
             held'[u][j] = IF u = t /\ j = i THEN held[u][j] - 1 ELSE held[u][j]
    BY <1>0, <1>7, <1>n DEF Unlock, TypeOK, SlotExclusive
  <2>2. \A u \in Threads :
          SlotsInUse(u)' = IF u = t THEN SlotsInUse(u) \ {i + 1} ELSE SlotsInUse(u)
    <3> TAKE u \in Threads
    <3>1. \A j \in SlotIds : held'[u][j] > 0 <=> held[u][j] > 0 /\ ~(u = t /\ j = i)
      BY <1>n, <2>1
    <3>2. \A j \in SlotIds : j + 1 = i + 1 => j = i
      BY <1>n
    <3> QED
      BY <2>1, <3>1, <3>2 DEF SlotsInUse
  <2>3. i + 1 \in InUse[t]
    BY <1>b, <2>1 DEF InUse
  <2>4. InUse' = [InUse EXCEPT ![t] = @ \ {i + 1}]
    BY <2>2 DEF InUse
  <2>5. Owner' = Owner
    BY <2>1 DEF Owner
  <2> QED
    BY <2>3, <2>4, <2>5 DEF Abstract!Release, InUse, Owner
\* The storage is cleared: Reset.
<1>8. ASSUME ClearQuiescent PROVE Abstract!Reset
  <2>1. /\ \A t \in Threads : pc[t] = "idle" /\ \A i \in SlotIds : held[t][i] = 0
        /\ size' = 0 /\ UNCHANGED <<held, pc, cursor>>
    BY <1>8 DEF ClearQuiescent, Wipe
  <2>2. \A t \in Threads : SlotsInUse(t) = {} /\ SlotsInUse(t)' = {}
    BY <2>1 DEF SlotsInUse
  <2>3. Owner' = <<>>
    BY <2>1 DEF Owner
  <2> QED
    BY <2>2, <2>3 DEF Abstract!Reset, Owner, InUse
<1>9. ASSUME UNCHANGED vars PROVE UNCHANGED <<Owner, InUse>>
  BY <1>1, <1>9 DEF vars
<1> HIDE DEF storage, infos, seen
<1>10. Abstract!Next \/ UNCHANGED <<Owner, InUse>>
  <2>1. ASSUME NEW t \in Threads, Step(t) PROVE Abstract!Next \/ UNCHANGED <<Owner, InUse>>
    <3>1. Abstract!Reuse(t) \/ Abstract!Grow(t) \/ Abstract!Release(t) => Abstract!Next
      BY DEF Abstract!Next
    <3> QED
      BY <2>1, <1>2, <1>3, <1>4, <1>5, <1>6, <1>7, <3>1 DEF Step, Lock
  <2>2. Abstract!Reset => Abstract!Next
    BY DEF Abstract!Next
  <2> QED
    BY <2>1, <2>2, <1>8, <1>9 DEF Next
<1> QED
  BY <1>10

\* The new storage is an empty row.
LEMMA RefinementInit == Init => Abstract!Init
<1> SUFFICES ASSUME Init PROVE Abstract!Init
  OBVIOUS
<1>1. \A t \in Threads : SlotsInUse(t) = {}
  BY DEF Init, SlotsInUse
<1>2. Owner = <<>>
  BY DEF Init, Owner
<1> QED
  BY <1>1, <1>2 DEF Abstract!Init, Owner

\* Scanning without the mutex, appending store by store and walking the storage
\* are invisible: tls implements a row of slots bound to threads, however many.
THEOREM Refinement ==
  ASSUME Ordered = TRUE
  PROVE  Spec => ImplementsThreadSlots
<1>1. Init => Abstract!Init
  BY RefinementInit
<1>2. IInv /\ IInv' /\ ScanInv /\ LockedHeld /\ [Next]_vars
        => [Abstract!Next]_<<Owner, InUse>>
  BY RefinementStep
<1>3. IInv /\ IInv' /\ ScanInv /\ LockedHeld /\ [Next]_vars
        => [Abstract!Next]_<<[i \in 1 .. size |-> threadId[i - 1]],
                             [t \in Threads |-> SlotsInUse(t)]>>
  BY <1>2 DEF Owner, InUse
<1> QED
  BY <1>1, <1>3, Invariance, ScanInvariance, HeldInvariance, PTL
  DEF Spec, ImplementsThreadSlots, Abstract!Spec

-----------------------------------------------------------------------------
(* How many slots a thread has.                                            *)

\* The sums over the subsets of f's domain, as the fold of Nesting takes them.
Sums(f) ==
  CHOOSE g : g = [s \in SUBSET DOMAIN f |->
                    IF s = {} THEN 0
                    ELSE f[CHOOSE x \in s : TRUE] + g[s \ {CHOOSE x \in s : TRUE}]]

Total(f) == Sums(f)[DOMAIN f]

\* A thread nests as many locks as the sum of its handles.
LEMMA NestingIs == \A t : Nesting(t) = Total(held[t])
BY DEF Nesting, FoldFunction, FoldFunctionOnSet, MapThenFoldSet, Total, Sums

\* h gives the sum of f over each subset of S.
AreSums(h, f, S) ==
  /\ h \in [SUBSET S -> Nat]
  /\ h[{}] = 0
  /\ \A s \in SUBSET S : s # {} => \E x \in s : h[s] = f[x] + h[s \ {x}]

\* The fold's sums are what their definition says.
LEMMA SumsIs ==
  ASSUME NEW S, IsFiniteSet(S), NEW f \in [S -> Nat]
  PROVE  AreSums(Sums(f), f, S)
<1> DEFINE pick == [s \in SUBSET S |-> CHOOSE x \in s : TRUE]
           step == [x \in S |-> [v \in Nat |-> f[x] + v]]
           Is(g) == g = [s \in SUBSET S |->
                    IF s = {} THEN 0
                    ELSE f[CHOOSE x \in s : TRUE] + g[s \ {CHOOSE x \in s : TRUE}]]
<1>1. \A s \in SUBSET S : s # {} => pick[s] \in s OBVIOUS
<1>2. step \in StepsOver(S, Nat) BY DEF StepsOver
<1>3. PICK g : IsFold(g, S, Nat, 0, step, pick)
  <2> HIDE DEF pick, step
  <2> QED BY <1>1, <1>2, FoldExists
<1>4. Is(g)
  <2>1. /\ g \in [SUBSET S -> Nat]
        /\ \A s \in SUBSET S : g[s] = IF s = {} THEN 0 ELSE step[pick[s]][g[s \ {pick[s]}]]
    BY <1>3 DEF IsFold
  <2>2. ASSUME NEW s \in SUBSET S
        PROVE  g[s] = IF s = {} THEN 0
                      ELSE f[CHOOSE x \in s : TRUE] + g[s \ {CHOOSE x \in s : TRUE}]
    <3>1. CASE s = {} BY <2>1, <3>1
    <3>2. CASE s # {}
      <4>1. pick[s] = (CHOOSE x \in s : TRUE) /\ pick[s] \in S BY <1>1, <3>2
      <4>2. g[s \ {pick[s]}] \in Nat BY <2>1
      <4>3. step[pick[s]][g[s \ {pick[s]}]] = f[pick[s]] + g[s \ {pick[s]}]
        BY <4>1, <4>2
      <4>4. g[s] = step[pick[s]][g[s \ {pick[s]}]] BY <2>1, <3>2
      <4> HIDE DEF pick, step
      <4> QED BY <3>2, <4>1, <4>3, <4>4
    <3> QED BY <3>1, <3>2
  <2> QED BY <2>1, <2>2
<1>5. Sums(f) = CHOOSE h : Is(h) BY DEF Sums
<1>6. Is(Sums(f))
  <2> HIDE DEF Is
  <2> QED BY <1>4, <1>5
<1> DEFINE h == Sums(f)
<1>7. \A s \in SUBSET S : h[s] = IF s = {} THEN 0
                      ELSE f[CHOOSE x \in s : TRUE] + h[s \ {CHOOSE x \in s : TRUE}]
  <2> HIDE DEF h
  <2> QED BY <1>6 DEF h
<1>8. \A s \in SUBSET S : s # {} => \E x \in s : h[s] = f[x] + h[s \ {x}]
  <2> HIDE DEF h
  <2> SUFFICES ASSUME NEW s \in SUBSET S, s # {}
               PROVE  \E x \in s : h[s] = f[x] + h[s \ {x}]
    OBVIOUS
  <2>1. (CHOOSE x \in s : TRUE) \in s OBVIOUS
  <2> QED BY <1>7, <2>1
<1>9. h[{}] = 0
  <2> HIDE DEF h
  <2> QED BY <1>7
<1>10. h \in [SUBSET S -> Nat]
  <2>1. DOMAIN h = SUBSET S /\ h = [s \in SUBSET S |-> h[s]]
    <3> HIDE DEF h
    <3> QED BY <1>6 DEF h
  <2> HIDE DEF h
  <2> DEFINE T == {n \in Nat : \A s \in SUBSET S : Cardinality(s) = n => h[s] \in Nat}
  <2>c. \A s \in SUBSET S : IsFiniteSet(s) /\ Cardinality(s) \in Nat
    BY FS_Subset, FS_CardinalityType
  <2>2. 0 \in T
    <3> \A s \in SUBSET S : Cardinality(s) = 0 => s = {} BY <2>c, FS_EmptySet
    <3> QED BY <1>9
  <2>3. ASSUME NEW n \in Nat, n \in T PROVE n + 1 \in T
    <3> SUFFICES ASSUME NEW s \in SUBSET S, Cardinality(s) = n + 1 PROVE h[s] \in Nat
      OBVIOUS
    <3>1. s # {} BY FS_EmptySet
    <3>2. PICK x \in s : h[s] = f[x] + h[s \ {x}] BY <1>8, <3>1
    <3>3. Cardinality(s \ {x}) = n
      <4>1. IsFiniteSet(s) BY <2>c
      <4>2. Cardinality(s \ {x}) = Cardinality(s) - 1 BY <4>1, FS_RemoveElement
      <4> QED BY <4>2
    <3>4. h[s \ {x}] \in Nat BY <2>3, <3>3
    <3>5. f[x] \in Nat OBVIOUS
    <3> QED BY <3>2, <3>4, <3>5
  <2>4. Nat \subseteq T
    <3> HIDE DEF T
    <3> QED BY <2>2, <2>3, NumberInduction
  <2>5. \A s \in SUBSET S : h[s] \in Nat BY <2>4, <2>c
  <2> QED BY <2>1, <2>5
<1> HIDE DEF h
<1>11. AreSums(h, f, S) BY <1>8, <1>9, <1>10 DEF AreSums
<1> QED BY <1>11 DEF h

\* A thread with handles on so many slots nests at least as many locks.
LEMMA HandlesCount ==
  ASSUME NEW S, IsFiniteSet(S), NEW f \in [S -> Nat]
  PROVE  Total(f) \in Nat /\ Cardinality({i \in S : f[i] > 0}) <= Total(f)
<1> DEFINE h == Sums(f)
           Used(s) == {i \in s : f[i] > 0}
           T == {n \in Nat : \A s \in SUBSET S :
                   Cardinality(s) = n => Cardinality(Used(s)) <= h[s]}
<1>0. AreSums(h, f, S) BY SumsIs
<1> HIDE DEF h
<1>1. /\ h \in [SUBSET S -> Nat] /\ h[{}] = 0
      /\ \A s \in SUBSET S : s # {} => \E x \in s : h[s] = f[x] + h[s \ {x}]
  BY <1>0 DEF AreSums
<1>2. \A s \in SUBSET S : /\ IsFiniteSet(s) /\ Cardinality(s) \in Nat
                          /\ IsFiniteSet(Used(s)) /\ Cardinality(Used(s)) \in Nat
  <2> \A s \in SUBSET S : Used(s) \in SUBSET S OBVIOUS
  <2> QED BY FS_Subset, FS_CardinalityType
<1>3. 0 \in T
  <2>1. \A s \in SUBSET S : Cardinality(s) = 0 => s = {} BY <1>2, FS_EmptySet
  <2>2. Used({}) = {} /\ Cardinality({}) = 0 BY FS_EmptySet
  <2>3. Cardinality(Used({})) <= h[{}] BY <1>1, <2>2
  <2> HIDE DEF Used
  <2> QED BY <2>1, <2>3
<1>4. ASSUME NEW n \in Nat, n \in T PROVE n + 1 \in T
  <2> SUFFICES ASSUME NEW s \in SUBSET S, Cardinality(s) = n + 1
               PROVE  Cardinality(Used(s)) <= h[s]
    OBVIOUS
  <2>1. s # {} BY FS_EmptySet
  <2>2. PICK x \in s : h[s] = f[x] + h[s \ {x}] BY <1>1, <2>1
  <2> DEFINE r == s \ {x}
  <2>3. r \in SUBSET S /\ Cardinality(r) = n
    <3>1. IsFiniteSet(s) BY <1>2
    <3>2. Cardinality(s \ {x}) = Cardinality(s) - 1 BY <3>1, FS_RemoveElement
    <3> QED BY <3>2
  <2>4. Cardinality(Used(r)) <= h[r] /\ h[r] \in Nat /\ Cardinality(Used(r)) \in Nat
    <3> HIDE DEF r, Used
    <3> QED BY <1>1, <1>2, <1>4, <2>3
  <2>5. f[x] \in Nat /\ h[s] = f[x] + h[r] BY <2>2
  <2>6. CASE f[x] = 0
    <3> Used(s) = Used(r) BY <2>6
    <3> QED BY <2>4, <2>5, <2>6
  <2>7. CASE f[x] > 0
    <3>1. Used(s) = Used(r) \cup {x} /\ x \notin Used(r) BY <2>7
    <3>2. Cardinality(Used(s)) = Cardinality(Used(r)) + 1
      <4> IsFiniteSet(Used(r)) BY <1>2, <2>3
      <4> HIDE DEF Used, r
      <4> QED BY <3>1, FS_AddElement
    <3> HIDE DEF Used, r
    <3> QED BY <2>4, <2>5, <2>7, <3>2
  <2> HIDE DEF Used, r
  <2> QED BY <2>5, <2>6, <2>7
<1>5. Nat \subseteq T
  <2> HIDE DEF T
  <2> QED BY <1>3, <1>4, NumberInduction
<1>6. S \in SUBSET S /\ Cardinality(S) \in Nat BY FS_CardinalityType
<1>7. Cardinality(Used(S)) <= h[S] /\ h[S] \in Nat
  <2> HIDE DEF Used, h
  <2> QED BY <1>1, <1>5, <1>6
<1>8. Total(f) = h[S] BY DEF Total, h
<1> QED BY <1>7, <1>8

\* The slots that are thread t's.
SlotsOf(t) == {i \in Published : threadId[i] = t}

\* A thread that looks for a slot nests fewer locks than it may: it calls
\* nothing else until lock() returns.
NestState ==
  \A t \in Threads :
    pc[t] \in {"begin", "scan", "claim", "wait", "push", "publish"} => Nesting(t) < MaxNest

SlotsInv == SlotsBounded /\ NestState

\* The new storage has no slots.
LEMMA InitSlotsInv == Init => SlotsInv
<1> SUFFICES ASSUME Init PROVE SlotsInv
  OBVIOUS
<1>1. Published = {} BY DEF Init, Published
<1>2. NestState BY DEF Init, NestState
<1>3. \A t \in Threads : {i \in Published : threadId[i] = t} = {} BY <1>1
<1>4. Cardinality({}) = 0 BY FS_EmptySet
<1>5. SlotsBounded BY <1>3, <1>4, BoundsAssumption DEF SlotsBounded
<1> QED BY <1>2, <1>5 DEF SlotsInv

\* Before the append every slot of the thread is in its hands, and it nests
\* fewer locks than it may: one more slot is within the bound.
LEMMA RoomForSlot ==
  ASSUME IInv, ScanInv, LockedHeld, NestState, NEW t \in Threads, pc[t] = "publish"
  PROVE  /\ IsFiniteSet(SlotsOf(t))
         /\ Cardinality(SlotsOf(t)) \in Nat
         /\ Cardinality(SlotsOf(t)) < MaxNest
<1> DEFINE U == {i \in SlotIds : held[t][i] > 0}
<1>1. size \in Nat /\ size <= MaxSlots /\ Published \subseteq SlotIds /\ IsFiniteSet(SlotIds)
      /\ held[t] \in [SlotIds -> Nat]
  <2>1. size \in Nat /\ size <= MaxSlots /\ held[t] \in [SlotIds -> Nat]
    BY BoundsAssumption, Parts DEF TypeOK
  <2>2. Published \subseteq SlotIds BY <2>1, BoundsAssumption DEF Published, SlotIds
  <2>3. IsFiniteSet(SlotIds)
    <3> 0 \in Int /\ MaxSlots - 1 \in Int BY BoundsAssumption
    <3> QED BY FS_Interval DEF SlotIds
  <2> QED BY <2>1, <2>2, <2>3
<1>2. ASSUME NEW i \in SlotsOf(t) PROVE i \in U
  <2>1. i \in Published /\ threadId[i] = t BY DEF SlotsOf
  <2>2. ~IsFreeSlotOf(i, t) BY <2>1 DEF ScanInv, PassedState
  <2>3. i \in locked BY <2>1, <2>2 DEF IsFreeSlotOf
  <2>4. held[t][i] > 0 BY <2>1, <2>3 DEF LockedHeld
  <2> QED BY <1>1, <2>1, <2>4
<1>3. IsFiniteSet(U) /\ Cardinality(U) \in Nat BY <1>1, FS_Subset, FS_CardinalityType
<1>4. Total(held[t]) \in Nat /\ Cardinality(U) <= Total(held[t]) BY <1>1, HandlesCount
<1>5. Total(held[t]) < MaxNest BY NestingIs DEF NestState
<1>6. IsFiniteSet(SlotsOf(t)) /\ Cardinality(SlotsOf(t)) <= Cardinality(U)
  <2> SlotsOf(t) \subseteq U BY <1>2
  <2> HIDE DEF U
  <2> QED BY <1>3, FS_Subset
<1>7. Cardinality(SlotsOf(t)) \in Nat BY <1>6, FS_CardinalityType
<1> HIDE DEF U
<1> QED BY <1>3, <1>4, <1>5, <1>6, <1>7, BoundsAssumption

\* A thread's handles change only when lock() returns or it unlocks.
LEMMA NestStep ==
  ASSUME IInv, NestState, [Next]_vars
  PROVE  NestState'
<1> SUFFICES ASSUME NEW u \in Threads,
                    pc'[u] \in {"begin", "scan", "claim", "wait", "push", "publish"}
             PROVE  Nesting(u)' < MaxNest
  BY DEF NestState
<1>0. TypeOK BY Parts
<1>1. held'[u] = held[u]
      /\ (pc[u] \in {"begin", "scan", "claim", "wait", "push", "publish"}
          \/ Nesting(u) < MaxNest)
  <2> USE DEF TypeOK, storage, infos, seen, Goto
  <2>1. ASSUME NEW t \in Threads, Step(t)
        PROVE  held'[u] = held[u]
               /\ (pc[u] \in {"begin", "scan", "claim", "wait", "push", "publish"}
                   \/ Nesting(u) < MaxNest)
    <3>1. CASE t # u
      <4>1. pc'[u] = pc[u] /\ held'[u] = held[u]
        BY <1>0, <2>1, <3>1 DEF Step, Lock, Combine, LockReadSize, LockReadBegin, LockScan,
           LockClaim, LockScanEnd, LockAcquire, LockPushData, LockStore, LockRelease, Unlock,
           CombineCall, CombineAcquire, CombineCheck, CombineCheckEnd, CombineVisit, CombineEnd
      <4> QED BY <4>1
    <3>2. CASE t = u /\ LockReadSize(t) BY <3>2 DEF LockReadSize
    <3>3. CASE t = u /\ (LockReadBegin(t) \/ LockScan(t) \/ LockScanEnd(t) \/ LockAcquire(t)
                         \/ LockPushData(t) \/ \E s \in Stores : LockStore(t, s))
      BY <3>3 DEF LockReadBegin, LockScan, LockScanEnd, LockAcquire, LockPushData, LockStore
    <3>4. CASE t = u /\ (LockClaim(t) \/ LockRelease(t) \/ Combine(t)
                         \/ \E i \in SlotIds : Unlock(t, i))
      BY <1>0, <3>4 DEF LockClaim, LockRelease, Combine, Unlock, CombineCall,
         CombineAcquire, CombineCheck, CombineCheckEnd, CombineVisit, CombineEnd
    <3> QED BY <2>1, <3>1, <3>2, <3>3, <3>4 DEF Step, Lock
  <2>2. CASE ClearQuiescent BY <2>2 DEF ClearQuiescent
  <2>3. CASE UNCHANGED vars BY <2>3 DEF vars
  <2> QED BY <2>1, <2>2, <2>3 DEF Next
<1>2. Nesting(u) < MaxNest BY <1>1 DEF NestState
<1>3. Nesting(u) = Total(held[u]) BY NestingIs
<1>4. Nesting(u)' = Total(held[u])'
  <2>1. \A t : Nesting(t) = Total(held[t]) BY NestingIs
  <2>2. (\A t : Nesting(t) = Total(held[t]))' BY NestingIs, PTL
  <2> QED BY <2>2
<1>5. Total(held[u])' = Total(held[u])
  BY <1>1 DEF Total, Sums
<1> QED BY <1>2, <1>3, <1>4, <1>5

\* Only the store of the size gives a thread a slot more.
LEMMA SlotsStep ==
  ASSUME IInv, IInv', ScanInv, LockedHeld, SlotsInv, [Next]_vars, Ordered = TRUE
  PROVE  SlotsBounded'
<1>0. TypeOK BY Parts
<1>b. size \in Nat /\ MaxNest \in Nat /\ \A t \in Threads : cursor[t] \in Nat
  BY <1>0, BoundsAssumption DEF TypeOK
<1> SUFFICES ASSUME NEW u \in Threads PROVE Cardinality(SlotsOf(u)') <= MaxNest
  BY DEF SlotsBounded, SlotsOf
<1>s. Cardinality(SlotsOf(u)) <= MaxNest BY DEF SlotsInv, SlotsBounded, SlotsOf
<1>u. ASSUME UNCHANGED <<threadId, size>> PROVE Cardinality(SlotsOf(u)') <= MaxNest
  <2>1. SlotsOf(u)' = SlotsOf(u) BY <1>u DEF SlotsOf, Published
  <2> QED BY <1>s, <2>1
<1>1. ASSUME NEW t \in Threads, NEW s \in Stores, LockStore(t, s)
      PROVE  Cardinality(SlotsOf(u)') <= MaxNest
  <2>1. pc[t] = "publish" /\ cursor[t] = size
    BY <1>1, Parts DEF LockStore, PushState
  <2>2. CASE s = "last" BY <1>1, <1>u, <2>2 DEF LockStore, infos
  <2>3. CASE s = "element"
    <3>1. size' = size /\ threadId' = [threadId EXCEPT ![size] = t]
      BY <1>1, <2>1, <2>3 DEF LockStore
    <3>2. \A i \in Published : i # size /\ threadId'[i] = threadId[i]
      BY <1>0, <1>b, <3>1 DEF Published, TypeOK
    <3>3. SlotsOf(u)' = SlotsOf(u) BY <3>1, <3>2 DEF SlotsOf, Published
    <3> QED BY <1>s, <3>3
  <2>4. CASE s = "size"
    <3>1. size' = size + 1 /\ threadId' = threadId /\ pending[t] = {"size"}
      BY <1>1, <2>4 DEF LockStore, MayStore, infos
    <3>2. threadId[size] = t
      BY <2>1, <3>1, Parts DEF PushState
    <3>3. Published' = Published \cup {size} /\ size \notin Published
      BY <1>b, <3>1 DEF Published
    <3>4. CASE u # t
      <4>1. SlotsOf(u)' = SlotsOf(u) BY <3>1, <3>2, <3>3, <3>4 DEF SlotsOf
      <4> QED BY <1>s, <4>1
    <3>5. CASE u = t
      <4>1. SlotsOf(u)' = SlotsOf(u) \cup {size} /\ size \notin SlotsOf(u)
        BY <3>1, <3>2, <3>3, <3>5 DEF SlotsOf
      <4>2. /\ IsFiniteSet(SlotsOf(u)) /\ Cardinality(SlotsOf(u)) \in Nat
            /\ Cardinality(SlotsOf(u)) < MaxNest
        BY <2>1, <3>5, RoomForSlot DEF SlotsInv
      <4>3. Cardinality(SlotsOf(u)') = Cardinality(SlotsOf(u)) + 1
        BY <4>1, <4>2, FS_AddElement
      <4> QED BY <1>b, <4>2, <4>3
    <3> QED BY <3>4, <3>5
  <2> QED BY <2>2, <2>3, <2>4 DEF Stores
<1>2. CASE ClearQuiescent
  <2>1. size' = 0 BY <1>2 DEF ClearQuiescent, Wipe
  <2>2. SlotsOf(u)' = {} BY <2>1 DEF SlotsOf, Published
  <2> QED BY <1>b, <2>2, FS_EmptySet
<1>3. ASSUME NEW t \in Threads, Step(t), \A s \in Stores : ~LockStore(t, s)
      PROVE  UNCHANGED <<threadId, size>>
  BY <1>3 DEF Step, Lock, Combine, LockReadSize, LockReadBegin, LockScan,
     LockClaim, LockScanEnd, LockAcquire, LockPushData, LockRelease, Unlock,
     CombineCall, CombineAcquire, CombineCheck, CombineCheckEnd, CombineVisit, CombineEnd,
     storage, infos
<1>4. CASE UNCHANGED vars BY <1>4, <1>u DEF vars
<1> QED BY <1>1, <1>2, <1>3, <1>4, <1>u DEF Next

\* The storage never holds more slots for a thread than it nests locks,
\* however the threads interleave and whatever they append meanwhile.
THEOREM SlotsWithinNesting ==
  ASSUME Ordered = TRUE
  PROVE  Spec => []SlotsBounded
<1>1. Init => SlotsInv
  BY InitSlotsInv
<1>2. IInv /\ IInv' /\ ScanInv /\ LockedHeld /\ SlotsInv /\ [Next]_vars => SlotsInv'
  BY SlotsStep, NestStep DEF SlotsInv
<1>3. SlotsInv => SlotsBounded
  BY DEF SlotsInv
<1> QED
  BY <1>1, <1>2, <1>3, Invariance, ScanInvariance, HeldInvariance, PTL DEF Spec

=============================================================================
