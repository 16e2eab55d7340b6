--------------------------- MODULE TypeCacheProofs ---------------------------
(***************************************************************************)
(* The cache of type information is never read while it is written, and    *)
(* all goroutines are given one complete typeInfo for each type: proved    *)
(* for any goroutines and any types.                                       *)
(*                                                                         *)
(* The inductive invariant says who is inside the lock (LockInv), that     *)
(* entries are complete and filed under their own type (CachedInv), how    *)
(* far the only goroutine that builds has got, with no entry for its type  *)
(* yet (BuildInv), and that what a goroutine holds is the entry            *)
(* (ReturnInv).  The second look under the write lock is what makes        *)
(* BuildInv hold, and with it that no entry is replaced.                   *)
(***************************************************************************)
EXTENDS TypeCache, TLAPS

Building == {"fields", "sort", "publish"}

LockInv ==
  /\ \A g \in Goroutines : g \in readers <=> pc[g] \in {"read", "runlock"}
  /\ \A g \in Goroutines : writer = g <=> pc[g] \in {"drain"} \cup Inside
  /\ \A g \in Goroutines : pc[g] \in Inside => readers = {}

CachedInv ==
  \A rt \in Types : cached[rt] # None =>
    /\ cached[rt] \in Pointers
    /\ cached[rt][1] = rt
    /\ heap[cached[rt]] = Complete(rt)

BuildInv ==
  \A g \in Goroutines : pc[g] \in Building =>
    /\ pti[g] = <<want[g], g>>
    /\ cached[want[g]] = None
    /\ pc[g] = "sort" => heap[pti[g]].sfip = Fields[want[g]]
    /\ pc[g] = "publish" => heap[pti[g]] = Complete(want[g])

ReturnInv ==
  \A g \in Goroutines : (pc[g] \in {"idle", "runlock", "unlock"} /\ pti[g] # None) => pti[g] = cached[want[g]]

CacheInv == TypeOK /\ LockInv /\ CachedInv /\ BuildInv /\ ReturnInv

-----------------------------------------------------------------------------

\* In the initial state the cache is empty and nobody is in getTypeInfo.
LEMMA InitCache == Init => CacheInv
<1> SUFFICES ASSUME Init PROVE CacheInv
  OBVIOUS
<1> USE DEF Init
<1>1. TypeOK
  BY DEF TypeOK, Empty
<1>2. LockInv
  BY CacheAssumption DEF LockInv, Inside
<1>3. CachedInv
  BY DEF CachedInv
<1>4. BuildInv
  BY DEF BuildInv, Building
<1>5. ReturnInv
  BY DEF ReturnInv
<1> QED
  BY <1>1, <1>2, <1>3, <1>4, <1>5 DEF CacheInv

\* Who builds is alone inside the lock, and its type has no entry.
LEMMA OneBuilder ==
  ASSUME CacheInv, NEW g \in Goroutines, pc[g] \in Building
  PROVE  /\ pti[g] \in Pointers
         /\ pti[g] = <<want[g], g>>
         /\ cached[want[g]] = None
         /\ pc[g] = "publish" => heap[pti[g]] = Complete(want[g])
         /\ \A k \in Goroutines : k # g => pc[k] \notin Inside
<1>1. /\ pti[g] = <<want[g], g>>
      /\ cached[want[g]] = None
      /\ pc[g] = "publish" => heap[pti[g]] = Complete(want[g])
  BY DEF CacheInv, BuildInv
<1>2. pti[g] \in Pointers
  BY <1>1 DEF CacheInv, TypeOK, Pointers
<1>3. writer = g
  BY DEF CacheInv, LockInv, Building, Inside
<1>4. \A k \in Goroutines : k # g => pc[k] \notin Inside
  BY <1>3 DEF CacheInv, LockInv
<1> QED
  BY <1>1, <1>2, <1>4

\* A goroutine enters getTypeInfo with nothing in its hands.
LEMMA CallKeeps ==
  ASSUME CacheInv, NEW g \in Goroutines, NEW rt \in Types, Call(g, rt)
  PROVE  CacheInv'
<1> USE CacheAssumption DEF CacheInv, TypeOK, Goto, Call
<1>1. TypeOK'
  BY DEF Inside
<1>2. LockInv'
  BY DEF LockInv, Inside
<1>3. CachedInv'
  BY DEF CachedInv
<1>4. BuildInv'
  BY DEF BuildInv, Building
<1>5. ReturnInv'
  BY DEF ReturnInv
<1> QED
  BY <1>1, <1>2, <1>3, <1>4, <1>5

\* A reader enters while no writer is there.
LEMMA RLockKeeps ==
  ASSUME CacheInv, NEW g \in Goroutines, RLock(g)
  PROVE  CacheInv'
<1> USE CacheAssumption DEF CacheInv, TypeOK, Goto, RLock
<1>1. TypeOK'
  BY DEF Inside
<1>2. LockInv'
  BY DEF LockInv, Inside
<1>3. CachedInv'
  BY DEF CachedInv
<1>4. BuildInv'
  BY DEF BuildInv, Building
<1>5. ReturnInv'
  BY DEF ReturnInv
<1> QED
  BY <1>1, <1>2, <1>3, <1>4, <1>5

\* What a reader takes is the entry.
LEMMA ReadKeeps ==
  ASSUME CacheInv, NEW g \in Goroutines, Read(g)
  PROVE  CacheInv'
<1> USE CacheAssumption DEF CacheInv, TypeOK, Goto, Read
<1>1. TypeOK'
  BY DEF Inside
<1>2. LockInv'
  BY DEF LockInv, Inside
<1>3. CachedInv'
  BY DEF CachedInv
<1>4. BuildInv'
  BY DEF BuildInv, Building
<1>5. ReturnInv'
  BY DEF ReturnInv
<1> QED
  BY <1>1, <1>2, <1>3, <1>4, <1>5

\* A reader leaves, with the entry or with nothing.
LEMMA RUnlockKeeps ==
  ASSUME CacheInv, NEW g \in Goroutines, RUnlock(g)
  PROVE  CacheInv'
<1> USE CacheAssumption DEF CacheInv, TypeOK, Goto, RUnlock
<1>1. TypeOK'
  BY DEF Inside
<1>2. LockInv'
  BY DEF LockInv, Inside
<1>3. CachedInv'
  BY DEF CachedInv
<1>4. BuildInv'
  BY DEF BuildInv, Building
<1>5. ReturnInv'
  BY DEF ReturnInv
<1> QED
  BY <1>1, <1>2, <1>3, <1>4, <1>5

\* A writer announces itself: there is no other.
LEMMA LockKeeps ==
  ASSUME CacheInv, NEW g \in Goroutines, Lock(g)
  PROVE  CacheInv'
<1> USE CacheAssumption DEF CacheInv, TypeOK, Goto, Lock
<1>1. TypeOK'
  BY DEF Inside
<1>2. LockInv'
  BY DEF LockInv, Inside
<1>3. CachedInv'
  BY DEF CachedInv
<1>4. BuildInv'
  BY DEF BuildInv, Building
<1>5. ReturnInv'
  BY DEF ReturnInv
<1> QED
  BY <1>1, <1>2, <1>3, <1>4, <1>5

\* The writer enters once the readers have left.
LEMMA DrainKeeps ==
  ASSUME CacheInv, NEW g \in Goroutines, Drain(g)
  PROVE  CacheInv'
<1> USE CacheAssumption DEF CacheInv, TypeOK, Goto, Drain
<1>1. TypeOK'
  BY DEF Inside
<1>2. LockInv'
  BY DEF LockInv, Inside
<1>3. CachedInv'
  BY DEF CachedInv
<1>4. BuildInv'
  BY DEF BuildInv, Building
<1>5. ReturnInv'
  BY DEF ReturnInv
<1> QED
  BY <1>1, <1>2, <1>3, <1>4, <1>5

\* The second look decides whether to build.
LEMMA CheckKeeps ==
  ASSUME CacheInv, NEW g \in Goroutines, Check(g)
  PROVE  CacheInv'
<1> USE CacheAssumption DEF CacheInv, TypeOK, Goto, Check
<1>1. TypeOK'
  BY DEF Inside, Pointers
<1>2. LockInv'
  BY DEF LockInv, Inside
<1>3. CachedInv'
  BY DEF CachedInv
<1>4. BuildInv'
  BY DEF BuildInv, Building
<1>5. ReturnInv'
  BY DEF ReturnInv
<1> QED
  BY <1>1, <1>2, <1>3, <1>4, <1>5

\* Building does not touch what the entries point to.
LEMMA CollectFieldsKeeps ==
  ASSUME CacheInv, NEW g \in Goroutines, CollectFields(g)
  PROVE  CacheInv'
<1> USE CacheAssumption DEF CacheInv, TypeOK, Goto, CollectFields
<1>0. /\ pti[g] \in Pointers
      /\ pti[g] = <<want[g], g>>
      /\ cached[want[g]] = None
      /\ \A k \in Goroutines : k # g => pc[k] \notin Inside
  BY OneBuilder DEF Building
<1>1. TypeOK'
  BY DEF Inside
<1>2. LockInv'
  BY DEF LockInv, Inside
<1>3. CachedInv'
  <2> SUFFICES ASSUME NEW rt \in Types, cached[rt] # None
               PROVE  heap'[cached[rt]] = heap[cached[rt]]
    BY DEF CachedInv, Complete
  <2>1. cached[rt] \in Pointers /\ cached[rt][1] = rt
    BY DEF CachedInv
  <2>2. cached[rt] # pti[g]
    BY <1>0, <2>1
  <2> QED
    BY <2>1, <2>2
<1>4. BuildInv'
  <2>1. heap'[pti[g]].sfip = Fields[want[g]] /\ pc'[g] = "sort"
    BY <1>0
  <2>2. \A k \in Goroutines : k # g => pc'[k] \notin Building
    BY <1>0 DEF Building, Inside
  <2> QED
    BY <1>0, <2>1, <2>2 DEF BuildInv, Building
<1>5. ReturnInv'
  BY DEF ReturnInv
<1> QED
  BY <1>1, <1>2, <1>3, <1>4, <1>5

\* The typeInfo is complete before it is published.
LEMMA SortFieldsKeeps ==
  ASSUME CacheInv, NEW g \in Goroutines, SortFields(g)
  PROVE  CacheInv'
<1> USE CacheAssumption DEF CacheInv, TypeOK, Goto, SortFields
<1>0. /\ pti[g] \in Pointers
      /\ pti[g] = <<want[g], g>>
      /\ cached[want[g]] = None
      /\ \A k \in Goroutines : k # g => pc[k] \notin Inside
  BY OneBuilder DEF Building
<1>1. TypeOK'
  BY DEF Inside
<1>2. LockInv'
  BY DEF LockInv, Inside
<1>3. CachedInv'
  <2> SUFFICES ASSUME NEW rt \in Types, cached[rt] # None
               PROVE  heap'[cached[rt]] = heap[cached[rt]]
    BY DEF CachedInv, Complete
  <2>1. cached[rt] \in Pointers /\ cached[rt][1] = rt
    BY DEF CachedInv
  <2>2. cached[rt] # pti[g]
    BY <1>0, <2>1
  <2> QED
    BY <2>1, <2>2
<1>4. BuildInv'
  <2>1. heap'[pti[g]] = Complete(want[g]) /\ pc'[g] = "publish"
    BY <1>0 DEF BuildInv, Building, Complete
  <2>2. \A k \in Goroutines : k # g => pc'[k] \notin Building
    BY <1>0 DEF Building, Inside
  <2> QED
    BY <1>0, <2>1, <2>2 DEF BuildInv, Building, Complete
<1>5. ReturnInv'
  BY DEF ReturnInv
<1> QED
  BY <1>1, <1>2, <1>3, <1>4, <1>5

\* No entry is replaced: there was none.
LEMMA PublishKeeps ==
  ASSUME CacheInv, NEW g \in Goroutines, Publish(g)
  PROVE  CacheInv'
<1> USE CacheAssumption DEF CacheInv, TypeOK, Goto, Publish
<1>0. /\ pti[g] \in Pointers
      /\ pti[g] = <<want[g], g>>
      /\ cached[want[g]] = None
      /\ heap[pti[g]] = Complete(want[g])
      /\ \A k \in Goroutines : k # g => pc[k] \notin Inside
  BY OneBuilder DEF Building
<1>1. TypeOK'
  BY DEF Inside
<1>2. LockInv'
  BY DEF LockInv, Inside
<1>3. CachedInv'
  BY <1>0 DEF CachedInv, Complete
<1>4. BuildInv'
  BY <1>0 DEF BuildInv, Building, Inside
<1>5. ReturnInv'
  BY <1>0 DEF ReturnInv, Inside
<1> QED
  BY <1>1, <1>2, <1>3, <1>4, <1>5

\* The writer leaves with the entry.
LEMMA UnlockKeeps ==
  ASSUME CacheInv, NEW g \in Goroutines, Unlock(g)
  PROVE  CacheInv'
<1> USE CacheAssumption DEF CacheInv, TypeOK, Goto, Unlock
<1>1. TypeOK'
  BY DEF Inside
<1>2. LockInv'
  BY DEF LockInv, Inside
<1>3. CachedInv'
  BY DEF CachedInv
<1>4. BuildInv'
  BY DEF BuildInv, Building
<1>5. ReturnInv'
  BY DEF ReturnInv
<1> QED
  BY <1>1, <1>2, <1>3, <1>4, <1>5

-----------------------------------------------------------------------------

\* Every step of a goroutine, and a step of none, keeps the invariant.
LEMMA NextKeeps == CacheInv /\ [Next]_vars => CacheInv'
<1> SUFFICES ASSUME CacheInv, [Next]_vars PROVE CacheInv'
  OBVIOUS
<1>1. CASE UNCHANGED vars
  BY <1>1 DEF vars, CacheInv, TypeOK, LockInv, CachedInv, BuildInv, ReturnInv
<1>2. ASSUME NEW g \in Goroutines, NEW rt \in Types, Call(g, rt) PROVE CacheInv'
  BY <1>2, CallKeeps
<1>3. ASSUME NEW g \in Goroutines, Step(g) PROVE CacheInv'
  BY <1>3, RLockKeeps, ReadKeeps, RUnlockKeeps, LockKeeps, DrainKeeps, CheckKeeps,
     CollectFieldsKeeps, SortFieldsKeeps, PublishKeeps, UnlockKeeps DEF Step
<1> QED
  BY <1>1, <1>2, <1>3 DEF Next

\* CacheInv is an invariant of the cache, for any goroutines and types.
THEOREM CacheInvariant == Spec => []CacheInv
BY InitCache, NextKeeps, PTL DEF Spec

\* The map is never written while another goroutine uses it (getTypeInfo and
\* its two sections under cachedTypeInfoMutex).
THEOREM MapNeverRaced == Spec => []NoMapRace
<1>1. CacheInv => NoMapRace
  <2> SUFFICES ASSUME CacheInv, NEW g \in Goroutines, NEW k \in Goroutines, g # k, pc[g] = "publish"
               PROVE  pc[k] \notin {"read", "check", "publish"}
    BY DEF NoMapRace
  <2>1. pc[k] \notin Inside
    BY OneBuilder DEF Building
  <2>2. readers = {}
    BY DEF CacheInv, LockInv, Inside
  <2>3. pc[k] # "read"
    BY <2>2 DEF CacheInv, LockInv
  <2> QED
    BY <2>1, <2>3 DEF Inside
<1> QED
  BY <1>1, CacheInvariant, PTL

\* What getTypeInfo returned is complete and the only typeInfo of its type.
THEOREM InfoUnique == Spec => []OneCompleteInfo
<1>1. CacheInv => OneCompleteInfo
  BY DEF CacheInv, TypeOK, ReturnInv, CachedInv, OneCompleteInfo
<1> QED
  BY <1>1, CacheInvariant, PTL
=============================================================================
