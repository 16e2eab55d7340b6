------------------------------ MODULE TypeCache ------------------------------
(***************************************************************************)
(* getTypeInfo of src/go-msgpack/codec/helper.go: goroutines that encode   *)
(* or decode, on any number of connections, look up what is known of a     *)
(* type in one map of the process, and the first to need it builds it.     *)
(*                                                                         *)
(* The map is protected by a sync.RWMutex, modelled from how Go documents  *)
(* it: writers exclude each other, a writer that has called Lock keeps new *)
(* readers out, and goes on once those inside have left.  Reading and      *)
(* writing the map are steps of their own, as is each stage of building,   *)
(* so what the lock does not keep apart may overlap.                       *)
(***************************************************************************)
EXTENDS Naturals

CONSTANTS
  Goroutines,
  Types,
  Fields,      \* by type: what rgetTypeInfo collects, the typeInfo's sfip
  Sorted,      \* by type: the same in the order of the names, its sfi
  None         \* a nil pointer, and nobody

ASSUME CacheAssumption == None \notin Goroutines

\* A *typeInfo is known by the goroutine that allocated it and its type.
Pointers == Types \X Goroutines

VARIABLES
  cached,      \* cachedTypeInfo: from types to pointers, None where there is no entry
  heap,        \* what the pointers point to
  readers,     \* who holds cachedTypeInfoMutex for reading
  writer,      \* who has called Lock, or holds it
  pc,          \* where in getTypeInfo each goroutine is
  want,        \* the type it was called with
  pti          \* what it returns, or returned last

vars == <<cached, heap, readers, writer, pc, want, pti>>

Empty == [sfip |-> <<>>, sfi |-> <<>>]
Complete(rt) == [sfip |-> Fields[rt], sfi |-> Sorted[rt]]

Init ==
  /\ cached = [rt \in Types |-> None]
  /\ heap = [p \in Pointers |-> Empty]
  /\ readers = {}
  /\ writer = None
  /\ pc = [g \in Goroutines |-> "idle"]
  /\ want \in [Goroutines -> Types]
  /\ pti = [g \in Goroutines |-> None]

Goto(g, label) == pc' = [pc EXCEPT ![g] = label]

-----------------------------------------------------------------------------

\* The codec meets a value of type rt.
Call(g, rt) ==
  /\ pc[g] = "idle"
  /\ want' = [want EXCEPT ![g] = rt]
  /\ pti' = [pti EXCEPT ![g] = None]
  /\ Goto(g, "rlock")
  /\ UNCHANGED <<cached, heap, readers, writer>>

\* Mutant of RLock: the map is read without the lock.
RLockNot(g) ==
  /\ pc[g] = "rlock"
  /\ Goto(g, "read")
  /\ UNCHANGED <<cached, heap, readers, writer, want, pti>>

\* Mutant of RLock: readers overtake a writer that waits.
RLockAhead(g) ==
  /\ pc[g] = "rlock"
  /\ writer # None => pc[writer] = "drain"
  /\ readers' = readers \cup {g}
  /\ Goto(g, "read")
  /\ UNCHANGED <<cached, heap, writer, want, pti>>

RLock(g) ==
  /\ pc[g] = "rlock"
  /\ writer = None
  /\ readers' = readers \cup {g}
  /\ Goto(g, "read")
  /\ UNCHANGED <<cached, heap, writer, want, pti>>

Read(g) ==
  /\ pc[g] = "read"
  /\ pti' = [pti EXCEPT ![g] = cached[want[g]]]
  /\ Goto(g, "runlock")
  /\ UNCHANGED <<cached, heap, readers, writer, want>>

\* and return, if the map had it
RUnlock(g) ==
  /\ pc[g] = "runlock"
  /\ readers' = readers \ {g}
  /\ Goto(g, IF pti[g] # None THEN "idle" ELSE "lock")
  /\ UNCHANGED <<cached, heap, writer, want, pti>>

\* Lock, up to the point where new readers wait
Lock(g) ==
  /\ pc[g] = "lock"
  /\ writer = None
  /\ writer' = g
  /\ Goto(g, "drain")
  /\ UNCHANGED <<cached, heap, readers, want, pti>>

Drain(g) ==
  /\ pc[g] = "drain"
  /\ readers = {}
  /\ Goto(g, "check")
  /\ UNCHANGED <<cached, heap, readers, writer, want, pti>>

\* Mutant of Check: what another goroutine built in between is built again.
CheckNot(g) ==
  /\ pc[g] = "check"
  /\ pti' = [pti EXCEPT ![g] = <<want[g], g>>]
  /\ Goto(g, "fields")
  /\ UNCHANGED <<cached, heap, readers, writer, want>>

\* The second look, and the new typeInfo if there is still none
Check(g) ==
  /\ pc[g] = "check"
  /\ IF cached[want[g]] # None
       THEN pti' = [pti EXCEPT ![g] = cached[want[g]]] /\ Goto(g, "unlock")
       ELSE pti' = [pti EXCEPT ![g] = <<want[g], g>>] /\ Goto(g, "fields")
  /\ UNCHANGED <<cached, heap, readers, writer, want>>

\* rgetTypeInfo, and the copy of its result to sfip
CollectFields(g) ==
  /\ pc[g] = "fields"
  /\ heap' = [heap EXCEPT ![pti[g]] = [sfip |-> Fields[want[g]], sfi |-> @.sfi]]
  /\ Goto(g, "sort")
  /\ UNCHANGED <<cached, readers, writer, want, pti>>

SortFields(g) ==
  /\ pc[g] = "sort"
  /\ heap' = [heap EXCEPT ![pti[g]] = [sfip |-> @.sfip, sfi |-> Sorted[want[g]]]]
  /\ Goto(g, "publish")
  /\ UNCHANGED <<cached, readers, writer, want, pti>>

Publish(g) ==
  /\ pc[g] = "publish"
  /\ cached' = [cached EXCEPT ![want[g]] = pti[g]]
  /\ Goto(g, "unlock")
  /\ UNCHANGED <<heap, readers, writer, want, pti>>

\* the deferred Unlock, and return
Unlock(g) ==
  /\ pc[g] = "unlock"
  /\ writer' = None
  /\ Goto(g, "idle")
  /\ UNCHANGED <<cached, heap, readers, want, pti>>

-----------------------------------------------------------------------------

Step(g) ==
  \/ RLock(g) \/ Read(g) \/ RUnlock(g)
  \/ Lock(g) \/ Drain(g) \/ Check(g)
  \/ CollectFields(g) \/ SortFields(g) \/ Publish(g) \/ Unlock(g)

Next == \E g \in Goroutines : Step(g) \/ \E rt \in Types : Call(g, rt)

Spec == Init /\ [][Next]_vars

\* The scheduler runs every goroutine that can go on, and the mutex lets in
\* one that waits when nobody is in its way.
FairSpec == Spec /\ \A g \in Goroutines : WF_vars(Step(g))

-----------------------------------------------------------------------------

Inside == {"check", "fields", "sort", "publish", "unlock"}

\* The type invariant of the cache.
TypeOK ==
  /\ cached \in [Types -> Pointers \cup {None}]
  /\ heap \in [Pointers -> [sfip : {<<>>} \cup {Fields[rt] : rt \in Types}, sfi : {<<>>} \cup {Sorted[rt] : rt \in Types}]]
  /\ readers \subseteq Goroutines
  /\ writer \in Goroutines \cup {None}
  /\ pc \in [Goroutines -> {"idle", "rlock", "read", "runlock", "lock", "drain"} \cup Inside]
  /\ want \in [Goroutines -> Types]
  /\ pti \in [Goroutines -> Pointers \cup {None}]

\* Go's map may not be written by one goroutine while another reads or writes
\* it: nobody looks anything up while an entry is being added (getTypeInfo).
NoMapRace ==
  \A g, k \in Goroutines :
    (g # k /\ pc[g] = "publish") => pc[k] \notin {"read", "check", "publish"}

\* What a call returned is complete, is about the type it asked for, and is
\* the one typeInfo of that type in the process, whoever built it and however
\* many goroutines wanted it at once (getTypeInfo).
OneCompleteInfo ==
  \A g \in Goroutines : (pc[g] = "idle" /\ pti[g] # None) =>
    /\ pti[g] = cached[want[g]]
    /\ heap[pti[g]] = Complete(want[g])

\* Every call of getTypeInfo returns.
CallsReturn == \A g \in Goroutines : pc[g] # "idle" ~> pc[g] = "idle"

=============================================================================
