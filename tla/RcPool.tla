------------------------------- MODULE RcPool -------------------------------
(***************************************************************************)
(* rcPool (src/sync2/dbsync/refcountpool.go): a slice of reference-counted *)
(* entries with an intrusive free list. A free entry keeps freeBit set in  *)
(* its refCount and the 1-based index of the next free entry in the low   *)
(* bits; freeList is the 1-based index of the first free entry (0: none).  *)
(* refCount is a uint32, so FreeBit stands for 1 << 31 and the arithmetic  *)
(* wraps modulo 2 * FreeBit. Each operation holds the pool mutex, so it is *)
(* one atomic step.                                                        *)
(*                                                                         *)
(* The users of the pool are modelled by `held`, the number of references  *)
(* they hold to each index: add creates one, ref duplicates a held one,    *)
(* release gives one up.                                                   *)
(***************************************************************************)
EXTENDS Naturals, Sequences, FiniteSets

CONSTANTS Items, NoItem, FreeBit, MaxEntries, MaxRefs

ASSUME MaxEntries < FreeBit

VARIABLES entries, freeList, held, panicked

vars == <<entries, freeList, held, panicked>>

Idx == 0..MaxEntries - 1

Word == 2 * FreeBit

\* refCount & freeBit != 0
IsFree(rc) == (rc \div FreeBit) % 2 = 1

-----------------------------------------------------------------------------
(* The pool's operations; idx is 0-based as in Go, entries is 1-based.    *)

Entry(idx) == entries[idx + 1]

\* Mutant: an entry reused from the free list keeps its free marker count.
addKeepMarker(item) ==
  IF freeList # 0
  THEN LET idx == freeList - 1 IN
       [idx  |-> idx,
        free |-> Entry(idx).rc % FreeBit,
        ents |-> [entries EXCEPT ![idx + 1].content = item]]
  ELSE [idx  |-> Len(entries),
        free |-> freeList,
        ents |-> Append(entries, [rc |-> 1, content |-> item])]

\* Mutant: the reused entry is not unlinked from the free list.
addNoPop(item) ==
  IF freeList # 0
  THEN LET idx == freeList - 1 IN
       [idx  |-> idx,
        free |-> freeList,
        ents |-> [entries EXCEPT ![idx + 1] = [rc |-> 1, content |-> item]]]
  ELSE [idx  |-> Len(entries),
        free |-> freeList,
        ents |-> Append(entries, [rc |-> 1, content |-> item])]

\* add: pop the free list when it is not empty, else append an entry.
add(item) ==
  IF freeList # 0
  THEN LET idx == freeList - 1 IN
       [idx  |-> idx,
        free |-> Entry(idx).rc % FreeBit,
        ents |-> [entries EXCEPT ![idx + 1] = [rc |-> 1, content |-> item]]]
  ELSE [idx  |-> Len(entries),
        free |-> freeList,
        ents |-> Append(entries, [rc |-> 1, content |-> item])]

\* Mutant: the freed entry is linked one past its 1-based index.
releaseFreeOffByOne(idx) ==
  LET rc == (Entry(idx).rc + Word - 1) % Word IN
  IF Entry(idx).rc = 0 THEN [panic |-> TRUE, ents |-> entries, free |-> freeList]
  ELSE IF rc = 0
  THEN [panic |-> FALSE, free |-> idx + 2,
        ents |-> [entries EXCEPT ![idx + 1].rc = freeList + FreeBit]]
  ELSE [panic |-> FALSE, free |-> freeList, ents |-> [entries EXCEPT ![idx + 1].rc = rc]]

\* Mutant: the entry goes back to the free list on every release.
releaseFreesEarly(idx) ==
  [panic |-> FALSE, free |-> idx + 1,
   ents |-> [entries EXCEPT ![idx + 1].rc = freeList + FreeBit]]

\* release: panic on a zero count (the "negative refcount" check), else
\* decrement; an entry that reaches zero is pushed on the free list.
release(idx) ==
  LET rc == (Entry(idx).rc + Word - 1) % Word IN
  IF Entry(idx).rc = 0 THEN [panic |-> TRUE, ents |-> entries, free |-> freeList]
  ELSE IF rc = 0
  THEN [panic |-> FALSE, free |-> idx + 1,
        ents |-> [entries EXCEPT ![idx + 1].rc = freeList + FreeBit]]
  ELSE [panic |-> FALSE, free |-> freeList, ents |-> [entries EXCEPT ![idx + 1].rc = rc]]

\* ref: increment, without looking at the free marker.
ref(idx) == [entries EXCEPT ![idx + 1].rc = (@ + 1) % Word]

-----------------------------------------------------------------------------
(* Users of the pool.                                                     *)

\* A user adds an item and holds the reference add returns. The slice grows
\* only up to MaxEntries entries.
Add(item) ==
  LET r == add(item) IN
  /\ ~panicked
  /\ r.idx < MaxEntries
  /\ entries' = r.ents
  /\ freeList' = r.free
  /\ held' = [held EXCEPT ![r.idx] = 1]
  /\ UNCHANGED panicked

\* A user holding a reference to idx takes another one (at most MaxRefs).
Ref(idx) ==
  /\ ~panicked
  /\ 0 < held[idx] /\ held[idx] < MaxRefs
  /\ entries' = ref(idx)
  /\ held' = [held EXCEPT ![idx] = @ + 1]
  /\ UNCHANGED <<freeList, panicked>>

\* A user gives up one of its references to idx.
Release(idx) ==
  LET r == release(idx) IN
  /\ ~panicked
  /\ held[idx] > 0
  /\ entries' = r.ents
  /\ freeList' = r.free
  /\ panicked' = r.panic
  /\ held' = [held EXCEPT ![idx] = @ - 1]

\* A user releases an index it holds no reference to (a double release):
\* the same release, applied to an entry that may already be free.
StaleRelease(idx) ==
  LET r == release(idx) IN
  /\ ~panicked
  /\ idx < Len(entries) /\ held[idx] = 0
  /\ entries' = r.ents
  /\ freeList' = r.free
  /\ panicked' = r.panic
  /\ UNCHANGED held

Init ==
  /\ entries = <<>>
  /\ freeList = 0
  /\ held = [i \in Idx |-> 0]
  /\ panicked = FALSE

Next ==
  \/ \E item \in Items : Add(item)
  \/ \E idx \in Idx : Ref(idx) \/ Release(idx)

Spec == Init /\ [][Next]_vars

\* The pool together with a user that releases twice.
NextMisuse == Next \/ \E idx \in Idx : StaleRelease(idx)

SpecMisuse == Init /\ [][NextMisuse]_vars

-----------------------------------------------------------------------------
(* Properties.                                                             *)

TypeOK ==
  /\ entries \in Seq([rc : 0..Word - 1, content : Items])
  /\ Len(entries) <= MaxEntries
  /\ freeList \in 0..Len(entries)
  /\ held \in [Idx -> 0..MaxRefs]
  /\ panicked \in BOOLEAN

\* The free list, followed from freeList through the low bits of each free
\* entry's refCount.
RECURSIVE Chain(_, _)
Chain(link, fuel) ==
  IF link = 0 \/ fuel = 0 THEN <<>>
  ELSE IF link > Len(entries) THEN <<link - 1>>
  ELSE <<link - 1>> \o Chain(Entry(link - 1).rc % FreeBit, fuel - 1)

\* The free list after add, release and reuse: following it from freeList
\* ends, visits no index twice, and visits exactly the entries whose
\* references have all been released, each marked with freeBit.
FreeListSound ==
  LET c == Chain(freeList, Len(entries) + 1) IN
  /\ \A i \in DOMAIN c : c[i] < Len(entries)
  /\ Len(c) <= Len(entries)
  /\ c = <<>> \/ Entry(c[Len(c)]).rc % FreeBit = 0
  /\ \A i, j \in DOMAIN c : i # j => c[i] # c[j]
  /\ {c[i] : i \in DOMAIN c} = {i \in 0..Len(entries) - 1 : held[i] = 0}
  /\ \A i \in DOMAIN c : IsFree(Entry(c[i]).rc)

\* Every entry a user holds references to is live and counts exactly the
\* references held, so the last release is the one that frees it.
CountsMatch ==
  \A i \in 0..Len(entries) - 1 :
    held[i] > 0 => ~IsFree(Entry(i).rc) /\ Entry(i).rc = held[i]

\* The release check "negative refcount" is meant to stop a release of an
\* entry nobody holds: after any release of an unreferenced index the pool
\* has panicked or its free list is still sound.
StaleReleaseCaught == ~panicked => FreeListSound

\* rcPool implements RcPoolSpec: the count of an index is its refCount
\* while it is live and 0 while it is free or not yet allocated.
Abs == INSTANCE RcPoolSpec WITH
  count <- [i \in Idx |-> IF i < Len(entries) /\ ~IsFree(Entry(i).rc) THEN Entry(i).rc ELSE 0],
  content <- [i \in Idx |-> IF i < Len(entries) THEN Entry(i).content ELSE NoItem]

ImplementsSpec == Abs!Spec

=============================================================================
