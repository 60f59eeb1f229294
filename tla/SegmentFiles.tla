---------------------------- MODULE SegmentFiles ----------------------------
(***************************************************************************)
(* segmentFileCache: the store's bounded cache of read descriptors for     *)
(* sealed segments.  A cache is the sequence of its entries, the least     *)
(* recently used first: the code's clock only serves to order them.  A     *)
(* descriptor is open exactly while its entry is in the cache.             *)
(***************************************************************************)
EXTENDS Integers, SequencesExt, FiniteSetsExt

CONSTANT FileLimit  \* OpenSegmentFiles of StoreOptions

ASSUME FileLimitAssumption == FileLimit \in Nat

Cached(cache) == {cache[i].path : i \in DOMAIN cache}

EntryOf(cache, path) == cache[SelectInSeq(cache, LAMBDA e : e.path = path)]

\* forget: closes the descriptor, pinned or not.
Forget(cache, path) == SelectSeq(cache, LAMBDA e : e.path # path)

EvictLockedPinned(cache) ==
    SubSeq(cache, Max({1, Len(cache) - FileLimit + 1}), Len(cache))

\* Closes descriptors nobody reads from, the least recently used first, while
\* there are more than the limit.
EvictLocked(cache) ==
    LET unpinned == {i \in DOMAIN cache : cache[i].refs = 0}
        Rank(i) == Cardinality({j \in unpinned : j <= i})
        victims == {cache[i].path : i \in {j \in unpinned : Rank(j) <= Len(cache) - FileLimit}}
    IN  SelectSeq(cache, LAMBDA e : e.path \notin victims)

Acquire(cache, path) ==
    LET refs == IF path \in Cached(cache) THEN EntryOf(cache, path).refs ELSE 0
    IN  EvictLocked(Append(Forget(cache, path), [path |-> path, refs |-> refs + 1]))

\* ReleaseFile is the cache's release; a forgotten path has nothing to release.
ReleaseFile(cache, path) ==
    IF path \in Cached(cache)
    THEN EvictLocked([i \in DOMAIN cache |->
             IF cache[i].path = path /\ cache[i].refs > 0
             THEN [cache[i] EXCEPT !.refs = @ - 1] ELSE cache[i]])
    ELSE cache

=============================================================================
