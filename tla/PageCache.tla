----------------------------- MODULE PageCache -----------------------------
(***************************************************************************)
(* PageCache of rust/src/prefetch/mod.rs: at most MaxPages pages, the least*)
(* recently used unpinned one evicted to make room.  The operators act on  *)
(* the cache as a value; PrefetchEngine holds it behind a mutex.  The      *)
(* pages' last_used clocks, which only ever grow, are kept as the order of *)
(* `lru`, least recently used first; the hit and miss counters are left    *)
(* out.                                                                    *)
(***************************************************************************)
EXTENDS Integers, Sequences

CONSTANT MaxPages

ASSUME MaxPagesAssumption == MaxPages \in Nat

NewCache == [lru |-> << >>, pinned |-> {}]

Cached(cache) == {cache.lru[i] : i \in DOMAIN cache.lru}     \* has()
Without(lru, page) ==                                        \* each page is there once
  LET at == CHOOSE i \in DOMAIN lru : lru[i] = page IN
  IF \E i \in DOMAIN lru : lru[i] = page
  THEN [i \in 1 .. Len(lru) - 1 |-> IF i < at THEN lru[i] ELSE lru[i + 1]]
  ELSE lru
MostRecent(lru, page) == Append(Without(lru, page), page)

Get(cache, page) ==
  IF page \in Cached(cache) THEN [cache EXCEPT !.lru = MostRecent(@, page)] ELSE cache

Victims(cache) ==
  {p \in Cached(cache) \ cache.pinned :
     \E i \in DOMAIN cache.lru :
       /\ cache.lru[i] = p
       /\ \A j \in 1 .. i - 1 : cache.lru[j] \in cache.pinned}

FullIfAbove(cache) == Len(cache.lru) > MaxPages              \* MUTANT: > for >=
Full(cache) == Len(cache.lru) >= MaxPages

(* evict_one(), once: the cache never holds more than MaxPages.            *)
EvictOne(cache) ==
  [cache EXCEPT !.lru = Without(@, CHOOSE p \in Victims(cache) : TRUE)]

(* set() gives up, leaving the page out, if there is nothing to evict.     *)
Set(cache, page, pin) ==
  LET roomy == page \in Cached(cache) \/ ~Full(cache)
      ready == IF roomy THEN cache ELSE EvictOne(cache)
  IN IF ~roomy /\ Victims(cache) = {}
     THEN cache
     ELSE [lru    |-> MostRecent(ready.lru, page),
           pinned |-> IF pin THEN ready.pinned \cup {page} ELSE ready.pinned \ {page}]

PinPages(cache, pages) == [cache EXCEPT !.pinned = @ \cup (pages \cap Cached(cache))]
UnpinAll(cache) == [cache EXCEPT !.pinned = {}]
============================================================================
