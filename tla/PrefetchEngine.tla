--------------------------- MODULE PrefetchEngine ---------------------------
(***************************************************************************)
(* PrefetchEngine of rust/src/prefetch/mod.rs: one per reader, called from *)
(* any number of threads, with a background thread of its own that loads   *)
(* the whole data sector once access has proved sequential.                *)
(*                                                                         *)
(* A step runs from one lock acquisition, atomic access or release to the  *)
(* next.  The detector's and the cache's mutexes are held across other     *)
(* acquisitions, so they are variables; under the strategy's and           *)
(* in_flight's no other lock is taken, so a critical section is one step.  *)
(* The join handle's is held by the thread at "join".                      *)
(***************************************************************************)
EXTENDS PageCache, AccessPattern, FiniteSets

CONSTANTS
  Threads,           (* the reader's callers                               *)
  Calls,             (* thread -> the methods it calls                     *)
  InitialStrategy,   (* what initial_strategy makes of hint and file size  *)
  SmallFile,         (* is the file at most EAGER_THRESHOLD_MB             *)
  RecordCount,
  RecordsPerPage,
  PrefetchDepth,
  GapPages,
  NoOne,
  MaxCalls,          (* bound: calls but pauses and resumes                *)
  MaxPauses          (* bound: pause_prefetch calls                        *)

ASSUME PrefetchAssumption ==
  /\ Calls \in [Threads -> SUBSET {"on_access", "prefetch_viewport", "cache_stats",
                                   "warmup", "pause_prefetch", "resume_prefetch"}]
  /\ InitialStrategy \in {"Lazy", "Adaptive", "Eager"}
  /\ SmallFile \in BOOLEAN /\ NoOne \notin Threads
  /\ RecordCount \in Nat /\ RecordsPerPage \in Nat \ {0}
  /\ PrefetchDepth \in Nat /\ GapPages \in Nat
  /\ MaxCalls \in Nat /\ MaxPauses \in Nat

VARIABLES
  cache, cacheLock,        (* the page cache and who holds its mutex       *)
  detector, detectorLock,  (* the same for the detector                    *)
  inFlight,                (* pages being fetched                          *)
  strategy, paused,
  started, complete, cancelled, handle,   (* EagerState                    *)
  eager,                   (* the background thread: its pc, ranges, page  *)
  pc,                      (* where each caller is                         *)
  index,                   (* the record each caller accesses              *)
  ranges,                  (* page ranges each caller still has to fetch   *)
  dropped,                 (* has the engine been dropped                  *)
  calls, pauses            (* how many there have been                     *)

shared == <<strategy, paused, started, complete, cancelled, handle, eager, dropped>>
bounds == <<calls, pauses>>
local == <<pc, index, ranges>>
vars == <<cache, cacheLock, detector, detectorLock, inFlight, shared, local, bounds>>
callers == <<detector, detectorLock, strategy, paused, started, cancelled, handle, dropped,
             local, bounds>>
----------------------------------------------------------------------------
Records == 0 .. RecordCount - 1
PageOf(record) == record \div RecordsPerPage
Sector == {PageOf(r) : r \in Records}
LastPage == Cardinality(Sector) - 1

(* coalesce_page_indices: runs of pages at most GapPages apart, in order.  *)
(* The pages between two of them are fetched too.                          *)
StartsRun(p, pages) == \A q \in pages : q < p => p - q > GapPages
EndOfRun(p, pages) ==
  CHOOSE e \in pages :
    /\ e >= p /\ \A q \in pages : p < q /\ q <= e => ~StartsRun(q, pages)
    /\ \A q \in pages : q > e => \E r \in pages : e < r /\ r <= q /\ StartsRun(r, pages)
Coalesce(pages) ==
  LET first == {p \in pages : StartsRun(p, pages)}
      nth(k) == CHOOSE p \in first : Cardinality({q \in first : q < p}) = k - 1
  IN [k \in 1 .. Cardinality(first) |->
        [first |-> nth(k), last |-> EndOfRun(nth(k), pages)]]

Needed(pages) == {p \in pages : p \notin Cached(cache) /\ p \notin inFlight}

LandedUnlessCached(page) ==                  \* MUTANT: skip what is cached, early
  inFlight' = IF page \in Cached(cache) THEN inFlight ELSE inFlight \ {page}
Landed(page) == inFlight' = inFlight \ {page}

RestUnmoved(todo) ==                         \* MUTANT: the page is not advanced
  IF Head(todo).first = Head(todo).last THEN Tail(todo) ELSE todo
Rest(todo) ==
  IF Head(todo).first = Head(todo).last
  THEN Tail(todo) ELSE [todo EXCEPT ![1].first = @ + 1]

Goto(t, to) == pc' = [pc EXCEPT ![t] = to]
Idle(t, call) == pc[t] = "idle" /\ call \in Calls[t] /\ dropped = "no"
Count == calls < MaxCalls /\ calls' = calls + 1
EagerThreadLastPage ==                       \* MUTANT: last_page..=last_page
  [pc |-> "range", todo |-> Coalesce({LastPage}), page |-> 0]
EagerThread == [pc |-> "range", todo |-> Coalesce(Sector), page |-> 0]

Init ==
  /\ cache = NewCache /\ cacheLock = NoOne
  /\ detector = NewDetector /\ detectorLock = NoOne
  /\ inFlight = {} /\ strategy = InitialStrategy /\ paused = FALSE
  /\ started = (InitialStrategy = "Eager")     \* with_options starts it at open
  /\ complete = (InitialStrategy = "Eager" /\ Sector = {})
  /\ cancelled = FALSE
  /\ handle = (InitialStrategy = "Eager" /\ Sector # {})
  /\ eager = IF handle THEN EagerThread ELSE [pc |-> "off", todo |-> << >>, page |-> 0]
  /\ pc = [t \in Threads |-> "idle"]
  /\ index = [t \in Threads |-> 0]
  /\ ranges = [t \in Threads |-> << >>]
  /\ dropped = "no" /\ calls = 0 /\ pauses = 0
----------------------------------------------------------------------------
(* on_access(index), from Reader::record: nothing while paused ...         *)
OnAccess(t, record) ==
  /\ Idle(t, "on_access") /\ ~paused /\ Count
  /\ index' = [index EXCEPT ![t] = record] /\ Goto(t, "observe")
  /\ UNCHANGED <<cache, cacheLock, detector, detectorLock, inFlight, shared, ranges, pauses>>

(* ... observe it, and upgrade to Eager once there are enough short steps. *)
(* The detector stays locked while the background thread is started.       *)
Upgrade(det) ==
  /\ strategy = "Adaptive" /\ ~paused /\ IsSequential(det)
  /\ det.sequential_runs >= UPGRADE_SEQUENTIAL_THRESHOLD /\ SmallFile

ObserveRecord(t) ==
  /\ pc[t] = "observe" /\ detectorLock = NoOne
  /\ detector' = Observe(detector, index[t])
  /\ IF Upgrade(detector')
     THEN strategy' = "Eager" /\ detectorLock' = t /\ Goto(t, "start eager")
     ELSE UNCHANGED <<strategy, detectorLock>> /\ Goto(t, "check eager")
  /\ UNCHANGED <<cache, cacheLock, inFlight, paused, started, complete, cancelled, handle,
                 eager, dropped, index, ranges, bounds>>

(* start_eager_background: nothing if paused since, or started before.     *)
StartEager(t) ==
  /\ pc[t] = "start eager"
  /\ IF paused \/ started
     THEN /\ detectorLock' = NoOne /\ Goto(t, "check eager")
          /\ UNCHANGED <<started, eager>>
     ELSE /\ started' = TRUE /\ eager' = EagerThread
          /\ Goto(t, "store handle") /\ UNCHANGED detectorLock
  /\ UNCHANGED <<cache, cacheLock, detector, inFlight, strategy, paused, complete, cancelled,
                 handle, dropped, index, ranges, bounds>>

StoreHandle(t) ==
  /\ pc[t] = "store handle" /\ \A u \in Threads : pc[u] # "join"
  /\ handle' = TRUE /\ detectorLock' = NoOne /\ Goto(t, "check eager")
  /\ UNCHANGED <<cache, cacheLock, detector, inFlight, strategy, paused, started, complete,
                 cancelled, eager, dropped, index, ranges, bounds>>

(* An eager reader does no more ...                                        *)
CheckEager(t) ==
  /\ pc[t] = "check eager" /\ Goto(t, IF strategy = "Eager" THEN "idle" ELSE "touch")
  /\ UNCHANGED <<cache, cacheLock, detector, detectorLock, inFlight, shared, index, ranges, bounds>>

(* ... any other touches the record's page, unless loaded since ...        *)
TouchPage(t) ==
  /\ pc[t] = "touch" /\ cacheLock = NoOne
  /\ cache' = IF strategy = "Eager" /\ complete THEN cache ELSE Get(cache, PageOf(index[t]))
  /\ Goto(t, "check adaptive")
  /\ UNCHANGED <<cacheLock, detector, detectorLock, inFlight, shared, index, ranges, bounds>>

CheckAdaptive(t) ==
  /\ pc[t] = "check adaptive"
  /\ Goto(t, IF strategy = "Adaptive" THEN "lock detector" ELSE "idle")
  /\ UNCHANGED <<cache, cacheLock, detector, detectorLock, inFlight, shared, index, ranges, bounds>>

(* ... and an adaptive one whose access is sequential fetches ahead, with  *)
(* the detector locked until it is done.                                   *)
LockDetector(t) ==
  /\ pc[t] = "lock detector" /\ detectorLock = NoOne
  /\ IF IsSequential(detector) /\ ~paused /\ ~cancelled
     THEN detectorLock' = t /\ Goto(t, "speculate")
     ELSE UNCHANGED detectorLock /\ Goto(t, "idle")
  /\ UNCHANGED <<cache, cacheLock, detector, inFlight, shared, index, ranges, bounds>>

Speculate(t) ==
  LET needed == Needed({PageOf(r) : r \in PredictNext(detector, PrefetchDepth, RecordCount)}) IN
  /\ pc[t] = "speculate" /\ cacheLock = NoOne
  /\ ranges' = [ranges EXCEPT ![t] = Coalesce(needed)]
  /\ IF needed = {}
     THEN detectorLock' = NoOne /\ Goto(t, "idle")
     ELSE UNCHANGED detectorLock /\ Goto(t, "fetch")
  /\ UNCHANGED <<cache, cacheLock, detector, inFlight, shared, index, bounds>>
----------------------------------------------------------------------------
(* prefetch_viewport: the same for given records, paused or not ...        *)
PrefetchViewport(t, from, to) ==
  LET needed == Needed(PageOf(from) .. PageOf(to)) IN
  /\ Idle(t, "prefetch_viewport") /\ cacheLock = NoOne /\ from <= to /\ Count
  /\ ranges' = [ranges EXCEPT ![t] = Coalesce(needed)]
  /\ Goto(t, IF needed = {} THEN "pin" ELSE "fetch")
  /\ UNCHANGED <<cache, cacheLock, detector, detectorLock, inFlight, shared, index, pauses>>

(* ... with the pages pinned, and all unpinned, at the end.                *)
PinViewport(t) ==
  /\ pc[t] = "pin" /\ cacheLock = NoOne
  /\ cache' = UnpinAll(PinPages(cache, Cached(cache)))
  /\ Goto(t, "idle")
  /\ UNCHANGED <<cacheLock, detector, detectorLock, inFlight, shared, index, ranges, bounds>>

(* fetch_range: the range goes in flight at once ...                       *)
FetchRange(t) ==
  LET r == Head(ranges[t]) IN
  /\ pc[t] = "fetch"
  /\ inFlight' = inFlight \cup (r.first .. r.last)
  /\ Goto(t, "fill")
  /\ UNCHANGED <<cache, cacheLock, detector, detectorLock, shared, index, ranges, bounds>>

(* ... and leaves page by page.  A caller that holds the detector is       *)
(* speculating; one that does not has a viewport to pin.                   *)
FillPage(t) ==
  LET r    == Head(ranges[t])
      rest == Rest(ranges[t])
  IN
  /\ pc[t] = "fill" /\ cacheLock = NoOne
  /\ cache' = Set(cache, r.first, FALSE)
  /\ Landed(r.first)
  /\ ranges' = [ranges EXCEPT ![t] = rest]
  /\ IF rest # << >>
     THEN Goto(t, IF r.first = r.last THEN "fetch" ELSE "fill") /\ UNCHANGED detectorLock
     ELSE IF detectorLock = t
          THEN Goto(t, "idle") /\ detectorLock' = NoOne
          ELSE Goto(t, "pin") /\ UNCHANGED detectorLock
  /\ UNCHANGED <<cacheLock, detector, shared, index, bounds>>
----------------------------------------------------------------------------
(* cache_stats: the cache, and under it the detector and the strategy.     *)
CacheStats(t) ==
  /\ Idle(t, "cache_stats") /\ cacheLock = NoOne /\ Count
  /\ cacheLock' = t /\ Goto(t, "stats")
  /\ UNCHANGED <<cache, detector, detectorLock, inFlight, shared, index, ranges, pauses>>

StatsRead(t) ==
  /\ pc[t] = "stats" /\ detectorLock = NoOne
  /\ cacheLock' = NoOne /\ Goto(t, "idle")
  /\ UNCHANGED <<cache, detector, detectorLock, inFlight, shared, index, ranges, bounds>>

(* warmup: spin until loaded or cancelled, then join, the handle's mutex   *)
(* held.                                                                   *)
Warmup(t) ==
  /\ Idle(t, "warmup") /\ Goto(t, "warmup") /\ Count
  /\ UNCHANGED <<cache, cacheLock, detector, detectorLock, inFlight, shared, index, ranges, pauses>>

WarmupSpins(t) ==
  pc[t] = "warmup" /\ ~complete /\ ~cancelled /\ UNCHANGED vars

WarmupSpun(t) ==
  /\ pc[t] = "warmup" /\ (complete \/ cancelled)
  /\ \A u \in Threads : pc[u] # "join"
  /\ handle' = FALSE /\ Goto(t, IF handle THEN "join" ELSE "idle")
  /\ UNCHANGED <<cache, cacheLock, detector, detectorLock, inFlight, strategy, paused, started,
                 complete, cancelled, eager, dropped, index, ranges, bounds>>

WarmupJoined(t) ==
  /\ pc[t] = "join" /\ eager.pc = "done" /\ Goto(t, "idle")
  /\ UNCHANGED <<cache, cacheLock, detector, detectorLock, inFlight, shared, index, ranges, bounds>>

PausePrefetch(t) ==
  /\ Idle(t, "pause_prefetch") /\ ~paused
  /\ pauses < MaxPauses /\ pauses' = pauses + 1 /\ paused' = TRUE
  /\ UNCHANGED <<cache, cacheLock, detector, detectorLock, inFlight, strategy, started, complete,
                 cancelled, handle, eager, dropped, local, calls>>

ResumePrefetch(t) ==
  /\ Idle(t, "resume_prefetch") /\ paused /\ paused' = FALSE
  /\ UNCHANGED <<cache, cacheLock, detector, detectorLock, inFlight, strategy, started, complete,
                 cancelled, handle, eager, dropped, local, bounds>>
----------------------------------------------------------------------------
(* The background thread: a range goes in flight, one lock per page ...    *)
EagerRangeHeedingPause ==                    \* MUTANT: a pause ends the thread
  /\ eager.pc = "range"
  /\ eager' = IF cancelled \/ paused THEN [eager EXCEPT !.pc = "done"]
              ELSE [eager EXCEPT !.pc = "insert", !.page = Head(eager.todo).first]
  /\ UNCHANGED <<callers, cache, cacheLock, inFlight, complete>>

EagerRange ==
  /\ eager.pc = "range"
  /\ eager' = IF cancelled THEN [eager EXCEPT !.pc = "done"]
              ELSE [eager EXCEPT !.pc = "insert", !.page = Head(eager.todo).first]
  /\ UNCHANGED <<callers, cache, cacheLock, inFlight, complete>>

EagerInsert ==
  LET r == Head(eager.todo) IN
  /\ eager.pc = "insert"
  /\ inFlight' = inFlight \cup {eager.page}
  /\ eager' = IF eager.page = r.last THEN [eager EXCEPT !.pc = "page", !.page = r.first]
              ELSE [eager EXCEPT !.page = @ + 1]
  /\ UNCHANGED <<callers, cache, cacheLock, complete>>

(* ... then each of its pages is cached, and leaves, unless cancelled.     *)
EagerPage ==
  /\ eager.pc = "page"
  /\ eager' = [eager EXCEPT !.pc = IF cancelled THEN "done" ELSE "set"]
  /\ UNCHANGED <<callers, cache, cacheLock, inFlight, complete>>

EagerSet ==
  /\ eager.pc = "set" /\ cacheLock = NoOne
  /\ cache' = Set(cache, eager.page, FALSE)
  /\ eager' = [eager EXCEPT !.pc = "remove"]
  /\ UNCHANGED <<callers, cacheLock, inFlight, complete>>

EagerRemove ==
  LET rest == Tail(eager.todo) IN
  /\ eager.pc = "remove"
  /\ Landed(eager.page)
  /\ eager' = IF eager.page < Head(eager.todo).last
              THEN [eager EXCEPT !.pc = "page", !.page = @ + 1]
              ELSE [pc |-> IF rest = << >> THEN "complete" ELSE "range", page |-> 0, todo |-> rest]
  /\ UNCHANGED <<callers, cache, cacheLock, complete>>

EagerComplete ==
  /\ eager.pc = "complete" /\ complete' = TRUE
  /\ eager' = [eager EXCEPT !.pc = "done"]
  /\ UNCHANGED <<callers, cache, cacheLock, inFlight>>

DropDetached ==                              \* MUTANT: cancel, and do not join
  /\ dropped = "no" /\ \A t \in Threads : pc[t] = "idle"
  /\ cancelled' = TRUE /\ handle' = FALSE /\ dropped' = "yes"
  /\ UNCHANGED <<cache, cacheLock, detector, detectorLock, inFlight, strategy, paused, started,
                 complete, eager, local, bounds>>

(* Drop, when no call is left: cancel, and join.                           *)
Drop ==
  /\ dropped = "no" /\ \A t \in Threads : pc[t] = "idle"
  /\ cancelled' = TRUE /\ handle' = FALSE
  /\ dropped' = IF handle THEN "joining" ELSE "yes"
  /\ UNCHANGED <<cache, cacheLock, detector, detectorLock, inFlight, strategy, paused, started,
                 complete, eager, local, bounds>>

DropJoined ==
  /\ dropped = "joining" /\ eager.pc = "done" /\ dropped' = "yes"
  /\ UNCHANGED <<cache, cacheLock, detector, detectorLock, inFlight, strategy, paused, started,
                 complete, cancelled, handle, eager, local, bounds>>

Dropped == dropped = "yes" /\ UNCHANGED vars
----------------------------------------------------------------------------
CallerStarts(t) ==
  \/ \E r \in Records : OnAccess(t, r)
  \/ \E from, to \in Records : PrefetchViewport(t, from, to)
  \/ CacheStats(t) \/ Warmup(t) \/ PausePrefetch(t) \/ ResumePrefetch(t)

CallerStep(t) ==
  \/ ObserveRecord(t) \/ StartEager(t) \/ StoreHandle(t) \/ CheckEager(t)
  \/ TouchPage(t) \/ CheckAdaptive(t) \/ LockDetector(t) \/ Speculate(t)
  \/ FetchRange(t) \/ FillPage(t) \/ PinViewport(t)
  \/ StatsRead(t) \/ WarmupSpins(t) \/ WarmupSpun(t) \/ WarmupJoined(t)

EagerStep ==
  EagerRange \/ EagerInsert \/ EagerPage \/ EagerSet \/ EagerRemove \/ EagerComplete

Next ==
  \/ \E t \in Threads : CallerStarts(t) \/ CallerStep(t)
  \/ EagerStep \/ Drop \/ DropJoined \/ Dropped

(* The scheduler runs every thread that can run.                           *)
Fairness == (\A t \in Threads : WF_vars(CallerStep(t))) /\ WF_vars(EagerStep \/ DropJoined)

SafetySpec == Init /\ [][Next]_vars
Spec == SafetySpec /\ Fairness
----------------------------------------------------------------------------
Pages == 0 .. LastPage
PageRange == [first : Pages, last : Pages]

TypeOK ==
  /\ cache.lru \in Seq(Pages) /\ cache.pinned \subseteq Cached(cache)
  /\ {cacheLock, detectorLock} \subseteq Threads \cup {NoOne}
  /\ inFlight \subseteq Pages
  /\ strategy \in {"Lazy", "Adaptive", "Eager"}
  /\ {paused, started, complete, cancelled, handle} \subseteq BOOLEAN
  /\ eager.todo \in Seq(PageRange) /\ eager.page \in Pages \cup {0}
  /\ \A t \in Threads : ranges[t] \in Seq(PageRange) /\ index[t] \in Nat

(* docs/adaptive-prefetch.md, "bounded LRU page cache": never more than MaxPages,    *)
(* each once, whoever fills it, and nothing stays pinned between calls.    *)
CacheBounded ==
  /\ Len(cache.lru) <= MaxPages
  /\ Cardinality(Cached(cache)) = Len(cache.lru)
  /\ cache.pinned = {}

(* A page in flight is in the range of somebody fetching it: one left      *)
(* behind would never be fetched ahead again.                              *)
Fetching(t) == IF pc[t] = "fill" THEN ranges[t][1].first .. ranges[t][1].last ELSE {}
InFlightIsFetched ==
  LET byEager == IF eager.todo = << >> THEN {} ELSE Head(eager.todo).first .. Head(eager.todo).last
  IN ~cancelled => inFlight \subseteq byEager \cup UNION {Fetching(t) : t \in Threads}

(* complete is what warmup() waits for: by then the sector has been        *)
(* loaded, as far as the cache can hold it, whatever ran meanwhile.        *)
CompleteIsLoaded ==
  complete => Len(cache.lru) = IF LastPage + 1 < MaxPages THEN LastPage + 1 ELSE MaxPages

(* Drop leaves no thread behind.                                           *)
NoThreadLeft == dropped = "yes" => eager.pc \in {"off", "done"}

(* query.rs: "protected by internal mutexes so the reader remains Send +   *)
(* Sync": no two callers wait for each other's mutex.                      *)
NoLockCycle ==
  ~ \E t, u \in Threads :
      /\ cacheLock = t /\ pc[t] = "stats"
      /\ detectorLock = u /\ pc[u] \in {"speculate", "fill"}

(* Every call but warmup() returns, whatever the others do, unless a       *)
(* cache_stats() and an on_access() have come to wait for each other: they *)
(* wait for good, and so does whoever needs what they hold.                *)
CallsReturn ==
  \A t \in Threads : pc[t] \notin {"idle", "warmup"} ~> pc[t] = "idle" \/ ~NoLockCycle

(* warmup() returns if the background thread was started, unless that      *)
(* happens ...                                                             *)
WarmupReturnsIfStarted ==
  \A t \in Threads : pc[t] = "warmup" /\ started ~> pc[t] = "idle" \/ ~NoLockCycle

(* ... and in any case, if it only waits for a prefetch "in progress"      *)
(* (query.rs).                                                             *)
WarmupReturns == \A t \in Threads : pc[t] = "warmup" ~> pc[t] = "idle"
============================================================================
