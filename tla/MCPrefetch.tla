----------------------------- MODULE MCPrefetch -----------------------------
(* Instances of PrefetchEngine for TLC: two callers, and what each calls.  *)
EXTENDS PrefetchEngine, TLC

CONSTANTS t1, t2

MCThreads == {t1, t2}

(* One reads records and waits for the warm-up; the other asks for         *)
(* statistics, shows viewports and pauses.                                 *)
MCCalls ==
  (t1 :> {"on_access", "warmup"}) @@
  (t2 :> {"cache_stats", "prefetch_viewport", "pause_prefetch", "resume_prefetch"})

MCReadersAndStats == (t1 :> {"on_access"}) @@ (t2 :> {"cache_stats"})
============================================================================
