--------------------------- MODULE MCServiceProxy ---------------------------
(* Two callers; three ways to annotate the two methods.                    *)
EXTENDS ServiceProxy

CONSTANTS c1, c2
MCCallers == {c1, c2}

Annotated(get, put) == [m \in {"Get", "Put"} |-> IF m = "Get" THEN get ELSE put]

MCAdvices == {
  Annotated({"cacheable"}, {"cacheEvict", "retry", "transactional", "circuitBreaker"}),
  Annotated({"cacheable", "authorize", "cacheEvict"}, {"cacheEvict", "retry"}),
  Annotated({"cacheable", "transactional"}, {"cacheEvict", "bulkhead", "rateLimit"}) }
=============================================================================
