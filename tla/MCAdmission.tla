---------------------------- MODULE MCAdmission -----------------------------
(***************************************************************************)
(* Small instances of Admission for TLC.  Offers are the requests that     *)
(* differ to some layer; MCSetups has every limiter alone, and the load    *)
(* shedder over one of them.                                               *)
(***************************************************************************)
EXTENDS Admission

Offer(kind, key, path) == [kind |-> kind, key |-> key, path |-> path]

Offers ==
  {Offer("plain", key, "/v1/messages") : key \in Keys}
    \cup {Offer("plain", CHOOSE key \in Keys : TRUE, "other"),
          Offer("badUrl", CHOOSE key \in Keys : TRUE, "/v1/messages")}

Setup(l, n, s) == [limiter |-> l, limit |-> n, shedding |-> s]

MCSetups ==
  {Setup(l, 1, FALSE) : l \in {"sliding", "memory", "redis"}}
    \cup {Setup("sliding", 2, FALSE)} \cup {Setup("sqlite", n, TRUE) : n \in {0, 1}}

\* SQLite, and the load shedder over it, are not about time.
Horizon == [sliding |-> 6, memory |-> 5, redis |-> 5, sqlite |-> 0]

Interchangeable == Permutations(Requests)
=============================================================================
