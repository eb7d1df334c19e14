------------------------------- MODULE Config ------------------------------
(***************************************************************************)
(* The configuration of the router once it has been parsed (config.rs):    *)
(* sections and their defaults, validate, and the comparison that decides  *)
(* whether a reload may use a new configuration.  A configuration is a     *)
(* record with a field per section and the worker list.  Fractions are in  *)
(* hundredths; a URL is its scheme and the rest.                           *)
(***************************************************************************)
EXTENDS Integers, Sequences

\* impl Default of the sections.
Defaults ==
  [server |-> [host |-> "0.0.0.0", port |-> 6700],
   cache |-> [threshold |-> 30, match_abs_threshold |-> 8192,
              balance_abs_threshold |-> 5, balance_rel_threshold |-> 125,
              eviction_interval_secs |-> 60, max_tree_size |-> 1048576,
              daily_cleanup_hour_utc |-> -1],
   health |-> [endpoint |-> "/v1/models", interval_secs |-> 10,
               failure_threshold |-> 3, success_threshold |-> 1],
   proxy |-> [max_retries |-> 1, initial_backoff_ms |-> 100, max_backoff_ms |-> 5000,
              backoff_multiplier |-> 200, jitter_factor |-> 25,
              request_timeout_secs |-> 10000, connect_timeout_secs |-> 2,
              add_routed_peer_header |-> FALSE, max_body_size |-> 10485760,
              remote_media_url_policy |-> 200],
   circuit_breaker |-> [failure_threshold |-> 5, success_threshold |-> 2,
                        timeout_secs |-> 30],
   logging |-> [level |-> "info"]]

Sections == DOMAIN Defaults

\* default_max_load and default_load_penalty.
EntryDefaults == [max_load |-> 20, load_penalty |-> 0]

----------------------------------------------------------------------------

validate(c) ==
  /\ c.workers # << >>
  /\ \A i \in DOMAIN c.workers :
       c.workers[i].url[1] \in {"http", "https"} /\ c.workers[i].max_load > 0
  /\ c.cache.threshold \in 0 .. 100
  /\ c.proxy.jitter_factor \in 0 .. 100
  /\ c.server.port > 0
  /\ c.proxy.remote_media_url_policy \in {200} \cup (400 .. 599)
  /\ c.cache.daily_cleanup_hour_utc <= 23

\* Mutant: a section that was added later is not compared.
CompatibleButHealth(old, new) ==
  /\ old.server = new.server
  /\ old.cache = new.cache
  /\ old.proxy = new.proxy
  /\ old.circuit_breaker = new.circuit_breaker
  /\ old.logging = new.logging

\* Nothing but the worker list may differ.
validate_reload_compatibility(old, new) ==
  /\ old.server = new.server
  /\ old.cache = new.cache
  /\ old.health = new.health
  /\ old.proxy = new.proxy
  /\ old.circuit_breaker = new.circuit_breaker
  /\ old.logging = new.logging

\* What the consumers get, copied field by field: the router, the request path,
\* and the workers with their checker.
cache_config(c) == c.cache
proxy_config(c) == c.proxy
health_config(c) == c.health

=============================================================================
