---------------------------- MODULE ModelsCache ----------------------------
(***************************************************************************)
(* GET /v1/models (server.rs: models_handler).  The answer of the backends *)
(* is kept for MODELS_CACHE_TTL.  A request that finds the cache empty or  *)
(* expired fetches the answer through proxy_request (module Proxy), stores *)
(* it, and answers from the cache; nothing keeps several requests from     *)
(* fetching at the same time, and none waits for another.  The cache is a  *)
(* static: a reload does not clear it.                                     *)
(*                                                                         *)
(* Data.  The backends' answer is the version of their model list; they    *)
(* are "ok", or "unusable" (2xx with a body that is empty or too long), or *)
(* "gone" (proxy_request ends with an error).  Time is the age of the      *)
(* entry in ticks, up to TTL; an empty cache is an entry without content   *)
(* that has expired.                                                       *)
(***************************************************************************)
EXTENDS Naturals

CONSTANTS
  Request,      \* requests for the model list, each used again and again
  TTL,          \* MODELS_CACHE_TTL, in ticks
  MaxVersion    \* bound on the versions of the model list

ASSUME ModelsAssumption ==
  /\ TTL \in Nat \ {0}
  /\ MaxVersion \in Nat \ {0}

Versions == 1 .. MaxVersion
Nothing == 0

VARIABLES
  backend,   \* how the backends answer now
  version,   \* the model list they have now
  entry,     \* MODELS_CACHE: content and age
  pc,        \* where each request is
  got,       \* what its fetch has returned
  quiet,     \* history: ticks since an answer was last to be had, up to TTL
  late       \* history: the request came after TTL such ticks, and none is to be had since

reqVars == <<pc, got>>
vars == <<backend, version, entry, reqVars, quiet, late>>

Init ==
  /\ backend \in {"ok", "unusable", "gone"}
  /\ version = 1
  /\ entry = [content |-> Nothing, age |-> TTL]
  /\ pc = [r \in Request |-> "idle"]
  /\ got = [r \in Request |-> Nothing]
  /\ quiet = 0
  /\ late = [r \in Request |-> FALSE]

----------------------------------------------------------------------------
(* The environment. *)

BackendChange(b) ==
  /\ backend # b
  /\ backend' = b
  /\ IF b = "ok"
       THEN quiet' = 0 /\ late' = [r \in Request |-> FALSE]
       ELSE UNCHANGED <<quiet, late>>
  /\ UNCHANGED <<version, entry, reqVars>>

\* Other models are served, or a reload brought other backends.
ModelsChange ==
  /\ version < MaxVersion
  /\ version' = version + 1
  /\ UNCHANGED <<backend, entry, reqVars, quiet, late>>

Older(n) == IF n < TTL THEN n + 1 ELSE n

Tick ==
  /\ entry' = [entry EXCEPT !.age = Older(@)]
  /\ quiet' = IF backend = "ok" \/ \E r \in Request : pc[r] = "store"
                THEN 0 ELSE Older(quiet)
  /\ UNCHANGED <<backend, version, reqVars, late>>

----------------------------------------------------------------------------
(* models_handler *)

\* Mutant: what has been fetched once is kept.
ExpiredOnce == entry.content = Nothing

expired == entry.age >= TTL

Check(r) ==
  /\ pc[r] = "idle"
  /\ pc' = [pc EXCEPT ![r] = IF expired THEN "fetch" ELSE "read"]
  /\ late' = [late EXCEPT ![r] = quiet = TTL]
  /\ UNCHANGED <<backend, version, entry, got, quiet>>

\* The answer is complete: to_bytes returns it.
Fetched(r) ==
  /\ pc[r] = "fetch" /\ backend = "ok"
  /\ got' = [got EXCEPT ![r] = version]
  /\ pc' = [pc EXCEPT ![r] = "store"]
  /\ UNCHANGED <<backend, version, entry, quiet, late>>

\* Mutant: what is in the cache is better than an error.
FetchFailedReads(r) ==
  /\ pc[r] = "fetch" /\ backend = "gone"
  /\ pc' = [pc EXCEPT ![r] = "read"]
  /\ UNCHANGED <<backend, version, entry, got, quiet, late>>

\* Not a 2xx: the request gets that answer.
FetchFailed(r) ==
  /\ pc[r] = "fetch" /\ backend = "gone"
  /\ pc' = [pc EXCEPT ![r] = "idle"]
  /\ UNCHANGED <<backend, version, entry, got, quiet, late>>

\* Mutant: an empty body is stored.
FetchUnusableStores(r) ==
  /\ pc[r] = "fetch" /\ backend = "unusable"
  /\ pc' = [pc EXCEPT ![r] = "store"]
  /\ UNCHANGED <<backend, version, entry, got, quiet, late>>

\* No body, or one beyond 8192 bytes: 503.
FetchUnusable(r) ==
  /\ pc[r] = "fetch" /\ backend = "unusable"
  /\ pc' = [pc EXCEPT ![r] = "idle"]
  /\ UNCHANGED <<backend, version, entry, got, quiet, late>>

\* The client goes away: the handler is dropped at its await.
Cancel(r) ==
  /\ pc[r] = "fetch"
  /\ pc' = [pc EXCEPT ![r] = "idle"]
  /\ UNCHANGED <<backend, version, entry, got, quiet, late>>

\* The entry is replaced, whatever it has become since the check.
Store(r) ==
  /\ pc[r] = "store"
  /\ entry' = [content |-> got[r], age |-> 0]
  /\ got' = [got EXCEPT ![r] = Nothing]
  /\ pc' = [pc EXCEPT ![r] = "read"]
  /\ UNCHANGED <<backend, version, quiet, late>>

\* 200 with the entry (or 503, "models cache empty after fetch").
Read(r) ==
  /\ pc[r] = "read"
  /\ pc' = [pc EXCEPT ![r] = "idle"]
  /\ UNCHANGED <<backend, version, entry, got, quiet, late>>

Serve(r) ==
  Fetched(r) \/ FetchFailed(r) \/ FetchUnusable(r) \/ Store(r) \/ Read(r)

Next ==
  \/ \E b \in {"ok", "unusable", "gone"} : BackendChange(b)
  \/ ModelsChange
  \/ Tick
  \/ \E r \in Request : Check(r) \/ Serve(r) \/ Cancel(r)

Spec == Init /\ [][Next]_vars

\* Time passes, and a request that has come in ends: every wait in
\* proxy_request has a timeout.  No request needs to come.
Fairness == WF_vars(Tick) /\ \A r \in Request : WF_vars(Serve(r))

FairSpec == Spec /\ Fairness

----------------------------------------------------------------------------
(* Properties. *)

\* Types, and a request has content in hand exactly while it is to store it.
TypeOK ==
  /\ backend \in {"ok", "unusable", "gone"}
  /\ version \in Versions
  /\ entry \in [content : {Nothing} \cup Versions, age : 0 .. TTL]
  /\ pc \in [Request -> {"idle", "fetch", "store", "read"}]
  /\ got \in [Request -> {Nothing} \cup Versions]
  /\ \A r \in Request : pc[r] = "store" <=> got[r] # Nothing
  /\ quiet \in 0 .. TTL
  /\ late \in [Request -> BOOLEAN]

\* "models cache empty after fetch" never happens: a request that gets to read
\* the cache finds something there, whatever others have stored since.
NeverEmpty == \A r \in Request : pc[r] = "read" => entry.content # Nothing

\* README: /v1/models "keeps returning 200 for up to 10 minutes after every
\* backend has gone away".  A request that comes when no answer has been to be
\* had for the time-to-live, and is not to be had while it runs, gets no 200,
\* however long the fetches of others took.
GoneAfterTTL == \A r \in Request : late[r] => pc[r] # "read"

\* A slow fetch may overwrite a newer answer with an older one, but not for
\* ever: when the backends stay up, there comes a time after which every answer
\* is their present list.
FreshInTheEnd ==
  <>[](backend = "ok") => <>[](\A r \in Request : pc[r] = "read" => entry.content = version)

=============================================================================
