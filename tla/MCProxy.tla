------------------------------ MODULE MCProxy ------------------------------
(* Worker lists for the runs of module Proxy. *)
EXTENDS Proxy, TLC

Node(u, max, penalty) == [url |-> u, max_load |-> max, load_penalty |-> penalty]

CONSTANTS u1, u2

\* Replicas come, go and change places.
ChangingReplicas == {<<Node(u1, 1, 0), Node(u2, 1, 1)>>, <<Node(u2, 1, 0)>>}

\* Of the reloads, only those that take a replica away, so that an index into
\* the old list may be none of the new one.
ListShrinks == \A g \in 1 .. Len(pool) - 1 : Len(pool[g + 1]) < Len(pool[g])

\* A single replica, which all requests compete for.
OneReplica == {<<Node(u1, 1, 0)>>}

\* Requests are interchangeable (no liveness is checked with this).
RequestSymmetry == Permutations(Request)

=============================================================================
