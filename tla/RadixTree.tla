----------------------------- MODULE RadixTree -----------------------------
(***************************************************************************)
(* The radix tree of a router (tree.rs), as the router uses it             *)
(* (routing.rs): select_worker matches a prompt against it while no lock   *)
(* is held, record_routed inserts a prompt under the read side of          *)
(* eviction_lock, the eviction task runs a pass under its write side.      *)
(*                                                                         *)
(* A node is an index of the sequence `node`, in the order of creation; a  *)
(* node that eviction has unlinked keeps its index, because a match may    *)
(* still hold a reference to it.  A step is what a DashMap guard makes     *)
(* atomic: insert holds the entry of the child from the lookup to the end  *)
(* of the split, so one turn of its loop is one step; a match lets go of   *)
(* the map before it reads the child's text, and of the text before it     *)
(* picks a tenant, so these are steps of their own.  Inserts interleave    *)
(* with inserts and with matches, matches also with a pass.                *)
(*                                                                         *)
(* Data.  A text is a sequence of characters; how they are encoded in      *)
(* UTF-8 is left out.  The epoch counter is bounded by MaxEpoch.           *)
(***************************************************************************)
EXTENDS Naturals, Sequences, FiniteSets, Bags

CONSTANTS
  Tenant,       \* the URLs of the router's workers
  Empty,        \* the tenant "empty", returned when a node has no tenant
  NoTenant,     \* last_tenant is None
  Text,         \* the routing texts of requests
  Task,         \* request tasks
  NThreads,     \* worker threads of the tokio runtime
  MaxSize,      \* cache.max_tree_size
  DirectOps,    \* the operations of Tree that the router does not use, too
  TouchEvery,   \* a match refreshes the timestamp once in TouchEvery epochs (8)
  MaxEpoch      \* bound on the epoch counter

\* The characters of the texts.
Char == UNION {{x[i] : i \in DOMAIN x} : x \in Text}

ASSUME TreeAssumption ==
  /\ Empty \notin Tenant /\ NoTenant \notin Tenant \cup {Empty}
  /\ IsFiniteSet(Tenant) /\ IsFiniteSet(Task)
  /\ Text \subseteq Seq(Char) /\ << >> \notin Text
  /\ NThreads \in Nat \ {0}
  /\ MaxSize \in Nat
  /\ DirectOps \in BOOLEAN
  /\ TouchEvery \in Nat \ {0}
  /\ MaxEpoch \in Nat /\ Cardinality(Tenant) <= MaxEpoch

VARIABLES
  node,      \* the nodes, in the order of creation
  count,     \* tenant_char_count
  epoch,     \* EPOCH_COUNTER
  task,      \* the request tasks
  evict,     \* the eviction task
  dropped    \* eviction_shutdown: the router has been dropped

treeVars == <<node, count, epoch>>
vars == <<treeVars, task, evict, dropped>>

Root == 1
Nodes == DOMAIN node

\* f with f[k] = v, and f without k: insert and remove of a map.
Put(f, k, v) == [x \in DOMAIN f \cup {k} |-> IF x = k THEN v ELSE f[x]]
Remove(f, k) == [x \in DOMAIN f \ {k} |-> f[x]]

\* shared_prefix_count: number of leading characters s and t have in common.
SharedCount(s, t) ==
  CHOOSE k \in 0 .. Len(s) :
    /\ k <= Len(t) /\ \A i \in 1 .. k : s[i] = t[i]
    /\ k < Len(s) /\ k < Len(t) => s[k + 1] # t[k + 1]

\* advance_by_chars and the two halves of split_at_char.
Take(s, n) == SubSeq(s, 1, n)
Advance(s, n) == SubSeq(s, n + 1, Len(s))

Has(n, t) == t \in DOMAIN node[n].access
Children(n) == {node[n].children[c] : c \in DOMAIN node[n].children}
LeafOf(n) == {t \in DOMAIN node[n].access : \A c \in Children(n) : ~Has(c, t)}

NewNode(text, parent, access, last) ==
  [text |-> text, children |-> << >>, parent |-> parent,
   access |-> access, last |-> last]

----------------------------------------------------------------------------
(* Tasks, threads and the eviction lock. *)

Idle == [pc |-> "idle", text |-> << >>, tenant |-> NoTenant,
         at |-> Root, child |-> Root, off |-> 0, queue |-> {}, stamp |-> 0]

Busy == {k \in Task : task[k].pc # "idle"}
Evicting == evict.pc \in {"pop", "prune"}

\* Tree operations do not await: each occupies a thread until it returns.
FreeThread == Cardinality(Busy) + (IF Evicting THEN 1 ELSE 0) < NThreads

\* Operations that have taken an epoch and have yet to write it to a node.
Drawn == {"stamp", "refresh"}

\* Every operation takes one epoch, so none is left without.
Undrawn == {k \in Busy : task[k].pc \notin Drawn}
EpochLeft == epoch + Cardinality(Undrawn) < MaxEpoch

\* The tasks that hold the read side of eviction_lock.
Placing == {"insert", "refresh"}
Inserting == {k \in Task : task[k].pc \in Placing}

\* Mutant: a pass does not wait for them.
AlwaysFree == TRUE

WriteLockFree == Inserting = {}

\* What is left of the text of task k.
Remaining(k) == Advance(task[k].text, task[k].off)

Goto(k, pc) == task' = [task EXCEPT ![k].pc = pc]

\* get_epoch: the timestamp that task k goes on to write.
Draw(k, pc) ==
  /\ task' = [task EXCEPT ![k].pc = pc, ![k].stamp = epoch]
  /\ epoch' = epoch + 1

\* Another task may have written a later one meanwhile, or taken the tenant off
\* the node: the map entry is set all the same.
Touch(k) ==
  /\ task[k].pc \in Drawn
  /\ node' = [node EXCEPT ![task[k].at].access = Put(@, task[k].tenant, task[k].stamp)]
  /\ task' = [task EXCEPT ![k] = Idle]
  /\ UNCHANGED <<count, epoch, evict, dropped>>

\* CacheRouter::new registers every worker at the root, one after the other.
Init ==
  /\ \E order \in [Tenant -> 0 .. Cardinality(Tenant) - 1] :
       /\ \A s, t \in Tenant : order[s] = order[t] => s = t
       /\ node = <<NewNode(<< >>, Root, order, NoTenant)>>
  /\ count = [t \in Tenant |-> 0]
  /\ epoch = Cardinality(Tenant)
  /\ task = [k \in Task |-> Idle]
  /\ evict = [pc |-> "wait", limit |-> MaxSize, final |-> FALSE,
              heap |-> EmptyBag, at |-> Root, tenant |-> NoTenant]
  /\ dropped = FALSE

----------------------------------------------------------------------------
(* insert *)

\* record_routed asks for the read lock, for a second at most.
Record(k, x, t) ==
  /\ task[k].pc = "idle" /\ ~dropped /\ FreeThread /\ EpochLeft
  /\ task' = [task EXCEPT ![k] = [Idle EXCEPT !.pc = "lock", !.text = x, !.tenant = t]]
  /\ UNCHANGED <<treeVars, evict, dropped>>

\* "Skipping tree insert: eviction lock held >1s"
LockTimeout(k) ==
  /\ task[k].pc = "lock" /\ Evicting
  /\ task' = [task EXCEPT ![k] = Idle]
  /\ UNCHANGED <<treeVars, evict, dropped>>

\* The tenant is at the root.  (It is also in tenant_char_count: it has been
\* since CacheRouter::new.)
InsertAtRoot(k) ==
  LET t == task[k].tenant
  IN  /\ task[k].pc = "lock" /\ ~Evicting
      /\ node' = IF Has(Root, t) THEN node
                 ELSE [node EXCEPT ![Root].access = Put(@, t, 0)]
      /\ Goto(k, "insert")
      /\ UNCHANGED <<count, epoch, evict, dropped>>

Vacant(k) == Remaining(k)[1] \notin DOMAIN node[task[k].at].children
ChildOf(k) == node[task[k].at].children[Remaining(k)[1]]

\* No child on the next character: the rest of the text is a new leaf.
InsertLeaf(k) ==
  LET p == task[k].at
      t == task[k].tenant
      rest == Remaining(k)
      leaf == NewNode(rest, p, [s \in {t} |-> epoch], t)
  IN  /\ task[k].pc = "insert" /\ rest # << >> /\ Vacant(k)
      /\ node' = Append([node EXCEPT ![p].children = Put(@, rest[1], Len(node) + 1)], leaf)
      /\ count' = [count EXCEPT ![t] = @ + Len(rest)]
      /\ epoch' = epoch + 1
      /\ task' = [task EXCEPT ![k] = Idle]
      /\ UNCHANGED <<evict, dropped>>

\* Mutant: the node that is split keeps its parent pointer.
SplitOrphan(n, p, shared) ==
  LET whole == node[n].text
      head == [NewNode(Take(whole, shared), p, node[n].access, node[n].last)
                 EXCEPT !.children = [c \in {whole[shared + 1]} |-> n]]
  IN  Append([node EXCEPT ![p].children[whole[1]] = Len(node) + 1,
                          ![n].text = Advance(whole, shared)], head)

\* The nodes once n, the child of p on the next character, is split after
\* `shared` characters: a new node takes the head of its text, a copy of its
\* tenants and its place under p.
Split(n, p, shared) ==
  LET whole == node[n].text
      head == [NewNode(Take(whole, shared), p, node[n].access, node[n].last)
                 EXCEPT !.children = [c \in {whole[shared + 1]} |-> n]]
  IN  Append([node EXCEPT ![p].children[whole[1]] = Len(node) + 1,
                          ![n].text = Advance(whole, shared),
                          ![n].parent = Len(node) + 1], head)

\* Mutant: the tenant is attached and not charged.
ReachUncharged(k, nodes, m) ==
  LET t == task[k].tenant
  IN  /\ node' = IF t \in DOMAIN nodes[m].access THEN nodes
                 ELSE [nodes EXCEPT ![m].access = Put(@, t, 0)]
      /\ task' = [task EXCEPT ![k].at = m, ![k].off = @ + Len(nodes[m].text)]
      /\ UNCHANGED <<count, epoch, evict, dropped>>

\* Mutant: the tenant is charged again for a node it is attached to.
ReachRecharged(k, nodes, m) ==
  LET t == task[k].tenant
  IN  /\ node' = [nodes EXCEPT ![m].access = Put(@, t, 0)]
      /\ count' = [count EXCEPT ![t] = @ + Len(nodes[m].text)]
      /\ task' = [task EXCEPT ![k].at = m, ![k].off = @ + Len(nodes[m].text)]
      /\ UNCHANGED <<epoch, evict, dropped>>

\* Task k has reached node m of `nodes`, all of whose text it matches.  The
\* tenant is attached there and charged for it, if it was not before.
Reach(k, nodes, m) ==
  LET t == task[k].tenant
      new == t \notin DOMAIN nodes[m].access
  IN  /\ node' = IF new THEN [nodes EXCEPT ![m].access = Put(@, t, 0)] ELSE nodes
      /\ count' = IF new THEN [count EXCEPT ![t] = @ + Len(nodes[m].text)] ELSE count
      /\ task' = [task EXCEPT ![k].at = m, ![k].off = @ + Len(nodes[m].text)]
      /\ UNCHANGED <<epoch, evict, dropped>>

\* There is a child, and it is split or walked through.
InsertDown(k) ==
  /\ task[k].pc = "insert" /\ Remaining(k) # << >> /\ ~Vacant(k)
  /\ LET n == ChildOf(k)
         shared == SharedCount(Remaining(k), node[n].text)
     IN  IF shared < Len(node[n].text)
           THEN Reach(k, Split(n, task[k].at, shared), Len(node) + 1)
           ELSE Reach(k, node, n)

\* The text ends at a node: its timestamp is to be refreshed.
InsertEnd(k) ==
  /\ task[k].pc = "insert" /\ Remaining(k) = << >>
  /\ Draw(k, "refresh")
  /\ UNCHANGED <<node, count, evict, dropped>>

----------------------------------------------------------------------------
(* prefix_match_with_counts *)

Match(k, x) ==
  /\ task[k].pc = "idle" /\ ~dropped /\ FreeThread /\ EpochLeft
  /\ task' = [task EXCEPT ![k] = [Idle EXCEPT !.pc = "walk", !.text = x]]
  /\ UNCHANGED <<treeVars, evict, dropped>>

\* Look up the child on the next character; the walk ends without one.
MatchGet(k) ==
  /\ task[k].pc = "walk"
  /\ task' = IF Remaining(k) = << >> \/ Vacant(k)
               THEN [task EXCEPT ![k].pc = "pick"]
               ELSE [task EXCEPT ![k].pc = "read", ![k].child = ChildOf(k)]
  /\ UNCHANGED <<treeVars, evict, dropped>>

\* Mutant: a node that matches in part counts for nothing.
MatchReadWhole(k) ==
  LET n == task[k].child
      shared == SharedCount(Remaining(k), node[n].text)
      whole == shared = Len(node[n].text)
  IN  /\ task[k].pc = "read"
      /\ task' = [task EXCEPT ![k].pc = IF whole THEN "walk" ELSE "pick",
                              ![k].at = n,
                              ![k].off = IF whole THEN @ + shared ELSE @]
      /\ UNCHANGED <<treeVars, evict, dropped>>

\* Compare its text, which a split may have shortened since the lookup; the
\* walk ends inside a node that matches in part.
MatchRead(k) ==
  LET n == task[k].child
      shared == SharedCount(Remaining(k), node[n].text)
  IN  /\ task[k].pc = "read"
      /\ task' = [task EXCEPT ![k].pc = IF shared = Len(node[n].text) THEN "walk" ELSE "pick",
                              ![k].at = n,
                              ![k].off = @ + shared]
      /\ UNCHANGED <<treeVars, evict, dropped>>

\* The tenants the node may answer with: last_tenant while it is still there,
\* and any other otherwise.
Pickable(n) ==
  IF Has(n, node[n].last) THEN {node[n].last}
  ELSE IF DOMAIN node[n].access # {} THEN DOMAIN node[n].access
  ELSE {Empty}

MatchPick(k, t) ==
  /\ task[k].pc = "pick"
  /\ t \in Pickable(task[k].at)
  /\ node' = [node EXCEPT ![task[k].at].last = t]
  /\ task' = [task EXCEPT ![k].pc = "touch", ![k].tenant = t]
  /\ UNCHANGED <<count, epoch, evict, dropped>>

\* One match in TouchEvery refreshes the timestamp of the tenant it picked.
MatchTouch(k) ==
  /\ task[k].pc = "touch"
  /\ IF epoch % TouchEvery = 0
       THEN Draw(k, "stamp")
       ELSE epoch' = epoch + 1 /\ task' = [task EXCEPT ![k] = Idle]
  /\ UNCHANGED <<node, count, evict, dropped>>

----------------------------------------------------------------------------
(* evict_tenant_by_size, and the task that runs it *)

\* Nodes that can be reached from the root: an unlinked one has no children.
Attached == {Root} \cup UNION {Children(n) : n \in Nodes}

EvictionEntry(n, t) == [timestamp |-> node[n].access[t], tenant |-> t, node |-> n]

Leaves == UNION {{EvictionEntry(n, t) : t \in LeafOf(n)} : n \in Attached}

\* A tick: the lock is taken for writing and the leaves are collected.  The
\* size is 0 in the daily cleanup and in the last pass, after the router has
\* been dropped.
EvictStart ==
  /\ evict.pc = "wait" /\ WriteLockFree /\ FreeThread
  /\ \E limit \in IF dropped THEN {0} ELSE {0, MaxSize} :
       evict' = [evict EXCEPT !.pc = "pop", !.limit = limit, !.final = dropped,
                              !.heap = SetToBag(Leaves)]
  /\ UNCHANGED <<treeVars, task, dropped>>

\* The entry popped from the heap: one with the least timestamp.
Popped(e) ==
  /\ evict.pc = "pop" /\ e \in BagToSet(evict.heap)
  /\ \A f \in BagToSet(evict.heap) : e.timestamp <= f.timestamp

Rest(e) == evict.heap (-) SetToBag({e})

\* Mutant: < instead of <=.
WithinStrictly(t) == t \in Tenant /\ count[t] < evict.limit

\* used_size <= max_size ("empty" has no size, and is always over it).
Within(t) == t \in Tenant /\ count[t] <= evict.limit

EvictSkip(e) ==
  /\ Popped(e)
  /\ Within(e.tenant) \/ e.tenant \notin LeafOf(e.node)
  /\ evict' = [evict EXCEPT !.heap = Rest(e)]
  /\ UNCHANGED <<treeVars, task, dropped>>

\* Mutant: a tenant stays charged for what it has lost.
UnchargeNothing(t, n) == count

\* count.saturating_sub(node_len), of a tenant that has a count.
Uncharge(t, n) ==
  IF t \notin Tenant THEN count
  ELSE [count EXCEPT ![t] = IF @ >= n THEN @ - n ELSE 0]

\* The tenant is taken off a node of which it is a leaf.
EvictRemove(e) ==
  /\ Popped(e)
  /\ ~Within(e.tenant) /\ e.tenant \in LeafOf(e.node)
  /\ count' = Uncharge(e.tenant, Len(node[e.node].text))
  /\ node' = [node EXCEPT ![e.node].access = Remove(@, e.tenant)]
  /\ evict' = [evict EXCEPT !.pc = "prune", !.heap = Rest(e),
                            !.at = e.node, !.tenant = e.tenant]
  /\ UNCHANGED <<epoch, task, dropped>>

\* Mutant: empty nodes stay in the tree.
KeepLinked(n) == node

\* An empty node is unlinked from its parent.
Unlinked(n) ==
  IF n # Root /\ node[n].children = << >> /\ node[n].access = << >>
    THEN [node EXCEPT ![node[n].parent].children = Remove(@, node[n].text[1])]
    ELSE node

\* Mutant: only the leaves of the scan are looked at.
NoNewLeaf(n, t) == {}

\* The parent of n, once it has become a leaf of the tenant.
NewLeaf(n, t) ==
  {p \in {node[n].parent} :
     n # Root /\ Has(p, t) /\ \A c \in Children(p) : ~Has(c, t)}

Pushed(n, t) == {EvictionEntry(p, t) : p \in NewLeaf(n, t)}

EvictPrune ==
  /\ evict.pc = "prune"
  /\ node' = Unlinked(evict.at)
  /\ evict' = [evict EXCEPT !.pc = "pop", !.at = Root, !.tenant = NoTenant,
                            !.heap = @ (+) SetToBag(Pushed(evict.at, evict.tenant))]
  /\ UNCHANGED <<count, epoch, task, dropped>>

\* The lock is released; the task ends with the pass that saw the shutdown.
EvictEnd ==
  /\ evict.pc = "pop" /\ BagToSet(evict.heap) = {}
  /\ evict' = [evict EXCEPT !.pc = IF evict.final THEN "stopped" ELSE "wait"]
  /\ UNCHANGED <<treeVars, task, dropped>>

\* The last reference to a router that a reload has replaced goes.
DropRouter ==
  /\ Busy = {} /\ ~dropped
  /\ dropped' = TRUE
  /\ UNCHANGED <<treeVars, task, evict>>

----------------------------------------------------------------------------
(* remove_tenant and prefix_match_tenant, which the router does not call *)

\* The leaves of the tenant are queued, in the order of the maps.
RemoveTenant(k, t) ==
  /\ DirectOps /\ task[k].pc = "idle" /\ ~dropped /\ FreeThread
  /\ task' = [task EXCEPT ![k] =
                [Idle EXCEPT !.pc = "remove", !.tenant = t,
                             !.queue = {n \in Attached : t \in LeafOf(n)}]]
  /\ UNCHANGED <<treeVars, evict, dropped>>

RemoveTake(k, n) ==
  /\ task[k].pc = "remove" /\ n \in task[k].queue
  /\ node' = [node EXCEPT ![n].access = Remove(@, task[k].tenant)]
  /\ task' = [task EXCEPT ![k].pc = "unlink", ![k].at = n, ![k].queue = @ \ {n}]
  /\ UNCHANGED <<count, epoch, evict, dropped>>

\* An empty node is unlinked, and the walk goes on at the parent.
RemoveUnlink(k) ==
  /\ task[k].pc = "unlink"
  /\ node' = Unlinked(task[k].at)
  /\ task' = [task EXCEPT ![k].pc = "remove",
                          ![k].queue = @ \cup NewLeaf(task[k].at, task[k].tenant)]
  /\ UNCHANGED <<count, epoch, evict, dropped>>

\* The tenant has no count any more; insert starts it again from 0.
RemoveEnd(k) ==
  /\ task[k].pc = "remove" /\ task[k].queue = {}
  /\ count' = [count EXCEPT ![task[k].tenant] = 0]
  /\ task' = [task EXCEPT ![k] = Idle]
  /\ UNCHANGED <<node, epoch, evict, dropped>>

MatchTenant(k, x, t) ==
  /\ DirectOps /\ task[k].pc = "idle" /\ ~dropped /\ FreeThread /\ EpochLeft
  /\ task' = [task EXCEPT ![k] =
                [Idle EXCEPT !.pc = "tenant_walk", !.text = x, !.tenant = t]]
  /\ UNCHANGED <<treeVars, evict, dropped>>

\* Mutant: nodes of other tenants are walked through.
AnyTenant(k, n) == TRUE

OwnNode(k, n) == Has(n, task[k].tenant)

\* The walk ends where the tenant does.
TenantGet(k) ==
  /\ task[k].pc = "tenant_walk"
  /\ task' = IF Remaining(k) # << >> /\ ~Vacant(k) /\ OwnNode(k, ChildOf(k))
               THEN [task EXCEPT ![k].pc = "tenant_read", ![k].child = ChildOf(k)]
               ELSE [task EXCEPT ![k].pc = "tenant_touch"]
  /\ UNCHANGED <<treeVars, evict, dropped>>

TenantRead(k) ==
  LET n == task[k].child
      shared == SharedCount(Remaining(k), node[n].text)
  IN  /\ task[k].pc = "tenant_read"
      /\ task' = [task EXCEPT
                    ![k].pc = IF shared = Len(node[n].text) THEN "tenant_walk"
                                                            ELSE "tenant_touch",
                    ![k].at = n,
                    ![k].off = @ + shared]
      /\ UNCHANGED <<treeVars, evict, dropped>>

\* The timestamp of the tenant, if it is there, is refreshed.
TenantTouch(k) ==
  /\ task[k].pc = "tenant_touch"
  /\ IF Has(task[k].at, task[k].tenant)
       THEN Draw(k, "stamp")
       ELSE task' = [task EXCEPT ![k] = Idle] /\ UNCHANGED epoch
  /\ UNCHANGED <<node, count, evict, dropped>>

----------------------------------------------------------------------------
EvictStep ==
  \/ EvictStart
  \/ \E e \in BagToSet(evict.heap) : EvictSkip(e) \/ EvictRemove(e)
  \/ EvictPrune
  \/ EvictEnd

InsertStep(k) ==
  LockTimeout(k) \/ InsertAtRoot(k) \/ InsertLeaf(k) \/ InsertDown(k) \/ InsertEnd(k)

MatchStep(k) ==
  MatchGet(k) \/ MatchRead(k) \/ MatchTouch(k)
  \/ \E t \in Tenant \cup {Empty} : MatchPick(k, t)

DirectStep(k) ==
  \/ \E n \in task[k].queue : RemoveTake(k, n)
  \/ RemoveUnlink(k) \/ RemoveEnd(k)
  \/ TenantGet(k) \/ TenantRead(k) \/ TenantTouch(k)

TaskStep(k) == InsertStep(k) \/ MatchStep(k) \/ DirectStep(k) \/ Touch(k)

Next ==
  \/ \E k \in Task, x \in Text :
       Match(k, x) \/ \E t \in Tenant : Record(k, x, t) \/ MatchTenant(k, x, t)
  \/ \E k \in Task, t \in Tenant : RemoveTenant(k, t)
  \/ \E k \in Task : TaskStep(k)
  \/ EvictStep
  \/ DropRouter

Spec == Init /\ [][Next]_vars

\* Ticks keep coming while the eviction task runs (eviction_interval_secs > 0),
\* a pass has no await, and an operation of a task neither.
Fairness ==
  /\ WF_vars(EvictStep)
  /\ \A k \in Task : WF_vars(TaskStep(k))

FairSpec == Spec /\ Fairness

----------------------------------------------------------------------------
(* Properties. *)

TypeOK ==
  /\ \A n \in Nodes :
       /\ node[n].parent \in Nodes
       /\ Children(n) \subseteq Nodes
       /\ DOMAIN node[n].access \subseteq Tenant \cup {Empty}
       /\ \A t \in DOMAIN node[n].access : node[n].access[t] \in 0 .. MaxEpoch
       /\ node[n].last \in Tenant \cup {Empty, NoTenant}
  /\ count \in [Tenant -> Nat]
  /\ epoch \in 0 .. MaxEpoch
  /\ \A k \in Task :
       /\ task[k].pc \in {"idle", "lock", "insert", "walk", "read", "pick", "touch",
                         "remove", "unlink", "tenant_walk", "tenant_read", "tenant_touch"}
                        \cup Drawn
       /\ task[k].at \in Nodes /\ task[k].child \in Nodes
       /\ task[k].queue \subseteq Nodes
       /\ task[k].off \in 0 .. Len(task[k].text)
       /\ task[k].stamp \in 0 .. MaxEpoch
  /\ evict.pc \in {"wait", "pop", "prune", "stopped"}
  /\ Evicting => Inserting = {}

\* The tree is linked up however inserts interleave: a child is filed under the
\* first character of its text and points back to its parent (eviction climbs
\* by that pointer), and what has been unlinked holds on to nothing.
LinksAgree ==
  /\ \A p \in Nodes : \A c \in DOMAIN node[p].children :
       LET n == node[p].children[c]
       IN  p \in Attached /\ node[n].parent = p /\ node[n].text[1] = c
  /\ node[Root].text = << >>

\* get_used_size_per_tenant: the characters of the nodes that hold t.
UsedSize(t) ==
  Cardinality(UNION {{n} \X (1 .. Len(node[n].text)) : n \in {m \in Attached : Has(m, t)}})

\* Whatever the interleaving, a tenant is never charged for more than it has
\* in the tree, so that eviction takes no more from it than the limit asks.
NeverOvercharged == \A t \in Tenant : count[t] <= UsedSize(t)

\* A match refreshes the timestamp of a tenant that a pass has taken off the node
\* since it was picked.
StaleTouch(t) ==
  \E k \in Task : /\ task[k].pc = "stamp" /\ task'[k].pc = "idle"
                  /\ task[k].tenant = t /\ ~Has(task[k].at, t)

\* A pass takes the tenant off a node that has been unlinked: only such a match
\* can have brought it there.
TakenTwice(t) ==
  /\ evict.pc = "pop" /\ evict'.pc = "prune"
  /\ evict'.tenant = t /\ evict'.at \notin Attached

\* The count falls behind the tree by stale touches and what comes of them, and
\* in no other way.
OnlyStaleTouchesDrift ==
  [][\A t \in Tenant :
       UsedSize(t)' + count[t] > UsedSize(t) + count'[t]
         => StaleTouch(t) \/ TakenTwice(t)]_vars

\* "Maintained counts should match computed counts" (test
\* test_char_count_consistency_after_operations), but for a tenant that is
\* being removed.
CountExact ==
  \A t \in Tenant :
    \/ count[t] = UsedSize(t)
    \/ \E k \in Task : task[k].pc \in {"remove", "unlink"} /\ task[k].tenant = t

\* A pass brings every tenant down to the limit.
PassDone == evict.pc = "pop" /\ BagToSet(evict.heap) = {}
PassMeetsLimit == PassDone => \A t \in Tenant : UsedSize(t) <= evict.limit

\* The comment in insert, "root is never evicted", although a pass does collect
\* the root as a leaf: a tenant that is left only there has nothing charged.  So
\* a match that finds nothing still finds a tenant.
RootKeepsTenants == Tenant \subseteq DOMAIN node[Root].access

\* The texts from the root to the nodes.
Path == LET P[n \in Nodes] == IF n = Root THEN << >> ELSE P[node[n].parent] \o node[n].text
        IN  P

\* A match returns the longest prefix the tree shares with the text, and a
\* tenant that holds the node where it ends, if anybody does.
Matched(k) == task[k].pc = "touch"
MatchExact ==
  \A k \in Task : Matched(k) =>
    /\ \A n \in Attached : SharedCount(task[k].text, Path[n]) <= task[k].off
    /\ \E n \in Attached : SharedCount(task[k].text, Path[n]) = task[k].off
    /\ DOMAIN node[task[k].at].access # {} => Has(task[k].at, task[k].tenant)

\* prefix_match_tenant returns the longest prefix the text shares with what the
\* tenant has in the tree.
TenantMatchExact ==
  \A k \in Task : task[k].pc = "tenant_touch" =>
    LET own == {SharedCount(task[k].text, Path[n]) :
                  n \in {n \in Attached : Has(n, task[k].tenant)}}
    IN  task[k].off \in own \cup {0} /\ \A i \in own : i <= task[k].off

\* remove_tenant leaves nothing of the tenant in the tree, and no node that
\* nobody needs.
RemoveComplete ==
  \A k \in Task : task[k].pc = "remove" /\ task[k].queue = {} =>
    \A n \in Attached :
      /\ ~Has(n, task[k].tenant)
      /\ n = Root \/ node[n].access # << >> \/ node[n].children # << >>

\* "Number of characters matched" (PrefixMatchResult): the characters a match
\* reports as shared are shared with some text that has been inserted.
MatchSound ==
  \A k \in Task : Matched(k) =>
    \E n \in Nodes : SharedCount(task[k].text, Path[n]) >= task[k].off

\* The nodes of a router that has been dropped are unlinked in the end.  Parent
\* and child own each other, so a node that stays linked is never freed.
DroppedTreeFreed == dropped ~> [](Attached = {Root})

=============================================================================
