------------------------------ MODULE MCReload -----------------------------
(* Configuration files for the runs of module Reload. *)
EXTENDS Reload, ConfigLoad

Entry(u) == [url |-> <<"http", u>>]
Full(u) == [url |-> <<"https", u>>, max_load |-> 4, load_penalty |-> 1]

\* A base file; overlays with another list, another setting, a null in place of
\* a section or of the list, and nothing but comments; files that do not load.
Doc ==
  [base |-> Map([server |-> Map([host |-> Leaf("127.0.0.1"), port |-> Leaf(9090)]),
                 workers |-> Leaf(<<Entry("n1"), Full("n2")>>)]),
   fleet |-> Map([server |-> Null, workers |-> Leaf(<<Entry("n2")>>)]),
   port |-> Map([server |-> Map([port |-> Leaf(7000)])]),
   scalar |-> Map([server |-> Leaf("oops"), workers |-> Leaf(<<Entry("n3")>>)]),
   nobody |-> Map([workers |-> Leaf(<< >>)]),
   eager |-> Map([health |-> Map([interval_secs |-> Leaf(0)]), workers |-> Null]),
   blank |-> Null,
   broken |-> Unreadable]

LoadNamed(names) == load([i \in DOMAIN names |-> Doc[names[i]]])

\* The files of the moment, merged, are what the layers promise; so are they on
\* top of the base file, where what a file hides may have been set before.
LastFileWins ==
  LET stack == [i \in Files |-> Doc[files[i]]]
  IN  LayersOf(stack) /\ LayersOf(<<Doc.base>> \o stack)

=============================================================================
