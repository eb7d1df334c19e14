----------------------------- MODULE ConfigLoad ----------------------------
(***************************************************************************)
(* AppConfig::load (config.rs): the YAML documents of the configuration    *)
(* files are merged in order, the result is read into the sections, with   *)
(* defaults for what it does not mention, and validated.                   *)
(*                                                                         *)
(* A document is a mapping (kind "map"), null, a scalar or a list (kind    *)
(* "leaf"), or a file that cannot be opened or parsed.  An operation that  *)
(* may fail returns the set of its results: one of them, or none.          *)
(***************************************************************************)
EXTENDS Config, SequencesExt

Null == [kind |-> "null"]
Unreadable == [kind |-> "unreadable"]
Leaf(v) == [kind |-> "leaf", value |-> v]
Map(m) == [kind |-> "map", map |-> m]

\* Mutant: sections are replaced like everything else.
merge_shallow(left, right) ==
  IF right.kind = "null" THEN left
  ELSE IF left.kind = "map" /\ right.kind = "map"
  THEN Map([k \in DOMAIN left.map \cup DOMAIN right.map |->
              IF k \in DOMAIN right.map THEN right.map[k] ELSE left.map[k]])
  ELSE right

RECURSIVE merge_yaml(_, _)

\* Mappings are merged key by key, anything else is replaced; null leaves what
\* is there untouched, but a new key is added with whatever it maps to.
merge_yaml(left, right) ==
  IF right.kind = "null" THEN left
  ELSE IF left.kind = "map" /\ right.kind = "map"
  THEN Map([k \in DOMAIN left.map \cup DOMAIN right.map |->
              IF k \notin DOMAIN right.map THEN left.map[k]
              ELSE IF k \in DOMAIN left.map THEN merge_yaml(left.map[k], right.map[k])
              ELSE right.map[k]])
  ELSE right

----------------------------------------------------------------------------
(* serde: the merged document is read into the sections. *)

HasKey(doc, k) == doc.kind = "map" /\ k \in DOMAIN doc.map

\* deny_unknown_fields, and the types of the fields.  serde_yaml reads a null as
\* a structure without fields.
SectionFits(s, doc) ==
  \/ doc.kind = "null"
  \/ /\ doc.kind = "map"
     /\ DOMAIN doc.map \subseteq DOMAIN Defaults[s]
     /\ \A f \in DOMAIN doc.map : doc.map[f].kind = "leaf"

\* `workers` has no default, but a null is read as a list without entries.
Fits(doc) ==
  /\ DOMAIN doc.map \subseteq Sections \cup {"workers"}
  /\ HasKey(doc, "workers")
  /\ doc.map["workers"].kind \in {"leaf", "null"}
  /\ \A s \in Sections : HasKey(doc, s) => SectionFits(s, doc.map[s])

Section(s, doc) ==
  [f \in DOMAIN Defaults[s] |->
     IF HasKey(doc, s) /\ HasKey(doc.map[s], f)
       THEN doc.map[s].map[f].value ELSE Defaults[s][f]]

\* A worker of the list, max_load and load_penalty being optional.
WorkerEntry(e) == e @@ EntryDefaults

WorkerList(doc) ==
  IF doc.map["workers"].kind = "null" THEN << >> ELSE doc.map["workers"].value

from_value(doc) ==
  [s \in Sections |-> Section(s, doc)]
    @@ [workers |-> [i \in DOMAIN WorkerList(doc) |-> WorkerEntry(WorkerList(doc)[i])]]

load(files) ==
  LET merged == FoldLeft(merge_yaml, Map(<< >>), files)
  IN  IF \E i \in DOMAIN files : files[i].kind \notin {"map", "null"} THEN {}
      ELSE {c \in {from_value(d) : d \in {d \in {merged} : Fits(d)}} : validate(c)}

----------------------------------------------------------------------------
(* What layering promises, without merging. *)

\* The files whose value for field f of section s is not overridden: a file
\* that puts something other than a mapping in place of the section hides the
\* files before it.
Setters(files, s, f) ==
  {i \in DOMAIN files :
     /\ HasKey(files[i], s) /\ HasKey(files[i].map[s], f)
     /\ files[i].map[s].map[f].kind # "null"
     /\ \A j \in (i + 1) .. Len(files) :
          HasKey(files[j], s) => files[j].map[s].kind # "leaf"}

ListSetters(files) ==
  {i \in DOMAIN files : HasKey(files[i], "workers") /\ files[i].map["workers"].kind # "null"}

\* "later files win, mappings merge recursively, sequences and scalars replace"
\* (AppConfig::load): in a configuration that loads, every field has the value
\* of the last file that sets it, or its default, and the worker list is that
\* of the last file that has one, as a whole.
LayersOf(files) ==
  \A c \in load(files) :
    /\ \A s \in Sections : \A f \in DOMAIN Defaults[s] :
         LET set == Setters(files, s, f)
         IN  c[s][f] = IF set = {} THEN Defaults[s][f]
                       ELSE files[Max(set)].map[s].map[f].value
    /\ LET list == files[Max(ListSetters(files))].map["workers"].value
       IN  /\ Len(c.workers) = Len(list)
           /\ \A i \in DOMAIN list : \A k \in DOMAIN list[i] : c.workers[i][k] = list[i][k]

=============================================================================
