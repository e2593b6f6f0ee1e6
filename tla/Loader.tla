------------------------------- MODULE Loader -------------------------------
(***************************************************************************)
(* load_config (src/config/loader.py): the TDL_ environment variables, in  *)
(* whatever order the environment lists them, over the YAML file, over the *)
(* defaults of the schema.  Modelled are the sources and the filters.      *)
(***************************************************************************)
EXTENDS Filters, Sequences, FiniteSets

CONSTANTS
  Options,   \* bound: the filter settings that the configuration uses
  MaxIndex,  \* bound: the highest number in TDL_SOURCES_<number>_, counted from 1
  Unset,     \* a variable or a key that is not there
  NoBlock    \* a source without filters

ASSUME LoaderAssumption ==
  /\ Options \subseteq AllOptions
  /\ MaxIndex \in Nat
  /\ Unset # None
  /\ Unset \notin {"good", "bad"}
  /\ NoBlock \notin [Options -> (UNION {Values(o) : o \in AllOptions}) \cup {Unset}]

\* <<0, o>> is TDL_GLOBAL_FILTERS_<o>, <<i, o>> is TDL_SOURCES_<i>_FILTERS_<o>,
\* and <<i, "chat">> is the url or chat_id of that source.
Variables == ({0} \X Options) \cup ((1..MaxIndex) \X (Options \cup {"chat"}))

NoKeys == [o \in Options |-> Unset]
IsKeys(k) ==
  /\ k = [o \in Options |-> k[o]]
  /\ \A o \in Options : k[o] \in Values(o) \cup {Unset}

\* An element of the list of sources; a gap in the numbers leaves an empty one.
Gap == [chat |-> Unset, filters |-> NoBlock]
IsEntry(e) ==
  /\ e = [chat |-> e.chat, filters |-> e.filters]
  /\ e.chat \in {"good", "bad", Unset}
  /\ e.filters = NoBlock \/ IsKeys(e.filters)

Set(entry, field, value) ==
  IF field = "chat" THEN [entry EXCEPT !.chat = value]
  ELSE LET keys == IF entry.filters = NoBlock THEN NoKeys ELSE entry.filters
       IN [entry EXCEPT !.filters = [keys EXCEPT ![field] = value]]

\* Mutant: a source that is not in the list yet becomes its next element.
SetSourceNext(list, i, field, value) ==
  IF i <= Len(list) THEN [list EXCEPT ![i] = Set(list[i], field, value)]
                    ELSE Append(list, Set(Gap, field, value))

At(list, n) == IF n \in DOMAIN list THEN list[n] ELSE Gap

\* The list is extended up to the source's number.
SetSource(list, i, field, value) ==
  [n \in 1..(IF i > Len(list) THEN i ELSE Len(list)) |->
     IF n = i THEN Set(At(list, n), field, value) ELSE At(list, n)]

\* The k-th number of a set.
Nth(S, k) == CHOOSE i \in S : Cardinality({j \in S : j <= i}) = k

\* The gaps are dropped, the rest stays in its order.
Compact(list) ==
  LET kept == {n \in DOMAIN list : list[n] # Gap}
  IN [k \in 1..Cardinality(kept) |-> list[Nth(kept, k)]]

\* _merge: key by key in the global filters, the list of sources as a whole.
MergeKeys(base, over) == [o \in Options |-> IF over[o] = Unset THEN base[o] ELSE over[o]]
MergeSources(base, over) == IF over = <<>> THEN base ELSE over

\* Mutant: the schema has no default for a date.
FilledNoDates(keys) ==
  [o \in AllOptions |->
     IF o \in Options /\ (keys[o] # Unset \/ o \in Limits) THEN keys[o] ELSE SchemaDefault[o]]

\* The schema fills in what is missing.
Filled(keys) ==
  [o \in AllOptions |->
     IF o \in Options /\ keys[o] # Unset THEN keys[o] ELSE SchemaDefault[o]]
=============================================================================
