------------------------------ MODULE Filters ------------------------------
(***************************************************************************)
(* The filter settings of a source, and which messages pass the filters    *)
(* that build_filters makes of them (src/filters/).  A file name stands    *)
(* for the kind of its extension, an extension list for the kinds on it.   *)
(***************************************************************************)
EXTENDS Integers

CONSTANTS
  Dates,  \* times a message may be sent at
  None    \* a scalar setting that is not set

ASSUME FiltersAssumption == Dates \subseteq Int /\ None \notin Dates

Kinds == {"book", "archive", "other"}

Lists == {"extensions", "archive_exts", "include_patterns", "exclude_patterns"}
Limits == {"only_after", "only_before"}
Scalars == Limits \cup {"min_size", "max_size"}
AllOptions == Lists \cup Scalars \cup {"allow_archives"}

\* What a setting may be; the text of a size or a pattern does not matter.
Values(o) ==
  CASE o = "allow_archives" -> BOOLEAN
    [] o \in {"extensions", "archive_exts"} -> SUBSET Kinds
    [] o \in {"include_patterns", "exclude_patterns"} -> SUBSET {"pattern"}
    [] o \in Limits -> Dates \cup {None}
    [] OTHER -> {"size", None}

IsFilter(f) ==
  /\ f = [o \in AllOptions |-> f[o]]
  /\ \A o \in AllOptions : f[o] \in Values(o)

\* What the schema fills in.
SchemaDefault ==
  [o \in AllOptions |->
     CASE o = "extensions" -> {"book"}
       [] o = "archive_exts" -> {"archive"}
       [] o = "allow_archives" -> FALSE
       [] o \in Scalars -> None
       [] OTHER -> {}]

\* A list, size or date that is left empty.
Empty(o, value) == IF o \in Lists THEN value = {} ELSE o \in Scalars /\ value = None

\* build_filters: SizeFilter and PatternFilter are called with keywords they do
\* not have, so building either of them raises a TypeError.
Fatal == {"min_size", "max_size", "include_patterns", "exclude_patterns"}
Builds(f) == \A o \in Fatal : Empty(o, f[o])

\* A message without a file name is judged by one made up from its MIME type,
\* which knows books and archives.
ExtensionMatches(f, m) ==
  m.kind \in f.extensions \/ (f.allow_archives /\ m.kind \in f.archive_exts)

\* Both ends belong to the range.
DateMatches(f, m) ==
  /\ f.only_after # None => m.date >= f.only_after
  /\ f.only_before # None => m.date <= f.only_before

\* The composite of the filters that are configured.
Accepts(f, m) == (f.extensions # {} => ExtensionMatches(f, m)) /\ DateMatches(f, m)

Messages == [kind : Kinds, date : Dates]
=============================================================================
