------------------------------- MODULE Startup -------------------------------
(***************************************************************************)
(* From the configuration to the list of sources that the checks work on:  *)
(* load_config (Loader), then startup_validation in src/main.py with       *)
(* parse_sources and validate_source_access in src/config/source_parser.py *)
(* and the source factory, and the filters it builds (Filters).  Errors of *)
(* the configuration stop the start-up, errors of Telegram only cost the   *)
(* source they hit.                                                        *)
(***************************************************************************)
EXTENDS Loader

CONSTANTS
  Environments,  \* the environments: values of the Variables, or Unset
  Files          \* what config.yaml may be

NoFile == [state |-> "missing", global |-> NoKeys, sources |-> <<>>]

ASSUME StartupAssumption ==
  /\ \A e \in Environments :
       /\ e = [v \in Variables |-> e[v]]
       /\ \A v \in Variables :
            e[v] \in IF v[2] = "chat" THEN {"good", "bad", Unset} ELSE Values(v[2]) \cup {Unset}
  /\ \A f \in Files :
       /\ f.state \in {"missing", "empty", "broken", "good"}
       /\ f.state # "good" => f.global = NoKeys /\ f.sources = <<>>
       /\ IsKeys(f.global)
       /\ f.sources = [i \in 1..Len(f.sources) |-> f.sources[i]] /\ Len(f.sources) \in Nat
       /\ \A i \in DOMAIN f.sources : IsEntry(f.sources[i])

VARIABLES
  env,      \* the environment
  todo,     \* its TDL_ variables that are not read yet
  file,     \* config.yaml, NoFile before it is read
  global,   \* global_filters: the keys that are set
  list,     \* sources, as far as they are read
  phase,    \* where the start-up stands
  next,     \* the next source of its current loop
  parsed,   \* result of parse_sources: sources with their filter settings
  usable,   \* result of validate_source_access
  down      \* ghost: sources that Telegram did not resolve or give access to

config == <<env, todo, file, global, list>>
vars == <<config, phase, next, parsed, usable, down>>

Sources == DOMAIN list

TypeOK ==
  /\ env \in Environments
  /\ todo \subseteq Variables
  /\ file \in Files \cup {NoFile}
  /\ IsKeys(global)
  /\ \A i \in DOMAIN list : IsEntry(list[i])
  /\ phase \in {"load", "login", "parse", "access", "running", "failed", "unauthorized"}
  /\ next \in 1..Len(list) + 1
  /\ \A n \in DOMAIN parsed : parsed[n].source \in Sources /\ IsFilter(parsed[n].filter)
  /\ \A n \in DOMAIN usable : usable[n] \in Sources
  /\ down \subseteq Sources

Init ==
  /\ env \in Environments
  /\ todo = {v \in Variables : env[v] # Unset}
  /\ file = NoFile
  /\ global = NoKeys
  /\ list = <<>>
  /\ phase = "load"
  /\ next = 1
  /\ parsed = <<>>
  /\ usable = <<>>
  /\ down = {}

-----------------------------------------------------------------------------
(* load_config. *)

\* One TDL_ variable of the environment.
ReadVariable(v) ==
  /\ phase = "load"
  /\ v \in todo
  /\ todo' = todo \ {v}
  /\ IF v[1] = 0
       THEN global' = [global EXCEPT ![v[2]] = env[v]] /\ UNCHANGED list
       ELSE list' = SetSource(list, v[1], v[2], env[v]) /\ UNCHANGED global
  /\ UNCHANGED <<env, file, phase, next, parsed, usable, down>>

\* A chat_id that is not a number.
BadVariable(v) ==
  /\ phase = "load"
  /\ v \in todo
  /\ v[2] = "chat" /\ env[v] = "bad"
  /\ phase' = "failed"
  /\ UNCHANGED <<config, next, parsed, usable, down>>

\* The file is under the environment.  It may be missing or empty if any TDL_
\* variable is set, be it none of those here but TDL_API_ID.
ReadFile ==
  /\ phase = "load"
  /\ todo = {}
  /\ file' \in {f \in Files : f.state # "broken"}
  /\ global' = MergeKeys(file'.global, global)
  /\ list' = MergeSources(file'.sources, Compact(list))
  /\ phase' = "login"
  /\ UNCHANGED <<env, todo, next, parsed, usable, down>>

FileFails ==
  /\ phase = "load"
  /\ todo = {}
  /\ file' \in {f \in Files : f.state # "good"}
  /\ file'.state # "broken" => \A v \in Variables : env[v] = Unset
  /\ phase' = "failed"
  /\ UNCHANGED <<env, todo, global, list, next, parsed, usable, down>>

-----------------------------------------------------------------------------
(* The filters of a source. *)

\* Mutant: allow_archives is taken from the block whether it is there or not.
MergedByValue(i) ==
  LET own == Filled(list[i].filters)
      all == Filled(global)
  IN IF list[i].filters = NoBlock THEN all
     ELSE [o \in AllOptions |-> IF Empty(o, own[o]) THEN all[o] ELSE own[o]]

\* The merge: an empty list, size or date falls back to the global value,
\* allow_archives does when it is not in the block.
Merged(i) ==
  LET own == Filled(list[i].filters)
      all == Filled(global)
      falls(o) == \/ Empty(o, own[o])
                  \/ o = "allow_archives" /\ (o \in Options => list[i].filters[o] = Unset)
  IN IF list[i].filters = NoBlock THEN all
     ELSE [o \in AllOptions |-> IF falls(o) THEN all[o] ELSE own[o]]

\* No url and no chat_id, a bad url, or filters that do not build.
Valid(i) == list[i].chat = "good" /\ Builds(Merged(i))

-----------------------------------------------------------------------------
(* startup_validation. *)

\* get_me, then the chat list, whose failure is only logged.
LoginOK ==
  /\ phase = "login"
  /\ phase' = "parse"
  /\ UNCHANGED <<config, next, parsed, usable, down>>

LoginFails ==
  /\ phase = "login"
  /\ phase' \in {"unauthorized", "failed"}
  /\ UNCHANGED <<config, next, parsed, usable, down>>

\* A ConfigError.
ParseRaises ==
  /\ phase = "parse"
  /\ next <= Len(list)
  /\ ~Valid(next)
  /\ phase' = "failed"
  /\ UNCHANGED <<config, next, parsed, usable, down>>

\* create_source resolves the chat.
ParseOK ==
  /\ phase = "parse"
  /\ next <= Len(list)
  /\ Valid(next)
  /\ parsed' = Append(parsed, [source |-> next, filter |-> Merged(next)])
  /\ next' = next + 1
  /\ UNCHANGED <<config, phase, usable, down>>

\* Mutant: a chat that cannot be resolved stops the start-up.
ResolveFailsAll ==
  /\ phase = "parse"
  /\ next <= Len(list)
  /\ Valid(next)
  /\ phase' = "failed"
  /\ down' = down \cup {next}
  /\ UNCHANGED <<config, next, parsed, usable>>

\* It does not: the source is skipped.
ResolveFails ==
  /\ phase = "parse"
  /\ next <= Len(list)
  /\ Valid(next)
  /\ next' = next + 1
  /\ down' = down \cup {next}
  /\ UNCHANGED <<config, phase, parsed, usable>>

ParseDone ==
  /\ phase = "parse"
  /\ next > Len(list)
  /\ phase' = "access"
  /\ next' = 1
  /\ UNCHANGED <<config, parsed, usable, down>>

\* validate_source_access keeps the source, or skips it.
AccessOK ==
  /\ phase = "access"
  /\ next <= Len(parsed)
  /\ usable' = Append(usable, parsed[next].source)
  /\ next' = next + 1
  /\ UNCHANGED <<config, phase, parsed, down>>

AccessFails ==
  /\ phase = "access"
  /\ next <= Len(parsed)
  /\ next' = next + 1
  /\ down' = down \cup {parsed[next].source}
  /\ UNCHANGED <<config, phase, parsed, usable>>

\* Without a usable source the start-up fails.
AccessDone ==
  /\ phase = "access"
  /\ next > Len(parsed)
  /\ phase' = IF usable = <<>> THEN "failed" ELSE "running"
  /\ UNCHANGED <<config, next, parsed, usable, down>>

Over == phase \in {"running", "failed", "unauthorized"} /\ UNCHANGED vars

Next ==
  \/ \E v \in Variables : ReadVariable(v) \/ BadVariable(v)
  \/ ReadFile \/ FileFails
  \/ LoginOK \/ LoginFails
  \/ ParseRaises \/ ParseOK \/ ResolveFails \/ ParseDone
  \/ AccessOK \/ AccessFails \/ AccessDone
  \/ Over

Spec == Init /\ [][Next]_vars

-----------------------------------------------------------------------------
(* What the start-up promises. *)

\* The sources as the user sees them: those of the environment by their number,
\* if there is one, otherwise those of the file.
Numbers == {i \in 1..MaxIndex : \E v \in Variables : v[1] = i /\ env[v] # Unset}
Number(k) == Nth(Numbers, k)

OwnKey(k, o) ==
  IF o \notin Options THEN Unset
  ELSE IF Numbers # {} THEN env[<<Number(k), o>>]
  ELSE IF file.sources[k].filters = NoBlock THEN Unset ELSE file.sources[k].filters[o]

GlobalValue(o) ==
  IF o \notin Options THEN SchemaDefault[o]
  ELSE IF env[<<0, o>>] # Unset THEN env[<<0, o>>]
  ELSE IF file.global[o] # Unset THEN file.global[o] ELSE SchemaDefault[o]

\* A source that has filters of its own, any of them.
HasBlock(k) ==
  IF Numbers # {} THEN \E o \in Options : env[<<Number(k), o>>] # Unset
                  ELSE file.sources[k].filters # NoBlock

\* The lists that the schema does not leave empty.
Prefilled == {o \in Lists : SchemaDefault[o] # {}}

\* The setting in force: the source's own, else the global one, except that in a
\* block without it the schema's list stands before the global one.
Effective(k, o) ==
  IF OwnKey(k, o) = Unset /\ HasBlock(k) /\ o \in Prefilled THEN SchemaDefault[o]
  ELSE IF OwnKey(k, o) = Unset \/ Empty(o, OwnKey(k, o)) THEN GlobalValue(o)
  ELSE OwnKey(k, o)

\* Only a broken configuration, a size limit or pattern in force for some source,
\* the login, or the loss of every source stops the start-up: one dead source costs
\* nobody else their checks, and every other configuration is accepted
\* (parse_sources, validate_source_access).  Limits and patterns are documented
\* (docs/configuration.md:241-246) but their filters cannot be built
\* (source_parser.py:149 and 162).
Broken ==
  \/ file.state # "good" /\ Numbers = {}
  \/ file.state = "broken"
  \/ \E i \in Numbers : env[<<i, "chat">>] # "good"
  \/ Numbers = {} /\ \E i \in DOMAIN file.sources : file.sources[i].chat # "good"
Unbuildable == \E k \in Sources : \E o \in Fatal : ~Empty(o, Effective(k, o))
FailsForAReason ==
  [][phase # "failed" /\ phase' = "failed" /\ phase # "login" =>
       Broken' \/ Unbuildable' \/ down = Sources]_vars

\* What remains is checked in the order of the configuration, which is the
\* order of priority in run_check, and is exactly what was not found dead; gaps
\* in the numbering do not count, and no source is lost to the order in which
\* the environment lists its variables.
OrderKept ==
  phase = "running" =>
    /\ Len(list) = IF Numbers = {} THEN Len(file.sources) ELSE Cardinality(Numbers)
    /\ \A i, j \in DOMAIN usable : i < j => usable[i] < usable[j]
    /\ {usable[i] : i \in DOMAIN usable} = Sources \ down

\* Which messages a source takes: by its own setting, else the global one, each from
\* the environment, else from the file, else the schema's (load_config, the merge in
\* parse_sources, build_filters and the filters' matches).  The exception is that of
\* Effective: docs/configuration.md:234, 238 and 240 promise the global lists of
\* extensions to every source without its own, but one with any other filter of its
\* own gets the schema's (source_parser.py:233 and 240).
TakesAsConfigured ==
  \A n \in DOMAIN parsed : \A m \in Messages :
    LET value(o) == Effective(parsed[n].source, o)
        wanted == /\ \/ value("extensions") = {}
                     \/ m.kind \in value("extensions")
                     \/ m.kind \in value("archive_exts") /\ value("allow_archives")
                  /\ value("only_after") # None => m.date >= value("only_after")
                  /\ value("only_before") # None => m.date <= value("only_before")
    IN Accepts(parsed[n].filter, m) <=> wanted
=============================================================================
