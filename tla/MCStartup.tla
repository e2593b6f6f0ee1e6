----------------------------- MODULE MCStartup -----------------------------
(* Three numbers for the sources, of which the second one may be a gap or be  *)
(* misconfigured, and a file that may be there, with sources and globals.     *)
EXTENDS Startup, TLC

\* What the environment may say of the globals and of the three numbers.
Says(pairs) == [f \in Options \cup {"chat"} |-> IF f \in DOMAIN pairs THEN pairs[f] ELSE Unset]
Chat == "chat" :> "good"

Globals ==
  {Says(<<>>), Says("extensions" :> {"other"}), Says("min_size" :> "size"),
   Says("allow_archives" :> TRUE @@ "only_after" :> 2),
   Says("extensions" :> {"book", "other"} @@ "allow_archives" :> TRUE)}
Firsts ==
  {Says(<<>>), Says(Chat), Says("only_after" :> 1),
   Says(Chat @@ "allow_archives" :> FALSE), Says(Chat @@ "only_after" :> 1),
   Says(Chat @@ "extensions" :> {"archive"} @@ "only_after" :> 1),
   Says(Chat @@ "extensions" :> {} @@ "allow_archives" :> TRUE),
   Says(Chat @@ "min_size" :> "size")}
Seconds == {Says(<<>>), Says(Chat), Says("chat" :> "bad")}
Thirds == {Says(<<>>), Says(Chat), Says(Chat @@ "allow_archives" :> FALSE)}

MCEnvironments ==
  {[v \in Variables |->
      CASE v[1] = 0 -> globals[v[2]]
        [] v[1] = 1 -> first[v[2]]
        [] v[1] = 2 -> second[v[2]]
        [] OTHER -> third[v[2]]] :
     globals \in Globals, first \in Firsts, second \in Seconds, third \in Thirds}

Good(keys, sources) == [state |-> "good", global |-> keys, sources |-> sources]
Plain == [chat |-> "good", filters |-> NoBlock]

MCFiles ==
  {NoFile,
   [NoFile EXCEPT !.state = "empty"],
   [NoFile EXCEPT !.state = "broken"],
   Good(NoKeys, <<Gap, Plain>>),
   Good([NoKeys EXCEPT !["allow_archives"] = TRUE, !["only_after"] = 2, !["extensions"] = {"other"}],
        <<[chat |-> "good", filters |-> NoKeys], Plain,
          [chat |-> "good", filters |-> [NoKeys EXCEPT !["allow_archives"] = FALSE]],
          [chat |-> "good", filters |-> [NoKeys EXCEPT !["only_after"] = None]]>>)}

\* The compaction is the filter comprehension of the code, for every list of up to
\* four entries.
ASSUME CompactAssumption ==
  \A n \in 0..4 : \A long \in [1..n -> {Gap, Plain, [Gap EXCEPT !.chat = "bad"]}] :
    Compact(long) = SelectSeq(long, LAMBDA e : e # Gap)
=============================================================================
