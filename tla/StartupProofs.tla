--------------------------- MODULE StartupProofs ---------------------------
(***************************************************************************)
(* Theorems about Startup.                                                 *)
(***************************************************************************)
EXTENDS Startup, FiniteSetTheorems, WellFoundedInduction, TLAPS

-----------------------------------------------------------------------------
(* The k-th number of a set. *)

\* A non-empty set of numbers has a smallest one.
LEMMA Smallest ==
  ASSUME NEW T, T \subseteq Nat, T # {}
  PROVE  \E x \in T : \A y \in T : x <= y
<1>1. \E x \in T : \A y \in T : ~(<<y, x>> \in OpToRel(<, Nat))
  BY WFMin, NatLessThanWellFounded
<1>2. PICK x \in T : \A y \in T : ~(<<y, x>> \in OpToRel(<, Nat))
  BY <1>1
<1>3. \A y \in T : ~(y < x)
  BY <1>2 DEF OpToRel
<1>4. \A y \in T : x <= y
  BY <1>3
<1> QED BY <1>4

UpTo(S, i) == {j \in S : j <= i}
Rank(S, i) == Cardinality(UpTo(S, i))

\* What is up to a number is a set of the module's numbers.
LEMMA UpToFinite ==
  ASSUME NEW S \in SUBSET Nat, IsFiniteSet(S), NEW i
  PROVE  IsFiniteSet(UpTo(S, i)) /\ Rank(S, i) \in Nat
<1>1. UpTo(S, i) \in SUBSET S
  BY DEF UpTo
<1>2. IsFiniteSet(UpTo(S, i))
  BY <1>1, FS_Subset
<1> QED BY <1>2, FS_CardinalityType DEF Rank

\* One more number is one more element, if it is in the set.
LEMMA RankStep ==
  ASSUME NEW S \in SUBSET Nat, IsFiniteSet(S), NEW n \in Nat
  PROVE  Rank(S, n + 1) = IF n + 1 \in S THEN Rank(S, n) + 1 ELSE Rank(S, n)
<1>0. \A j \in S : j <= n + 1 <=> (j <= n \/ j = n + 1)
  OBVIOUS
<1>1. CASE n + 1 \in S
  <2>1. UpTo(S, n + 1) = UpTo(S, n) \cup {n + 1}
    BY <1>0, <1>1, Zenon DEF UpTo
  <2>2. n + 1 \notin UpTo(S, n)
    BY DEF UpTo
  <2>3. Cardinality(UpTo(S, n) \cup {n + 1}) = Cardinality(UpTo(S, n)) + 1
    BY <2>2, UpToFinite, FS_AddElement
  <2> QED BY <1>1, <2>1, <2>3 DEF Rank
<1>2. CASE n + 1 \notin S
  <2>1. UpTo(S, n + 1) = UpTo(S, n)
    BY <1>0, <1>2, Zenon DEF UpTo
  <2> QED BY <1>2, <2>1 DEF Rank
<1> QED BY <1>1, <1>2

\* Every place in a set of numbers from one up to a limit is taken.
LEMMA NthExists ==
  ASSUME NEW N \in Nat, NEW S \in SUBSET (1..N), NEW k \in 1..Cardinality(S)
  PROVE  Nth(S, k) \in S /\ Rank(S, Nth(S, k)) = k
<1>0. IsFiniteSet(S) /\ S \in SUBSET Nat
  <2>1. IsFiniteSet(1..N)
    BY FS_Interval
  <2>2. IsFiniteSet(S)
    BY <2>1, FS_Subset
  <2> QED BY <2>2
<1> DEFINE T == {n \in Nat : Rank(S, n) >= k}
<1>1. Cardinality(S) \in Nat
  BY <1>0, FS_CardinalityType
<1>2. UpTo(S, N) = S
  <2>1. \A j \in S : j <= N
    OBVIOUS
  <2> QED BY <2>1, Zenon DEF UpTo
<1>3. N \in T
  BY <1>1, <1>2 DEF Rank
<1>4. PICK i \in T : \A j \in T : i <= j
  BY <1>3, Smallest
<1>5. i # 0
  <2>0. \A j \in S : ~(j <= 0)
    OBVIOUS
  <2>1. UpTo(S, 0) = {}
    BY <2>0, Zenon DEF UpTo
  <2>2. Rank(S, 0) = 0
    BY <2>1, FS_EmptySet DEF Rank
  <2> QED BY <1>4, <2>2
<1>6. i \in Nat /\ i - 1 \in Nat /\ i - 1 \notin T
  BY <1>4, <1>5
<1>7. Rank(S, i) >= k /\ Rank(S, i) \in Nat /\ Rank(S, i - 1) \in Nat
  BY <1>0, <1>4, UpToFinite
<1>8. Rank(S, i - 1) < k
  BY <1>6, <1>7
<1>9. Rank(S, (i - 1) + 1) = IF (i - 1) + 1 \in S THEN Rank(S, i - 1) + 1 ELSE Rank(S, i - 1)
  BY <1>0, <1>6, RankStep
<1>10. (i - 1) + 1 = i
  BY <1>6
<1>11. i \in S /\ Rank(S, i) = k
  BY <1>1, <1>7, <1>8, <1>9, <1>10
<1>12. \E x \in S : Rank(S, x) = k
  BY <1>11
<1>13. Nth(S, k) = CHOOSE x \in S : Rank(S, x) = k
  BY DEF Nth, Rank, UpTo
<1> QED BY <1>12, <1>13

\* The places are in the order of the numbers.
LEMMA NthIncreases ==
  ASSUME NEW N \in Nat, NEW S \in SUBSET (1..N),
         NEW k \in 1..Cardinality(S), NEW l \in 1..Cardinality(S), k < l
  PROVE  Nth(S, k) < Nth(S, l)
<1>0. IsFiniteSet(S) /\ S \in SUBSET Nat
  <2>1. IsFiniteSet(1..N)
    BY FS_Interval
  <2>2. IsFiniteSet(S)
    BY <2>1, FS_Subset
  <2> QED BY <2>2
<1>1. /\ Nth(S, k) \in S /\ Rank(S, Nth(S, k)) = k
      /\ Nth(S, l) \in S /\ Rank(S, Nth(S, l)) = l
  BY NthExists
<1>2. Nth(S, k) \in Nat /\ Nth(S, l) \in Nat
  BY <1>0, <1>1
<1>3. SUFFICES ASSUME Nth(S, l) <= Nth(S, k) PROVE FALSE
  BY <1>2
<1>4. UpTo(S, Nth(S, l)) \in SUBSET UpTo(S, Nth(S, k))
  <2>1. \A j \in S : j <= Nth(S, l) => j <= Nth(S, k)
    BY <1>0, <1>2, <1>3
  <2> QED BY <2>1, Zenon DEF UpTo
<1>5. Rank(S, Nth(S, l)) <= Rank(S, Nth(S, k))
  BY <1>0, <1>4, UpToFinite, FS_Subset DEF Rank
<1>6. Cardinality(S) \in Nat
  BY <1>0, FS_CardinalityType
<1> QED BY <1>1, <1>5, <1>6

-----------------------------------------------------------------------------
(* Type correctness. *)

AnyValue == (UNION {Values(o) : o \in AllOptions}) \cup {Unset}
Entries == {e \in [chat : {"good", "bad", Unset}, filters : {NoBlock} \cup [Options -> AnyValue]] :
              IsEntry(e)}
FilterSet == {f \in [AllOptions -> AnyValue] : IsFilter(f)}

\* A setting's value, and its default.
LEMMA ValuesTyped ==
  /\ Options \subseteq AllOptions /\ "chat" \notin AllOptions
  /\ \A o \in AllOptions : Values(o) \subseteq AnyValue /\ SchemaDefault[o] \in Values(o)
<1>1. Options \subseteq AllOptions
  BY LoaderAssumption
<1>2. "chat" \notin AllOptions
  BY DEF AllOptions, Lists, Scalars, Limits
<1>3. \A o \in AllOptions : Values(o) \subseteq AnyValue
  BY Zenon DEF AnyValue
<1>4. \A o \in AllOptions : SchemaDefault[o] \in Values(o)
  BY DEF SchemaDefault, Values, AllOptions, Lists, Scalars, Limits, Kinds
<1> QED BY <1>1, <1>2, <1>3, <1>4

\* Keys and filters as members of sets.
LEMMA KeysTyped == ASSUME NEW k, IsKeys(k) PROVE k \in [Options -> AnyValue]
<1>1. Unset \in AnyValue
  BY Zenon DEF AnyValue
<1>2. k = [o \in Options |-> k[o]] /\ \A o \in Options : k[o] \in AnyValue
  BY <1>1, ValuesTyped DEF IsKeys
<1> QED BY <1>2

LEMMA FilterTyped == ASSUME NEW f, IsFilter(f) PROVE f \in FilterSet
<1>1. f = [o \in AllOptions |-> f[o]] /\ \A o \in AllOptions : f[o] \in AnyValue
  BY ValuesTyped DEF IsFilter
<1>2. f \in [AllOptions -> AnyValue]
  BY <1>1
<1> QED BY <1>2 DEF FilterSet

LEMMA EntryTyped == ASSUME NEW e, IsEntry(e) PROVE e \in Entries
<1>1. e.filters \in {NoBlock} \cup [Options -> AnyValue]
  BY KeysTyped DEF IsEntry
<1>2. e = [chat |-> e.chat, filters |-> e.filters] /\ e.chat \in {"good", "bad", Unset}
  BY DEF IsEntry
<1>3. e \in [chat : {"good", "bad", Unset}, filters : {NoBlock} \cup [Options -> AnyValue]]
  BY <1>1, <1>2
<1> QED BY <1>3 DEF Entries
LEMMA GapTyped == IsEntry(Gap) /\ Gap \in Entries /\ IsKeys(NoKeys)
<1>1. IsEntry(Gap)
  BY DEF IsEntry, Gap
<1> QED BY <1>1, EntryTyped DEF IsKeys, NoKeys

\* The schema completes the keys of a block to a filter.
LEMMA FilledTyped == ASSUME NEW k, IsKeys(k) PROVE IsFilter(Filled(k))
BY ValuesTyped DEF Filled, IsFilter, IsKeys

\* What parse_sources merges is a filter.
LEMMA MergedTyped ==
  ASSUME NEW i, IsKeys(global), IsEntry(list[i]) PROVE IsFilter(Merged(i))
<1>1. IsFilter(Filled(global))
  BY FilledTyped
<1>2. CASE list[i].filters = NoBlock
  BY <1>1, <1>2 DEF Merged
<1>3. CASE list[i].filters # NoBlock
  <2>1. IsFilter(Filled(list[i].filters))
    BY <1>3, FilledTyped DEF IsEntry
  <2> QED BY <1>1, <1>3, <2>1 DEF Merged, IsFilter
<1> QED BY <1>2, <1>3

\* A variable's value in an entry.
LEMMA SetTyped ==
  ASSUME NEW e, IsEntry(e), NEW field \in Options \cup {"chat"}, NEW x,
         x \in IF field = "chat" THEN {"good", "bad", Unset} ELSE Values(field) \cup {Unset}
  PROVE  IsEntry(Set(e, field, x))
<1>1. CASE field = "chat"
  <2>1. Set(e, field, x) = [chat |-> x, filters |-> e.filters]
    BY <1>1 DEF Set, IsEntry
  <2> QED BY <1>1, <2>1 DEF IsEntry
<1>2. CASE field # "chat"
  <2> DEFINE keys == IF e.filters = NoBlock THEN NoKeys ELSE e.filters
             more == [keys EXCEPT ![field] = x]
  <2>1. IsKeys(keys)
    BY GapTyped DEF IsEntry
  <2>2. IsKeys(more)
    <3> HIDE DEF keys
    <3> QED BY <1>2, <2>1 DEF IsKeys
  <2> HIDE DEF more
  <2>3. Set(e, field, x) = [e EXCEPT !.filters = more]
    BY <1>2 DEF Set, more
  <2>4. Set(e, field, x) = [chat |-> e.chat, filters |-> more]
    BY <2>3 DEF IsEntry
  <2> QED BY <2>2, <2>4 DEF IsEntry
<1> QED BY <1>1, <1>2

\* The list with one more variable.
LEMMA SetSourceTyped ==
  ASSUME list \in Seq(Entries), NEW i \in 1..MaxIndex, NEW field \in Options \cup {"chat"}, NEW x,
         x \in IF field = "chat" THEN {"good", "bad", Unset} ELSE Values(field) \cup {Unset}
  PROVE  /\ SetSource(list, i, field, x) \in Seq(Entries)
         /\ Len(SetSource(list, i, field, x)) = IF i > Len(list) THEN i ELSE Len(list)
         /\ \A n \in Nat : At(SetSource(list, i, field, x), n) =
              IF n = i THEN Set(At(list, i), field, x) ELSE At(list, n)
<1>0. Len(list) \in Nat /\ i \in Nat /\ i >= 1 /\ DOMAIN list = 1..Len(list)
  BY LoaderAssumption
<1> DEFINE top == IF i > Len(list) THEN i ELSE Len(list)
           s == SetSource(list, i, field, x)
<1>1. top \in Nat /\ i <= top /\ Len(list) <= top
  BY <1>0
<1>2. \A n \in Nat : At(list, n) \in Entries
  BY GapTyped DEF At
<1>3. \A e \in Entries : IsEntry(e)
  BY DEF Entries
<1>4. Set(At(list, i), field, x) \in Entries
  BY <1>0, <1>2, <1>3, SetTyped, EntryTyped
<1>5. s = [n \in 1..top |-> IF n = i THEN Set(At(list, n), field, x) ELSE At(list, n)]
  BY DEF SetSource
<1>6. s \in [1..top -> Entries]
  BY <1>2, <1>4, <1>5
<1> HIDE DEF top, s
<1>7. s \in Seq(Entries) /\ Len(s) = top /\ DOMAIN s = 1..top
  BY <1>1, <1>6
<1>8. ASSUME NEW n \in Nat
      PROVE  At(s, n) = IF n = i THEN Set(At(list, i), field, x) ELSE At(list, n)
  <2>1. CASE n \in 1..top
    BY <1>5, <1>7, <2>1 DEF At
  <2>2. CASE n \notin 1..top
    BY <1>0, <1>1, <1>7, <2>2 DEF At
  <2> QED BY <2>1, <2>2
<1> QED BY <1>7, <1>8 DEF s, top

-----------------------------------------------------------------------------
(* The invariant.  Until the file is read, the list and the globals are what *)
(* the variables that were read say; from then on they are the configuration *)
(* in the sense of the properties, and each loop has dealt with what lies    *)
(* behind it.                                                                *)

TInv ==
  /\ env \in Environments
  /\ todo \subseteq Variables
  /\ file \in Files \cup {NoFile}
  /\ IsKeys(global)
  /\ list \in Seq(Entries)
  /\ phase \in {"load", "login", "parse", "access", "running", "failed", "unauthorized"}
  /\ next \in 1..Len(list) + 1
  /\ parsed \in Seq([source : Sources, filter : FilterSet])
  /\ usable \in Seq(Sources)
  /\ down \subseteq Sources

\* What is known of a variable, and of a source, while the environment is read.
Known(v) == IF v \in todo THEN Unset ELSE env[v]
Entry(i) ==
  [chat |-> Known(<<i, "chat">>),
   filters |-> IF \A o \in Options : Known(<<i, o>>) = Unset
                 THEN NoBlock ELSE [o \in Options |-> Known(<<i, o>>)]]

Reading ==
  phase = "load" =>
    /\ file = NoFile
    /\ global = [o \in Options |-> Known(<<0, o>>)]
    /\ Len(list) <= MaxIndex
    /\ \A i \in 1..MaxIndex : At(list, i) = Entry(i)
    /\ \A v \in todo : env[v] # Unset

\* Nothing is done before both are read.
Early ==
  phase \in {"load", "login"} => next = 1 /\ parsed = <<>> /\ usable = <<>> /\ down = {}

\* The configuration as it was meant.
AsMeant ==
  /\ todo = {}
  /\ \A o \in Options : global[o] = IF env[<<0, o>>] # Unset THEN env[<<0, o>>] ELSE file.global[o]
  /\ Len(list) = IF Numbers = {} THEN Len(file.sources) ELSE Cardinality(Numbers)
  /\ \A k \in Sources : list[k] = IF Numbers = {} THEN file.sources[k] ELSE Entry(Number(k))

Meant == phase \notin {"load", "failed"} \/ parsed # <<>> => AsMeant

\* The results of parse_sources, in order and with the filters they were given.
Parsed == {parsed[n].source : n \in DOMAIN parsed}
InOrder ==
  /\ \A n \in DOMAIN parsed : parsed[n].filter = Merged(parsed[n].source)
  /\ \A m, n \in DOMAIN parsed : m < n => parsed[m].source < parsed[n].source

Parsing ==
  phase = "parse" =>
    /\ usable = <<>>
    /\ Parsed \cap down = {}
    /\ Parsed \cup down = 1..(next - 1)
    /\ Len(parsed) < next

\* Of the parsed sources before `next` the usable ones are those that answered.
Accessing ==
  phase = "access" =>
    /\ Parsed \cup down = Sources
    /\ next <= Len(parsed) + 1 /\ Len(parsed) <= Len(list)
    /\ \A n \in DOMAIN parsed : n >= next => parsed[n].source \notin down
    /\ {usable[m] : m \in DOMAIN usable} = {parsed[n].source : n \in 1..(next - 1)} \ down
    /\ \A l, m \in DOMAIN usable : l < m => usable[l] < usable[m]

Running ==
  phase = "running" =>
    /\ \A l, m \in DOMAIN usable : l < m => usable[l] < usable[m]
    /\ {usable[m] : m \in DOMAIN usable} = Sources \ down

IInv == TInv /\ Reading /\ Early /\ Meant /\ InOrder /\ Parsing /\ Accessing /\ Running

-----------------------------------------------------------------------------
(* Reading the environment. *)

\* The variables, and what they may say.
LEMMA VariablesTyped ==
  ASSUME env \in Environments
  PROVE  /\ \A o \in Options : <<0, o>> \in Variables
         /\ \A i \in 1..MaxIndex, f \in Options \cup {"chat"} : <<i, f>> \in Variables
         /\ \A v \in Variables :
              \/ \E o \in Options : v = <<0, o>>
              \/ \E i \in 1..MaxIndex, f \in Options \cup {"chat"} : v = <<i, f>>
         /\ \A i \in 0..MaxIndex, o \in Options :
              <<i, o>> \in Variables /\ env[<<i, o>>] \in Values(o) \cup {Unset}
         /\ \A i \in 1..MaxIndex : env[<<i, "chat">>] \in {"good", "bad", Unset}
<1>1. /\ \A o \in Options : <<0, o>> \in Variables
      /\ \A i \in 1..MaxIndex, f \in Options \cup {"chat"} : <<i, f>> \in Variables
  BY DEF Variables
<1>2. \A v \in Variables :
              \/ \E o \in Options : v = <<0, o>>
              \/ \E i \in 1..MaxIndex, f \in Options \cup {"chat"} : v = <<i, f>>
  BY DEF Variables
<1>3. \A v \in Variables :
        env[v] \in IF v[2] = "chat" THEN {"good", "bad", Unset} ELSE Values(v[2]) \cup {Unset}
  BY StartupAssumption
<1>4. \A i \in 1..MaxIndex : env[<<i, "chat">>] \in {"good", "bad", Unset}
  BY <1>1, <1>3
<1>5. \A i \in 0..MaxIndex : i = 0 \/ i \in 1..MaxIndex
  BY LoaderAssumption
<1>6. ASSUME NEW i \in 0..MaxIndex, NEW o \in Options
      PROVE  <<i, o>> \in Variables /\ env[<<i, o>>] \in Values(o) \cup {Unset}
  <2>1. <<i, o>> \in Variables
    BY <1>1, <1>5
  <2>2. o # "chat"
    BY ValuesTyped
  <2> QED BY <1>3, <2>1, <2>2
<1> QED BY <1>1, <1>2, <1>4, <1>6

\* A source of the environment is an entry, and a gap exactly if nothing is known of it.
LEMMA EntryMeaning ==
  ASSUME TInv, NEW i \in 1..MaxIndex
  PROVE  /\ IsEntry(Entry(i))
         /\ \A o \in Options : Known(<<i, o>>) # Unset => Entry(i).filters # NoBlock
         /\ Entry(i).filters # NoBlock => Entry(i).filters = [o \in Options |-> Known(<<i, o>>)]
         /\ Entry(i) # Gap <=> \E f \in Options \cup {"chat"} : Known(<<i, f>>) # Unset
<1> DEFINE keys == [o \in Options |-> Known(<<i, o>>)]
<1>0. env \in Environments /\ i \in 0..MaxIndex
  BY DEF TInv
<1>1. IsKeys(keys)
  BY <1>0, VariablesTyped DEF IsKeys, Known
<1>2. keys # NoBlock
  BY <1>1, KeysTyped, LoaderAssumption DEF AnyValue
<1>3. Known(<<i, "chat">>) \in {"good", "bad", Unset}
  BY <1>0, VariablesTyped DEF Known
<1> DEFINE filters == IF \A o \in Options : Known(<<i, o>>) = Unset THEN NoBlock ELSE keys
<1>4. Entry(i) = [chat |-> Known(<<i, "chat">>), filters |-> filters]
  BY DEF Entry
<1>5. filters = NoBlock \/ IsKeys(filters)
  BY <1>1
<1>6. filters # NoBlock <=> \E o \in Options : Known(<<i, o>>) # Unset
  BY <1>2
<1>7. filters # NoBlock => filters = keys
  OBVIOUS
<1> HIDE DEF filters, keys
<1>8. Entry(i).filters = filters /\ Entry(i).chat = Known(<<i, "chat">>)
  BY <1>4
<1>9. IsEntry(Entry(i))
  BY <1>3, <1>4, <1>5, <1>8 DEF IsEntry
<1>10. Entry(i) # Gap <=> Known(<<i, "chat">>) # Unset \/ filters # NoBlock
  BY <1>4, <1>8 DEF Gap
<1> QED BY <1>6, <1>7, <1>8, <1>9, <1>10 DEF keys

\* One more variable of a source.
LEMMA EntryGrows ==
  ASSUME TInv, NEW i \in 1..MaxIndex, NEW f \in Options \cup {"chat"}, <<i, f>> \in todo,
         env[<<i, f>>] # Unset, todo' = todo \ {<<i, f>>}, env' = env
  PROVE  Set(Entry(i), f, env[<<i, f>>]) = Entry(i)'
<1> DEFINE x == env[<<i, f>>]
<1>1. \A g \in Options \cup {"chat"} : Known(<<i, g>>)' = IF g = f THEN x ELSE Known(<<i, g>>)
  BY DEF Known
<1>2. "chat" \notin Options
  BY ValuesTyped
<1>3. CASE f = "chat"
  <2>1. Set(Entry(i), f, x) = [Entry(i) EXCEPT !.chat = x]
    BY <1>3 DEF Set
  <2>2. \A o \in Options : Known(<<i, o>>)' = Known(<<i, o>>)
    BY <1>1, <1>2, <1>3
  <2>3. Known(<<i, "chat">>)' = x
    BY <1>1, <1>3
  <2>4. Entry(i)' = [chat |-> x,
                     filters |-> IF \A o \in Options : Known(<<i, o>>) = Unset
                                   THEN NoBlock ELSE [o \in Options |-> Known(<<i, o>>)]]
    <3>1. [o \in Options |-> Known(<<i, o>>)'] = [o \in Options |-> Known(<<i, o>>)]
      BY <2>2
    <3> QED BY <2>2, <2>3, <3>1 DEF Entry
  <2> QED BY <2>1, <2>4 DEF Entry
<1>4. CASE f \in Options
  <2> DEFINE keys == IF Entry(i).filters = NoBlock THEN NoKeys ELSE Entry(i).filters
  <2>1. keys = [o \in Options |-> Known(<<i, o>>)]
    <3>1. CASE \A o \in Options : Known(<<i, o>>) = Unset
      <4>1. Entry(i).filters = NoBlock
        BY <3>1 DEF Entry
      <4> QED BY <3>1, <4>1 DEF NoKeys
    <3>2. CASE \E o \in Options : Known(<<i, o>>) # Unset
      BY <3>2, EntryMeaning
    <3> QED BY <3>1, <3>2
  <2>2. Set(Entry(i), f, x) = [Entry(i) EXCEPT !.filters = [keys EXCEPT ![f] = x]]
    BY <1>2, <1>4 DEF Set
  <2> HIDE DEF keys
  <2>3. [keys EXCEPT ![f] = x] = [o \in Options |-> Known(<<i, o>>)']
    BY <1>1, <1>4, <2>1
  <2>4. Known(<<i, f>>)' # Unset /\ Known(<<i, "chat">>)' = Known(<<i, "chat">>)
    BY <1>1, <1>2, <1>4
  <2>5. Entry(i)' = [chat |-> Known(<<i, "chat">>), filters |-> [o \in Options |-> Known(<<i, o>>)']]
    BY <1>4, <2>4 DEF Entry
  <2>6. Set(Entry(i), f, x) = [chat |-> Entry(i).chat, filters |-> [o \in Options |-> Known(<<i, o>>)']]
    BY <2>2, <2>3 DEF Entry
  <2>7. Entry(i).chat = Known(<<i, "chat">>)
    BY DEF Entry
  <2> QED BY <2>5, <2>6, <2>7
<1> QED BY <1>3, <1>4

\* The order of the variables does not matter: the list says what was read.
LEMMA ReadVariableKeeps ==
  ASSUME TInv, Reading, Early, NEW v \in Variables, ReadVariable(v)
  PROVE  TInv' /\ Reading'
<1>0. /\ phase = "load" /\ v \in todo /\ todo' = todo \ {v} /\ env[v] # Unset
      /\ UNCHANGED <<env, file, phase, next, parsed, usable, down>>
      /\ next = 1 /\ parsed = <<>> /\ usable = <<>> /\ down = {}
  BY DEF ReadVariable, Reading, Early
<1>1. env \in Environments
  BY DEF TInv
<1>2. CASE \E o \in Options : v = <<0, o>>
  <2>1. PICK o \in Options : v = <<0, o>>
    BY <1>2
  <2>2. global' = [global EXCEPT ![o] = env[v]] /\ list' = list
    BY <2>1 DEF ReadVariable
  <2>3. \A p \in Options : Known(<<0, p>>)' = IF p = o THEN env[v] ELSE Known(<<0, p>>)
    BY <1>0, <2>1 DEF Known
  <2>4. global' = [p \in Options |-> Known(<<0, p>>)']
    BY <1>0, <2>2, <2>3 DEF Reading
  <2>5. 0 \in 0..MaxIndex
    BY LoaderAssumption
  <2>6. IsKeys(global')
    <3>1. env[v] \in Values(o) \cup {Unset}
      BY <1>1, <2>1, <2>5, VariablesTyped
    <3> QED BY <2>2, <3>1 DEF TInv, IsKeys
  <2>7. \A i \in 1..MaxIndex, f \in Options \cup {"chat"} : Known(<<i, f>>)' = Known(<<i, f>>)
    BY <1>0, <2>1 DEF Known
  <2>8. \A i \in 1..MaxIndex : Entry(i)' = Entry(i)
    BY <2>7 DEF Entry
  <2>9. \A i \in 1..MaxIndex : At(list, i)' = Entry(i)'
    BY <1>0, <2>2, <2>8 DEF Reading, At
  <2>10. TInv'
    BY <1>0, <2>2, <2>6 DEF TInv, Sources
  <2> QED BY <1>0, <2>2, <2>4, <2>9, <2>10 DEF Reading
<1>3. CASE \E i \in 1..MaxIndex, f \in Options \cup {"chat"} : v = <<i, f>>
  <2>1. PICK i \in 1..MaxIndex, f \in Options \cup {"chat"} : v = <<i, f>>
    BY <1>3
  <2>2. i \in Nat /\ i # 0 /\ i <= MaxIndex /\ i >= 1
    BY LoaderAssumption
  <2>3. list' = SetSource(list, i, f, env[v]) /\ global' = global
    BY <2>1, <2>2 DEF ReadVariable
  <2>4. env[v] \in IF f = "chat" THEN {"good", "bad", Unset} ELSE Values(f) \cup {Unset}
    <3>1. i \in 0..MaxIndex
      BY <2>2
    <3> QED BY <1>1, <2>1, <3>1, VariablesTyped
  <2>5. list \in Seq(Entries)
    BY DEF TInv
  <2>6. /\ list' \in Seq(Entries)
        /\ Len(list') = IF i > Len(list) THEN i ELSE Len(list)
        /\ \A n \in Nat : At(list', n) = IF n = i THEN Set(At(list, i), f, env[v]) ELSE At(list, n)
    BY <2>3, <2>4, <2>5, SetSourceTyped
  <2>7. At(list, i) = Entry(i) /\ Set(Entry(i), f, env[v]) = Entry(i)'
    BY <1>0, <2>1, EntryGrows DEF Reading
  <2>8. \A n \in 1..MaxIndex : n # i => Entry(n)' = Entry(n)
    BY <1>0, <2>1 DEF Entry, Known
  <2>9. \A n \in 1..MaxIndex : At(list', n) = Entry(n)'
    <3> TAKE n \in 1..MaxIndex
    <3>1. n \in Nat /\ At(list, n) = Entry(n)
      BY <1>0, LoaderAssumption DEF Reading
    <3> QED BY <2>6, <2>7, <2>8, <3>1
  <2>10. \A o \in Options : Known(<<0, o>>)' = Known(<<0, o>>)
    BY <1>0, <2>1, <2>2 DEF Known
  <2>11. global' = [o \in Options |-> Known(<<0, o>>)']
    BY <1>0, <2>3, <2>10 DEF Reading
  <2>12. Len(list') <= MaxIndex /\ Len(list') \in Nat
    BY <1>0, <2>2, <2>5, <2>6 DEF Reading
  <2>13. TInv'
    BY <1>0, <2>3, <2>6, <2>12 DEF TInv, Sources
  <2>14. \A n \in 1..MaxIndex : At(list, n)' = Entry(n)'
    BY <2>9 DEF At
  <2> QED BY <1>0, <2>11, <2>12, <2>13, <2>14 DEF Reading
<1> QED BY <1>1, <1>2, <1>3, VariablesTyped

\* What a file that was read contains.
LEMMA FileTyped ==
  ASSUME NEW f \in Files \cup {NoFile}
  PROVE  IsKeys(f.global) /\ f.sources \in Seq(Entries)
<1>1. CASE f \in Files
  <2>1. /\ IsKeys(f.global) /\ Len(f.sources) \in Nat
        /\ f.sources = [i \in 1..Len(f.sources) |-> f.sources[i]]
        /\ \A i \in DOMAIN f.sources : IsEntry(f.sources[i])
    BY <1>1, StartupAssumption
  <2>2. \A i \in 1..Len(f.sources) : f.sources[i] \in Entries
    <3>1. DOMAIN f.sources = 1..Len(f.sources)
      BY <2>1
    <3> QED BY <2>1, <3>1, EntryTyped
  <2>3. f.sources \in [1..Len(f.sources) -> Entries]
    BY <2>1, <2>2
  <2> QED BY <2>1, <2>3
<1>2. CASE f = NoFile
  <2>1. f.global = NoKeys /\ f.sources = <<>>
    BY <1>2 DEF NoFile
  <2> QED BY <2>1, GapTyped
<1> QED BY <1>1, <1>2

\* Once all variables are read, the entries that are not gaps are the sources that
\* the environment knows, and the compacted list has them in their order.
LEMMA CompactMeaning ==
  ASSUME TInv, Reading, phase = "load", todo = {}
  PROVE  /\ Numbers \in SUBSET (1..MaxIndex) /\ IsFiniteSet(Numbers)
         /\ Compact(list) \in Seq(Entries)
         /\ Len(Compact(list)) = Cardinality(Numbers)
         /\ \A k \in 1..Cardinality(Numbers) : Compact(list)[k] = Entry(Number(k))
<1> DEFINE kept == {n \in DOMAIN list : list[n] # Gap}
<1>0. /\ MaxIndex \in Nat /\ list \in Seq(Entries) /\ Len(list) \in Nat /\ Len(list) <= MaxIndex
      /\ env \in Environments
  BY LoaderAssumption DEF TInv, Reading
<1>1. Numbers \in SUBSET (1..MaxIndex)
  BY DEF Numbers
<1>2. IsFiniteSet(Numbers)
  <2>1. IsFiniteSet(1..MaxIndex)
    BY <1>0, FS_Interval
  <2> QED BY <1>1, <2>1, FS_Subset
<1>3. \A i \in 1..MaxIndex : At(list, i) = Entry(i)
  BY DEF Reading
<1>4. ASSUME NEW i \in 1..MaxIndex
      PROVE  i \in Numbers <=> \E f \in Options \cup {"chat"} : env[<<i, f>>] # Unset
  <2>1. ASSUME NEW w \in Variables, w[1] = i PROVE \E f \in Options \cup {"chat"} : w = <<i, f>>
    <3>1. CASE \E o \in Options : w = <<0, o>>
      BY <2>1, <3>1
    <3>2. CASE \E j \in 1..MaxIndex, f \in Options \cup {"chat"} : w = <<j, f>>
      BY <2>1, <3>2
    <3> QED BY <1>0, <3>1, <3>2, VariablesTyped
  <2>2. \A f \in Options \cup {"chat"} : <<i, f>> \in Variables /\ <<i, f>>[1] = i
    BY <1>0, VariablesTyped
  <2> QED BY <2>1, <2>2 DEF Numbers
<1>5. \A v : Known(v) = env[v]
  BY DEF Known
<1>6. \A i \in 1..MaxIndex : i \in Numbers <=> Entry(i) # Gap
  BY <1>4, <1>5, EntryMeaning
<1>7. \A i \in kept : i \in 1..MaxIndex /\ At(list, i) = list[i]
  BY <1>0 DEF At
<1>8. \A i \in 1..MaxIndex : At(list, i) # Gap => i \in kept /\ At(list, i) = list[i]
  BY DEF At
<1>9. kept = Numbers
  <2>1. \A i \in kept : i \in Numbers
    BY <1>3, <1>6, <1>7
  <2>2. \A i \in Numbers : i \in kept
    BY <1>1, <1>3, <1>6, <1>8
  <2> QED BY <2>1, <2>2
<1>10. Compact(list) = [k \in 1..Cardinality(kept) |-> list[Nth(kept, k)]]
  BY DEF Compact
<1> HIDE DEF kept
<1>11. Compact(list) = [k \in 1..Cardinality(Numbers) |-> list[Number(k)]]
  BY <1>9, <1>10 DEF Number
<1>12. Cardinality(Numbers) \in Nat
  BY <1>2, FS_CardinalityType
<1>13. \A k \in 1..Cardinality(Numbers) : Number(k) \in Numbers
  BY <1>0, <1>1, NthExists DEF Number
<1>14. \A k \in 1..Cardinality(Numbers) : list[Number(k)] = Entry(Number(k))
  BY <1>1, <1>3, <1>7, <1>9, <1>13
<1>15. \A k \in 1..Cardinality(Numbers) : list[Number(k)] \in Entries
  BY <1>1, <1>13, <1>14, EntryMeaning, EntryTyped
<1>16. Compact(list) \in [1..Cardinality(Numbers) -> Entries]
  BY <1>11, <1>15
<1>17. Compact(list) \in Seq(Entries) /\ Len(Compact(list)) = Cardinality(Numbers)
  BY <1>12, <1>16
<1> QED BY <1>1, <1>2, <1>11, <1>14, <1>17

\* The file under the environment gives the configuration as it was meant.
LEMMA ReadFileKeeps ==
  ASSUME TInv, Reading, Early, ReadFile
  PROVE  TInv' /\ AsMeant'
<1> DEFINE found == Compact(list)
<1>0. /\ phase = "load" /\ todo = {} /\ file' \in Files /\ phase' = "login"
      /\ global' = MergeKeys(file'.global, global)
      /\ list' = MergeSources(file'.sources, found)
      /\ UNCHANGED <<env, todo, next, parsed, usable, down>>
      /\ next = 1 /\ parsed = <<>> /\ usable = <<>> /\ down = {}
  BY DEF ReadFile, Early
<1>1. /\ Numbers \in SUBSET (1..MaxIndex) /\ IsFiniteSet(Numbers)
      /\ found \in Seq(Entries)
      /\ Len(found) = Cardinality(Numbers)
      /\ \A k \in 1..Cardinality(Numbers) : found[k] = Entry(Number(k))
  BY <1>0, CompactMeaning
<1> HIDE DEF found
<1>2. IsKeys(file'.global) /\ file'.sources \in Seq(Entries)
  BY <1>0, FileTyped
<1>3. Numbers' = Numbers
  BY <1>0 DEF Numbers
<1>4. found = <<>> <=> Numbers = {}
  <2>1. Cardinality(Numbers) = 0 <=> Numbers = {}
    BY <1>1, FS_EmptySet
  <2>2. found = <<>> <=> Len(found) = 0
    BY <1>1
  <2> QED BY <1>1, <2>1, <2>2
<1>5. /\ list' \in Seq(Entries)
      /\ Len(list') = IF Numbers = {} THEN Len(file'.sources) ELSE Cardinality(Numbers)
      /\ \A k \in 1..Len(list') : list'[k] = IF Numbers = {} THEN file'.sources[k] ELSE Entry(Number(k))
  BY <1>0, <1>1, <1>2, <1>4 DEF MergeSources
<1>7. \A k : Number(k)' = Number(k) /\ Entry(Number(k))' = Entry(Number(k))
  BY <1>0, <1>3 DEF Number, Entry, Known
<1>8. \A o \in Options : global[o] = env[<<0, o>>]
  BY <1>0 DEF Reading, Known
<1>9. /\ IsKeys(global')
      /\ \A o \in Options :
           global'[o] = IF env[<<0, o>>] # Unset THEN env[<<0, o>>] ELSE file'.global[o]
  BY <1>0, <1>2, <1>8 DEF MergeKeys, IsKeys, TInv
<1>10. DOMAIN list' = 1..Len(list') /\ Len(list') \in Nat
  BY <1>5
<1>11. TInv'
  BY <1>0, <1>5, <1>9, <1>10 DEF TInv, Sources
<1>12. AsMeant'
  <2>1. \A k \in Sources' : list'[k] = IF Numbers' = {} THEN file'.sources[k] ELSE Entry(Number(k))'
    BY <1>3, <1>5, <1>7, <1>10 DEF Sources
  <2> QED BY <1>0, <1>3, <1>5, <1>9, <2>1 DEF AsMeant
<1> QED BY <1>11, <1>12

-----------------------------------------------------------------------------
(* The two loops. *)

\* Once it is loaded, the configuration and what is derived from it stay.
LEMMA ConfigStays ==
  ASSUME UNCHANGED config
  PROVE  /\ AsMeant' <=> AsMeant
         /\ Sources' = Sources
         /\ \A i : Merged(i)' = Merged(i)
         /\ UNCHANGED <<env, todo, file, global, list>>
<1>1. UNCHANGED <<env, todo, file, global, list>>
  BY DEF config
<1>2. Numbers' = Numbers
  BY <1>1 DEF Numbers
<1>3. \A k : Number(k)' = Number(k) /\ Entry(Number(k))' = Entry(Number(k))
  BY <1>1, <1>2 DEF Number, Entry, Known
<1>4. AsMeant' <=> AsMeant
  BY <1>1, <1>2, <1>3 DEF AsMeant, Sources
<1>5. \A i : Merged(i)' = Merged(i)
  BY <1>1 DEF Merged
<1> QED BY <1>1, <1>4, <1>5 DEF Sources

\* The elements of a sequence.
LEMMA ElementTyped ==
  ASSUME NEW S, NEW s \in Seq(S)
  PROVE  \A n \in DOMAIN s : s[n] \in S
OBVIOUS

\* What an append adds.
LEMMA AppendMeaning ==
  ASSUME NEW S, NEW s \in Seq(S), NEW x \in S
  PROVE  /\ Append(s, x) \in Seq(S)
         /\ Len(s) \in Nat /\ Len(Append(s, x)) = Len(s) + 1
         /\ DOMAIN s = 1..Len(s) /\ DOMAIN Append(s, x) = 1..(Len(s) + 1)
         /\ \A n \in 1..Len(s) : Append(s, x)[n] = s[n]
         /\ Append(s, x)[Len(s) + 1] = x
         /\ \A n \in DOMAIN Append(s, x) : n \in 1..Len(s) \/ n = Len(s) + 1
OBVIOUS

\* A source that is parsed, or not resolved.
LEMMA ParseKeeps ==
  ASSUME IInv, ParseOK \/ ResolveFails
  PROVE  IInv'
<1>0. /\ phase = "parse" /\ phase' = "parse" /\ next <= Len(list) /\ next' = next + 1
      /\ UNCHANGED <<config, usable>>
      /\ AsMeant
  BY DEF ParseOK, ResolveFails, IInv, Meant
<1>1. /\ Len(list) \in Nat /\ next \in Nat /\ next >= 1 /\ next \in Sources /\ IsEntry(list[next])
      /\ Sources = 1..Len(list)
  BY <1>0 DEF IInv, TInv, Sources, Entries
<1>2. AsMeant' /\ Sources' = Sources /\ \A i : Merged(i)' = Merged(i)
  BY <1>0, ConfigStays
<1>3. UNCHANGED <<env, todo, file, global, list>>
  BY <1>0, ConfigStays
<1>4. /\ usable = <<>> /\ Parsed \cap down = {} /\ Parsed \cup down = 1..(next - 1)
      /\ Len(parsed) < next /\ parsed \in Seq([source : Sources, filter : FilterSet])
      /\ down \subseteq Sources
  BY <1>0 DEF IInv, Parsing, TInv
<1>5. /\ parsed' \in Seq([source : Sources, filter : FilterSet])
      /\ down' \subseteq Sources
      /\ InOrder' /\ Parsing'
  <2>1. CASE ParseOK
    <3> DEFINE new == [source |-> next, filter |-> Merged(next)]
    <3>1. parsed' = Append(parsed, new) /\ down' = down
      BY <2>1 DEF ParseOK
    <3>2. new \in [source : Sources, filter : FilterSet]
      BY <1>1, MergedTyped, FilterTyped DEF IInv, TInv
    <3> HIDE DEF new
    <3>3. /\ parsed' \in Seq([source : Sources, filter : FilterSet])
          /\ Len(parsed) \in Nat /\ Len(parsed') = Len(parsed) + 1
          /\ DOMAIN parsed = 1..Len(parsed) /\ DOMAIN parsed' = 1..(Len(parsed) + 1)
          /\ \A n \in 1..Len(parsed) : parsed'[n] = parsed[n]
          /\ parsed'[Len(parsed) + 1] = new
          /\ \A n \in DOMAIN parsed' : n \in 1..Len(parsed) \/ n = Len(parsed) + 1
      BY <1>4, <3>1, <3>2, AppendMeaning
    <3>4. new.source = next /\ new.filter = Merged(next)
      BY DEF new
    <3>5. \A n \in 1..Len(parsed) : parsed[n].source \in Parsed /\ parsed[n].source < next
      <4>1. \A n \in 1..Len(parsed) : parsed[n].source \in 1..(next - 1)
        BY <1>4, <3>3 DEF Parsed
      <4>2. \A i \in 1..(next - 1) : i < next
        BY <1>1
      <4> QED BY <3>3, <4>1, <4>2 DEF Parsed
    <3>6. Parsed' = Parsed \cup {next}
      <4>1. \A n \in 1..Len(parsed) : parsed'[n].source = parsed[n].source
        BY <3>3
      <4>2. Parsed' = {parsed'[n].source : n \in 1..(Len(parsed) + 1)}
        BY <3>3 DEF Parsed
      <4>3. 1..(Len(parsed) + 1) = 1..Len(parsed) \cup {Len(parsed) + 1}
        BY <3>3
      <4>4. Parsed = {parsed[n].source : n \in 1..Len(parsed)}
        BY <3>3 DEF Parsed
      <4>5. ASSUME NEW x PROVE x \in Parsed' <=> x \in Parsed \cup {next}
        <5>1. x \in Parsed' <=>
                (\E n \in 1..Len(parsed) : x = parsed'[n].source) \/ x = parsed'[Len(parsed) + 1].source
          BY <4>2, <4>3, Zenon
        <5>2. parsed'[Len(parsed) + 1].source = next
          BY <3>3, <3>4
        <5>3. x \in Parsed' <=> (\E n \in 1..Len(parsed) : x = parsed[n].source) \/ x = next
          BY <4>1, <5>1, <5>2, Zenon
        <5> QED BY <4>4, <5>3, Zenon
      <4> QED BY <4>5, Zenon
    <3>7. next \notin down
      BY <1>1, <1>4
    <3>8. 1..(next' - 1) = 1..(next - 1) \cup {next}
      BY <1>0, <1>1
    <3>9. Parsing'
      <4>1. Parsed' \cap down' = {} /\ Parsed' \cup down' = 1..(next' - 1)
        BY <1>4, <3>1, <3>6, <3>7, <3>8
      <4>2. Len(parsed') < next'
        BY <1>0, <1>1, <1>4, <3>3
      <4> QED BY <1>0, <1>4, <4>1, <4>2 DEF Parsing
    <3>10. ASSUME NEW n \in DOMAIN parsed'
           PROVE  parsed'[n].filter = Merged(parsed[n].source)'
      <4>1. CASE n \in 1..Len(parsed)
        <5>1. parsed[n].filter = Merged(parsed[n].source)
          BY <3>3, <4>1 DEF IInv, InOrder
        <5> QED BY <1>3, <3>3, <4>1, <5>1 DEF Merged
      <4>2. CASE n = Len(parsed) + 1
        BY <1>3, <3>3, <3>4, <4>2 DEF Merged
      <4> QED BY <3>3, <4>1, <4>2
    <3>11. ASSUME NEW m \in DOMAIN parsed', NEW n \in DOMAIN parsed', m < n
           PROVE  parsed'[m].source < parsed'[n].source
      <4>1. m \in 1..Len(parsed)
        BY <3>3, <3>11
      <4>2. CASE n \in 1..Len(parsed)
        BY <3>3, <3>11, <4>1, <4>2 DEF IInv, InOrder
      <4>3. CASE n = Len(parsed) + 1
        BY <3>3, <3>4, <3>5, <4>1, <4>3
      <4> QED BY <3>3, <4>2, <4>3
    <3> QED BY <1>4, <3>1, <3>3, <3>9, <3>10, <3>11 DEF InOrder
  <2>2. CASE ResolveFails
    <3>1. parsed' = parsed /\ down' = down \cup {next}
      BY <2>2 DEF ResolveFails
    <3>2. next \notin Parsed
      BY <1>1, <1>4
    <3>3. 1..(next' - 1) = 1..(next - 1) \cup {next}
      BY <1>0, <1>1
    <3>4. Parsed' = Parsed
      BY <3>1 DEF Parsed
    <3>5. Len(parsed) \in Nat
      BY <1>4
    <3>6. Parsing'
      BY <1>0, <1>1, <1>4, <3>1, <3>2, <3>3, <3>4, <3>5 DEF Parsing
    <3>7. InOrder'
      BY <1>2, <3>1 DEF IInv, InOrder
    <3> QED BY <1>1, <1>4, <3>1, <3>6, <3>7
  <2> QED BY <2>1, <2>2
<1>6. next' \in 1..Len(list') + 1
  BY <1>0, <1>1, <1>3
<1>7. TInv'
  BY <1>0, <1>2, <1>3, <1>5, <1>6 DEF IInv, TInv
<1> QED BY <1>0, <1>2, <1>5, <1>7 DEF IInv, Reading, Early, Meant, Accessing, Running

\* The results of parse_sources stay in order.
LEMMA InOrderStays ==
  ASSUME InOrder, UNCHANGED <<config, parsed>>
  PROVE  InOrder'
<1>1. UNCHANGED <<global, list, parsed>>
  BY DEF config
<1>2. \A n \in DOMAIN parsed' : parsed'[n].filter = Merged(parsed[n].source)'
  <2>1. \A n \in DOMAIN parsed : parsed[n].filter = Merged(parsed[n].source)
    BY DEF InOrder
  <2> QED BY <1>1, <2>1 DEF Merged
<1>3. \A m, n \in DOMAIN parsed' : m < n => parsed'[m].source < parsed'[n].source
  BY <1>1 DEF InOrder
<1> QED BY <1>2, <1>3 DEF InOrder

\* A step that only moves the phase on.
LEMMA PhaseKeeps ==
  ASSUME IInv, UNCHANGED <<config, next, parsed, usable, down>>,
         phase' \in {"parse", "access", "running", "failed", "unauthorized"}
  PROVE  /\ TInv' /\ InOrder' /\ Parsed' = Parsed /\ Sources' = Sources
         /\ AsMeant' <=> AsMeant
<1>1. UNCHANGED <<env, todo, file, global, list, next, parsed, usable, down>>
  BY DEF config
<1>2. Parsed' = Parsed
  BY <1>1 DEF Parsed
<1>3. Sources' = Sources /\ (AsMeant' <=> AsMeant)
  BY ConfigStays
<1>4. InOrder'
  BY InOrderStays DEF IInv
<1>5. TInv'
  BY <1>1, <1>3 DEF IInv, TInv
<1> QED BY <1>2, <1>3, <1>4, <1>5

\* The start-up gives up.
LEMMA GivingUpKeeps ==
  ASSUME IInv, UNCHANGED <<config, next, parsed, usable, down>>, phase' = "failed"
  PROVE  IInv'
<1>1. TInv' /\ InOrder' /\ (AsMeant' <=> AsMeant) /\ parsed' = parsed
  BY PhaseKeeps
<1>2. Meant'
  BY <1>1 DEF IInv, Meant
<1> QED BY <1>1, <1>2 DEF IInv, Reading, Early, Parsing, Accessing, Running

LEMMA FileFailsKeeps ==
  ASSUME IInv, FileFails
  PROVE  IInv'
<1>1. /\ phase = "load" /\ phase' = "failed" /\ file' \in Files
      /\ UNCHANGED <<env, todo, global, list, next, parsed, usable, down>>
      /\ parsed = <<>>
  BY DEF FileFails, IInv, Early
<1>2. Sources' = Sources
  BY <1>1 DEF Sources
<1>3. TInv'
  BY <1>1, <1>2 DEF IInv, TInv
<1>4. InOrder'
  BY <1>1 DEF InOrder
<1>5. Meant'
  BY <1>1 DEF Meant
<1> QED BY <1>1, <1>3, <1>4, <1>5 DEF IInv, Reading, Early, Parsing, Accessing, Running

LEMMA LoginKeeps ==
  ASSUME IInv, LoginOK \/ LoginFails
  PROVE  IInv'
<1>1. /\ phase = "login" /\ phase' \in {"parse", "failed", "unauthorized"}
      /\ UNCHANGED <<config, next, parsed, usable, down>>
      /\ next = 1 /\ parsed = <<>> /\ usable = <<>> /\ down = {} /\ AsMeant
  BY DEF LoginOK, LoginFails, IInv, Early, Meant
<1>2. TInv' /\ InOrder' /\ AsMeant'
  BY <1>1, PhaseKeeps
<1>3. Parsing'
  <2>1. parsed' = <<>> /\ usable' = <<>> /\ down' = {} /\ next' = 1
    BY <1>1
  <2>2. Parsed' = {}
    BY <2>1 DEF Parsed
  <2>3. 1..(next' - 1) = {} /\ Len(parsed') < next'
    BY <2>1
  <2> QED BY <2>1, <2>2, <2>3 DEF Parsing
<1> QED BY <1>1, <1>2, <1>3 DEF IInv, Reading, Early, Meant, Accessing, Running

LEMMA ParseDoneKeeps ==
  ASSUME IInv, ParseDone
  PROVE  IInv'
<1>1. /\ phase = "parse" /\ phase' = "access" /\ next > Len(list) /\ next' = 1
      /\ UNCHANGED <<config, parsed, usable, down>>
      /\ AsMeant
  BY DEF ParseDone, IInv, Meant
<1>2. UNCHANGED <<env, todo, file, global, list>> /\ AsMeant' /\ Sources' = Sources
  BY <1>1, ConfigStays
<1>3. /\ Len(list) \in Nat /\ next = Len(list) + 1 /\ Sources = 1..Len(list)
      /\ parsed \in Seq([source : Sources, filter : FilterSet]) /\ Len(parsed) \in Nat
  BY <1>1 DEF IInv, TInv, Sources
<1>4. /\ usable = <<>> /\ Parsed \cap down = {} /\ Parsed \cup down = 1..(next - 1)
      /\ Len(parsed) < next
  BY <1>1 DEF IInv, Parsing
<1>5. Parsed' = Parsed
  BY <1>1 DEF Parsed
<1>6. Parsed \cup down = Sources /\ Len(parsed) <= Len(list)
  BY <1>3, <1>4
<1>7. \A n \in DOMAIN parsed : parsed[n].source \notin down
  BY <1>4 DEF Parsed
<1>8. {usable[m] : m \in DOMAIN usable} = {} /\ \A l, m \in DOMAIN usable : FALSE
  BY <1>4
<1>9. {parsed[n].source : n \in 1..(next' - 1)} = {}
  BY <1>1
<1>10. Accessing'
  <2>1. {usable'[m] : m \in DOMAIN usable'} = {parsed'[n].source : n \in 1..(next' - 1)} \ down'
    BY <1>1, <1>8, <1>9
  <2>2. next' <= Len(parsed') + 1 /\ Len(parsed') <= Len(list')
    BY <1>1, <1>2, <1>3, <1>6
  <2> QED BY <1>1, <1>2, <1>5, <1>6, <1>7, <1>8, <2>1, <2>2 DEF Accessing
<1>11. InOrder'
  BY <1>1, InOrderStays DEF IInv
<1>12. TInv'
  BY <1>1, <1>2, <1>3 DEF IInv, TInv
<1> QED BY <1>1, <1>2, <1>10, <1>11, <1>12 DEF IInv, Reading, Early, Meant, Parsing, Running

\* A source that gives access, or does not.
LEMMA AccessKeeps ==
  ASSUME IInv, AccessOK \/ AccessFails
  PROVE  IInv'
<1> DEFINE s == parsed[next].source
           Before == {parsed[n].source : n \in 1..(next - 1)}
           Kept == {usable[m] : m \in DOMAIN usable}
<1>0. /\ phase = "access" /\ phase' = "access" /\ next <= Len(parsed) /\ next' = next + 1
      /\ UNCHANGED <<config, parsed>> /\ AsMeant
  BY DEF AccessOK, AccessFails, IInv, Meant
<1>1. UNCHANGED <<env, todo, file, global, list>> /\ AsMeant' /\ Sources' = Sources
  BY <1>0, ConfigStays
<1>2. /\ next \in Nat /\ next >= 1 /\ Len(parsed) \in Nat /\ Len(list) \in Nat
      /\ DOMAIN parsed = 1..Len(parsed) /\ next \in DOMAIN parsed
      /\ parsed \in Seq([source : Sources, filter : FilterSet])
      /\ usable \in Seq(Sources) /\ down \subseteq Sources
      /\ s \in Sources /\ Sources = 1..Len(list)
  <2>1. /\ list \in Seq(Entries) /\ next \in 1..Len(list) + 1
        /\ parsed \in Seq([source : Sources, filter : FilterSet])
        /\ usable \in Seq(Sources) /\ down \subseteq Sources
    BY DEF IInv, TInv
  <2>2. /\ next \in Nat /\ next >= 1 /\ Len(parsed) \in Nat /\ Len(list) \in Nat
        /\ DOMAIN parsed = 1..Len(parsed) /\ next \in DOMAIN parsed
    <3>1. Len(parsed) \in Nat /\ Len(list) \in Nat /\ DOMAIN parsed = 1..Len(parsed)
      BY <2>1
    <3> QED BY <1>0, <2>1, <3>1
  <2>3. Sources = 1..Len(list)
    BY <2>1 DEF Sources
  <2>4. parsed[next] \in [source : Sources, filter : FilterSet]
    BY <2>1, <2>2, ElementTyped
  <2> QED BY <2>1, <2>2, <2>3, <2>4
<1>3. /\ Parsed \cup down = Sources /\ Len(parsed) <= Len(list)
      /\ \A n \in DOMAIN parsed : n >= next => parsed[n].source \notin down
      /\ Kept = Before \ down
      /\ \A l, m \in DOMAIN usable : l < m => usable[l] < usable[m]
  BY <1>0, Zenon DEF IInv, Accessing
<1>4. \A m, n \in DOMAIN parsed : m < n => parsed[m].source < parsed[n].source
  BY DEF IInv, InOrder
<1>5. \A x \in Before : x < s
  <2> SUFFICES ASSUME NEW n \in 1..(next - 1) PROVE parsed[n].source < s
    OBVIOUS
  <2>1. n \in DOMAIN parsed /\ n < next
    BY <1>0, <1>2
  <2> QED BY <1>2, <1>4, <2>1
<1>6. s \notin Before
  <2>1. ~(s < s)
    BY <1>2
  <2> QED BY <1>5, <2>1
<1>7. s \notin down
  <2>1. next >= next
    BY <1>2
  <2> QED BY <1>2, <1>3, <2>1
<1>8. {parsed'[n].source : n \in 1..(next' - 1)} = Before \cup {s}
  <2>1. 1..(next' - 1) = 1..(next - 1) \cup {next}
    BY <1>0, <1>2
  <2>2. ASSUME NEW x
        PROVE  x \in {parsed[n].source : n \in 1..(next' - 1)} <=> x \in Before \cup {s}
    <3>1. x \in {parsed[n].source : n \in 1..(next' - 1)} <=>
            (\E n \in 1..(next - 1) : x = parsed[n].source) \/ x = s
      BY <2>1, Zenon
    <3> QED BY <3>1, Zenon
  <2> QED BY <1>0, <2>2, Zenon
<1>9. Parsed' = Parsed /\ InOrder'
  <2>1. parsed' = parsed /\ InOrder'
    BY <1>0, InOrderStays DEF IInv
  <2> QED BY <2>1 DEF Parsed
<1>10. next' \in 1..Len(list') + 1 /\ next' <= Len(parsed') + 1 /\ Len(parsed') <= Len(list')
  BY <1>0, <1>1, <1>2, <1>3
<1>11. \A n \in DOMAIN parsed : n >= next' => n >= next /\ n > next
  BY <1>0, <1>2
<1>12. CASE AccessOK
  <2>1. usable' = Append(usable, s) /\ down' = down
    BY <1>12 DEF AccessOK
  <2>2. Kept \subseteq Before
    BY <1>3
  <2> HIDE DEF s, Before
  <2>3. /\ usable' \in Seq(Sources)
        /\ Len(usable) \in Nat /\ Len(usable') = Len(usable) + 1
        /\ DOMAIN usable = 1..Len(usable) /\ DOMAIN usable' = 1..(Len(usable) + 1)
        /\ \A n \in 1..Len(usable) : usable'[n] = usable[n]
        /\ usable'[Len(usable) + 1] = s
        /\ \A n \in DOMAIN usable' : n \in 1..Len(usable) \/ n = Len(usable) + 1
    BY <1>2, <2>1, AppendMeaning
  <2>4. {usable'[m] : m \in DOMAIN usable'} = Kept \cup {s}
    <3>1. 1..(Len(usable) + 1) = 1..Len(usable) \cup {Len(usable) + 1}
      BY <2>3
    <3>2. ASSUME NEW x PROVE x \in {usable'[m] : m \in DOMAIN usable'} <=> x \in Kept \cup {s}
      <4>1. x \in {usable'[m] : m \in DOMAIN usable'} <=>
              (\E n \in 1..Len(usable) : x = usable'[n]) \/ x = usable'[Len(usable) + 1]
        BY <2>3, <3>1, Zenon
      <4> QED BY <2>3, <4>1, Zenon
    <3> QED BY <3>2, Zenon
  <2>5. Kept \cup {s} = (Before \cup {s}) \ down
    BY <1>3, <1>7
  <2>6. ASSUME NEW l \in DOMAIN usable', NEW m \in DOMAIN usable', l < m
        PROVE  usable'[l] < usable'[m]
    <3>1. l \in 1..Len(usable)
      BY <2>3, <2>6
    <3>2. CASE m \in 1..Len(usable)
      BY <1>3, <2>3, <2>6, <3>1, <3>2
    <3>3. CASE m = Len(usable) + 1
      <4>1. usable[l] \in Kept
        BY <2>3, <3>1
      <4> QED BY <1>5, <2>2, <2>3, <3>1, <3>3, <4>1
    <3> QED BY <2>3, <3>2, <3>3
  <2>7. Accessing'
    <3>1. {usable'[m] : m \in DOMAIN usable'} = {parsed'[n].source : n \in 1..(next' - 1)} \ down'
      BY <1>8, <2>1, <2>4, <2>5, Zenon
    <3>2. \A n \in DOMAIN parsed' : n >= next' => parsed'[n].source \notin down'
      BY <1>0, <1>3, <1>11, <2>1
    <3> QED BY <1>1, <1>3, <1>9, <1>10, <2>1, <2>6, <3>1, <3>2 DEF Accessing
  <2>8. TInv'
    BY <1>0, <1>1, <1>2, <1>10, <2>1, <2>3 DEF IInv, TInv
  <2> QED BY <1>0, <1>1, <1>9, <2>7, <2>8 DEF IInv, Reading, Early, Meant, Parsing, Running
<1>13. CASE AccessFails
  <2>1. usable' = usable /\ down' = down \cup {s}
    BY <1>13 DEF AccessFails
  <2>2. Kept = (Before \cup {s}) \ (down \cup {s})
    <3> HIDE DEF s, Before, Kept
    <3> QED BY <1>3, <1>6
  <2>3. ASSUME NEW n \in DOMAIN parsed, n >= next' PROVE parsed[n].source \notin down \cup {s}
    <3>1. n >= next /\ next < n
      BY <1>2, <1>11, <2>3
    <3>2. s < parsed[n].source
      BY <1>2, <1>4, <3>1
    <3>3. s # parsed[n].source
      BY <1>2, <3>2
    <3> QED BY <1>3, <3>1, <3>3
  <2>4. Parsed \cup (down \cup {s}) = Sources
    BY <1>2, <1>3
  <2>5. Accessing'
    <3>1. {usable'[m] : m \in DOMAIN usable'} = {parsed'[n].source : n \in 1..(next' - 1)} \ down'
      BY <1>8, <2>1, <2>2
    <3>2. \A n \in DOMAIN parsed' : n >= next' => parsed'[n].source \notin down'
      BY <1>0, <2>1, <2>3
    <3> QED BY <1>1, <1>3, <1>9, <1>10, <2>1, <2>4, <3>1, <3>2 DEF Accessing
  <2>6. TInv'
    BY <1>0, <1>1, <1>2, <1>10, <2>1 DEF IInv, TInv
  <2> QED BY <1>0, <1>1, <1>9, <2>5, <2>6 DEF IInv, Reading, Early, Meant, Parsing, Running
<1> QED BY <1>12, <1>13

\* At the end of the second loop the usable sources are the ones that answered.
LEMMA AccessMeaning ==
  ASSUME IInv, phase = "access", next > Len(parsed)
  PROVE  /\ {usable[m] : m \in DOMAIN usable} = Sources \ down
         /\ \A l, m \in DOMAIN usable : l < m => usable[l] < usable[m]
<1>1. /\ next \in Nat /\ Len(parsed) \in Nat /\ DOMAIN parsed = 1..Len(parsed)
  BY DEF IInv, TInv
<1>2. /\ Parsed \cup down = Sources /\ next <= Len(parsed) + 1
      /\ {usable[m] : m \in DOMAIN usable} = {parsed[n].source : n \in 1..(next - 1)} \ down
      /\ \A l, m \in DOMAIN usable : l < m => usable[l] < usable[m]
  BY DEF IInv, Accessing
<1>3. 1..(next - 1) = DOMAIN parsed
  BY <1>1, <1>2
<1>4. {usable[m] : m \in DOMAIN usable} = Parsed \ down
  BY <1>2, <1>3 DEF Parsed
<1>5. Parsed \ down = Sources \ down
  BY <1>2
<1> QED BY <1>2, <1>4, <1>5

LEMMA AccessDoneKeeps ==
  ASSUME IInv, AccessDone
  PROVE  IInv'
<1>1. /\ phase = "access" /\ next > Len(parsed)
      /\ phase' = IF usable = <<>> THEN "failed" ELSE "running"
      /\ UNCHANGED <<config, next, parsed, usable, down>> /\ AsMeant
  BY DEF AccessDone, IInv, Meant
<1>2. TInv' /\ InOrder' /\ AsMeant' /\ Sources' = Sources
  BY <1>1, PhaseKeeps
<1>3. Running'
  BY <1>1, <1>2, AccessMeaning DEF Running
<1> QED BY <1>1, <1>2, <1>3 DEF IInv, Reading, Early, Meant, Parsing, Accessing

-----------------------------------------------------------------------------
(* The invariant holds. *)

LEMMA InitHolds == Init => IInv
<1> SUFFICES ASSUME Init PROVE IInv
  OBVIOUS
<1>1. /\ env \in Environments /\ todo = {v \in Variables : env[v] # Unset}
      /\ file = NoFile /\ global = NoKeys /\ list = <<>> /\ phase = "load" /\ next = 1
      /\ parsed = <<>> /\ usable = <<>> /\ down = {}
  BY DEF Init
<1>2. TInv
  <2>1. Len(list) = 0 /\ DOMAIN list = {}
    BY <1>1
  <2> QED BY <1>1, <2>1, GapTyped DEF TInv, Sources
<1>3. \A i \in 0..MaxIndex, f \in Options \cup {"chat"} :
        <<i, f>> \in Variables => Known(<<i, f>>) = Unset
  BY <1>1 DEF Known
<1>4. /\ \A o \in Options : Known(<<0, o>>) = Unset
      /\ \A i \in 1..MaxIndex, f \in Options \cup {"chat"} : Known(<<i, f>>) = Unset
  <2>1. 0 \in 0..MaxIndex /\ \A i \in 1..MaxIndex : i \in 0..MaxIndex
    BY LoaderAssumption
  <2> QED BY <1>1, <1>3, <2>1, VariablesTyped
<1>5. Reading
  <2>1. \A i \in 1..MaxIndex : At(list, i) = Gap
    BY <1>1 DEF At
  <2>2. \A i \in 1..MaxIndex : Entry(i) = Gap
    BY <1>4 DEF Entry, Gap
  <2>3. Len(list) <= MaxIndex
    BY <1>1, LoaderAssumption
  <2> QED BY <1>1, <1>4, <2>1, <2>2, <2>3 DEF Reading, NoKeys
<1> QED BY <1>1, <1>2, <1>5 DEF IInv, Early, Meant, InOrder, Parsing, Accessing, Running

LEMMA StepKeeps == IInv /\ [Next]_vars => IInv'
<1> SUFFICES ASSUME IInv, [Next]_vars PROVE IInv'
  OBVIOUS
<1>1. ASSUME NEW v \in Variables, ReadVariable(v) PROVE IInv'
  <2>1. TInv' /\ Reading'
    BY <1>1, ReadVariableKeeps DEF IInv
  <2>2. /\ phase = "load" /\ phase' = "load" /\ parsed' = <<>> /\ next' = 1
        /\ usable' = <<>> /\ down' = {}
    BY <1>1 DEF ReadVariable, IInv, Early
  <2> QED BY <2>1, <2>2 DEF IInv, Early, Meant, InOrder, Parsing, Accessing, Running
<1>2. ASSUME NEW v \in Variables, BadVariable(v) PROVE IInv'
  BY <1>2, GivingUpKeeps DEF BadVariable
<1>3. CASE ReadFile
  <2>1. TInv' /\ AsMeant'
    BY <1>3, ReadFileKeeps DEF IInv
  <2>2. /\ phase = "load" /\ phase' = "login" /\ parsed' = <<>> /\ next' = 1
        /\ usable' = <<>> /\ down' = {}
    BY <1>3 DEF ReadFile, IInv, Early
  <2> QED BY <2>1, <2>2 DEF IInv, Reading, Early, Meant, InOrder, Parsing, Accessing, Running
<1>4. CASE FileFails
  BY <1>4, FileFailsKeeps
<1>5. CASE LoginOK \/ LoginFails
  BY <1>5, LoginKeeps
<1>6. CASE ParseRaises
  BY <1>6, GivingUpKeeps DEF ParseRaises
<1>7. CASE ParseOK \/ ResolveFails
  BY <1>7, ParseKeeps
<1>8. CASE ParseDone
  BY <1>8, ParseDoneKeeps
<1>9. CASE AccessOK \/ AccessFails
  BY <1>9, AccessKeeps
<1>10. CASE AccessDone
  BY <1>10, AccessDoneKeeps
<1>11. CASE UNCHANGED vars
  <2>1. UNCHANGED <<env, todo, file, global, list, phase, next, parsed, usable, down>>
    BY <1>11 DEF vars, config
  <2>2. UNCHANGED config
    BY <2>1 DEF config
  <2>3. /\ AsMeant' <=> AsMeant
        /\ Sources' = Sources
        /\ Parsed' = Parsed
    BY <2>1, <2>2, ConfigStays DEF Parsed
  <2>4. TInv' /\ Early'
    BY <2>1, <2>3 DEF IInv, TInv, Early
  <2>5. InOrder'
    BY <2>1, <2>2, InOrderStays DEF IInv
  <2>6. Reading'
    BY <2>1 DEF IInv, Reading, At, Entry, Known
  <2>7. Meant' /\ Parsing' /\ Accessing' /\ Running'
    BY <2>1, <2>3 DEF IInv, Meant, Parsing, Accessing, Running
  <2> QED BY <2>4, <2>5, <2>6, <2>7 DEF IInv
<1> QED
  BY <1>1, <1>2, <1>3, <1>4, <1>5, <1>6, <1>7, <1>8, <1>9, <1>10, <1>11 DEF Next, Over

LEMMA Invariant == Spec => []IInv
BY InitHolds, StepKeeps, PTL DEF Spec

-----------------------------------------------------------------------------
(* What follows from it. *)

\* Type correctness (TypeOK): the configuration, the sources and the filters that
\* load_config and parse_sources build are of the shapes the rest of the code expects.
THEOREM TypeCorrect == Spec => []TypeOK
<1>1. IInv => TypeOK
  <2> SUFFICES ASSUME IInv PROVE TypeOK
    OBVIOUS
  <2>1. \A i \in DOMAIN list : IsEntry(list[i])
    <3>1. \A i \in DOMAIN list : list[i] \in Entries
      BY DEF IInv, TInv
    <3> QED BY <3>1 DEF Entries
  <2>2. \A n \in DOMAIN parsed : parsed[n].source \in Sources /\ IsFilter(parsed[n].filter)
    <3>1. parsed \in Seq([source : Sources, filter : FilterSet])
      BY DEF IInv, TInv
    <3>2. \A n \in DOMAIN parsed : parsed[n] \in [source : Sources, filter : FilterSet]
      BY <3>1, ElementTyped
    <3>3. \A n \in DOMAIN parsed : parsed[n].source \in Sources /\ parsed[n].filter \in FilterSet
      BY <3>2
    <3> QED BY <3>3 DEF FilterSet
  <2>3. \A n \in DOMAIN usable : usable[n] \in Sources
    BY DEF IInv, TInv
  <2> QED BY <2>1, <2>2, <2>3 DEF IInv, TInv, TypeOK
<1> QED BY <1>1, Invariant, PTL

\* OrderKept: when the start-up is done, the sources are in the order of the
\* configuration, those of the environment by their number in whatever order it lists
\* its variables, and they are exactly the ones that answered.
THEOREM OrderIsKept == Spec => []OrderKept
<1>1. IInv => OrderKept
  BY DEF IInv, Meant, AsMeant, Running, OrderKept
<1> QED BY <1>1, Invariant, PTL

\* Each source of the environment has a number.
LEMMA NumberTyped ==
  ASSUME IInv, AsMeant, Numbers # {}, NEW k \in Sources
  PROVE  Number(k) \in 1..MaxIndex
<1>1. MaxIndex \in Nat /\ Numbers \in SUBSET (1..MaxIndex)
  BY LoaderAssumption DEF Numbers
<1>2. list \in Seq(Entries)
  BY DEF IInv, TInv
<1>3. Sources = 1..Len(list)
  BY <1>2 DEF Sources
<1>4. k \in 1..Cardinality(Numbers)
  BY <1>3 DEF AsMeant
<1>5. Number(k) \in Numbers
  BY <1>1, <1>4, NthExists DEF Number
<1> QED BY <1>1, <1>5

\* Its entry in the list holds what the environment says of it.
LEMMA NumberMeaning ==
  ASSUME IInv, AsMeant, Numbers # {}, NEW k \in Sources
  PROVE  LET keys == [o \in Options |-> env[<<Number(k), o>>]]
         IN /\ list[k].filters # NoBlock <=> \E o \in Options : keys[o] # Unset
            /\ list[k].filters # NoBlock => list[k].filters = keys
<1>1. list[k] = Entry(Number(k)) /\ todo = {} /\ TInv
  BY DEF AsMeant, IInv
<1>2. Number(k) \in 1..MaxIndex
  BY NumberTyped
<1>3. \A o \in Options : Known(<<Number(k), o>>) = env[<<Number(k), o>>]
  BY <1>1 DEF Known
<1>4. /\ \A o \in Options : Known(<<Number(k), o>>) # Unset => list[k].filters # NoBlock
      /\ list[k].filters # NoBlock => list[k].filters = [o \in Options |-> Known(<<Number(k), o>>)]
  BY <1>1, <1>2, EntryMeaning
<1>5. (\A o \in Options : Known(<<Number(k), o>>) = Unset) => list[k].filters = NoBlock
  BY <1>1 DEF Entry
<1> QED BY <1>3, <1>4, <1>5

\* The keys that parse_sources finds in a source's block are the user's.
LEMMA OwnMeaning ==
  ASSUME IInv, AsMeant, NEW k \in Sources, NEW o \in Options
  PROVE  OwnKey(k, o) = IF list[k].filters = NoBlock THEN Unset ELSE list[k].filters[o]
<1>1. CASE Numbers = {}
  <2>1. list[k] = file.sources[k]
    BY <1>1 DEF AsMeant
  <2> QED BY <1>1, <2>1 DEF OwnKey
<1>2. CASE Numbers # {}
  <2>1. OwnKey(k, o) = env[<<Number(k), o>>]
    BY <1>2 DEF OwnKey
  <2> QED BY <1>2, <2>1, NumberMeaning
<1> QED BY <1>1, <1>2

\* And there is a block when the user gave the source any filter.
LEMMA BlockMeaning ==
  ASSUME IInv, AsMeant, NEW k \in Sources
  PROVE  HasBlock(k) <=> list[k].filters # NoBlock
<1>1. CASE Numbers = {}
  <2>1. list[k] = file.sources[k]
    BY <1>1 DEF AsMeant
  <2> QED BY <1>1, <2>1 DEF HasBlock
<1>2. CASE Numbers # {}
  BY <1>2, NumberMeaning DEF HasBlock
<1> QED BY <1>1, <1>2

\* So are the global ones.
LEMMA GlobalMeaning ==
  ASSUME AsMeant, NEW o \in AllOptions
  PROVE  Filled(global)[o] = GlobalValue(o)
BY DEF AsMeant, Filled, GlobalValue

\* What parse_sources merges for a source is the setting in force.
LEMMA MergedMeaning ==
  ASSUME IInv, AsMeant, NEW k \in Sources, NEW o \in AllOptions
  PROVE  Merged(k)[o] = Effective(k, o)
<1> DEFINE block == list[k].filters
           own == Filled(block)
           falls == Empty(o, own[o]) \/ (o = "allow_archives" /\ (o \in Options => block[o] = Unset))
<1>1. Filled(global)[o] = GlobalValue(o)
  BY GlobalMeaning
<1>2. OwnKey(k, o) = IF o \in Options /\ block # NoBlock THEN block[o] ELSE Unset
  BY OwnMeaning DEF OwnKey
<1>3. Merged(k)[o] = IF block = NoBlock \/ falls THEN GlobalValue(o) ELSE own[o]
  BY <1>1 DEF Merged
<1>4. own[o] = IF o \in Options /\ block[o] # Unset THEN block[o] ELSE SchemaDefault[o]
  BY DEF Filled
<1>5. HasBlock(k) <=> block # NoBlock
  BY BlockMeaning
<1>6. CASE block = NoBlock
  BY <1>2, <1>3, <1>5, <1>6 DEF Effective
<1>7. CASE block # NoBlock /\ o \in Options /\ block[o] # Unset
  <2>1. OwnKey(k, o) = block[o] /\ own[o] = block[o]
    BY <1>2, <1>4, <1>7
  <2>2. falls <=> Empty(o, block[o])
    BY <1>7, <2>1
  <2> QED BY <1>3, <1>7, <2>1, <2>2 DEF Effective
<1>8. CASE block # NoBlock /\ (o \in Options => block[o] = Unset)
  <2>1. OwnKey(k, o) = Unset /\ own[o] = SchemaDefault[o]
    BY <1>2, <1>4, <1>8
  <2>2. Effective(k, o) = IF o \in Prefilled THEN SchemaDefault[o] ELSE GlobalValue(o)
    BY <1>5, <1>8, <2>1 DEF Effective
  <2>3. falls <=> o \notin Prefilled
    <3>1. falls <=> Empty(o, SchemaDefault[o]) \/ o = "allow_archives"
      BY <1>8, <2>1
    <3>2. o \in Lists => (o \in Prefilled <=> ~Empty(o, SchemaDefault[o])) /\ o # "allow_archives"
      BY DEF Prefilled, Empty, Lists
    <3>3. o \notin Lists => o \notin Prefilled
      BY DEF Prefilled
    <3>4. o \notin Lists => Empty(o, SchemaDefault[o]) \/ o = "allow_archives"
      BY DEF AllOptions, Empty, SchemaDefault, Scalars, Limits, Lists
    <3> QED BY <3>1, <3>2, <3>3, <3>4
  <2> QED BY <1>3, <1>8, <2>1, <2>2, <2>3
<1> QED BY <1>6, <1>7, <1>8

\* TakesAsConfigured: in whatever order the environment lists its variables, and
\* whether a setting is a source's or a global one, of the environment or of the
\* file, the filters that parse_sources builds for a source take exactly the
\* messages the configuration describes; a source with filters of its own does not
\* inherit the global lists of extensions, as Effective says.
THEOREM FiltersAsConfigured == Spec => []TakesAsConfigured
<1>1. IInv => TakesAsConfigured
  <2> SUFFICES ASSUME IInv, NEW n \in DOMAIN parsed, NEW m \in Messages
               PROVE  LET value(o) == Effective(parsed[n].source, o)
                          wanted == /\ \/ value("extensions") = {}
                                       \/ m.kind \in value("extensions")
                                       \/ m.kind \in value("archive_exts") /\ value("allow_archives")
                                    /\ value("only_after") # None => m.date >= value("only_after")
                                    /\ value("only_before") # None => m.date <= value("only_before")
                      IN Accepts(parsed[n].filter, m) <=> wanted
    BY DEF TakesAsConfigured
  <2> DEFINE k == parsed[n].source
  <2>1. parsed # <<>> /\ parsed[n].filter = Merged(k)
    BY DEF IInv, InOrder
  <2>2. AsMeant
    BY <2>1 DEF IInv, Meant
  <2>3. k \in Sources
    <3>1. parsed \in Seq([source : Sources, filter : FilterSet])
      BY DEF IInv, TInv
    <3>2. parsed[n] \in [source : Sources, filter : FilterSet]
      BY <3>1, ElementTyped
    <3> QED BY <3>2
  <2>4. \A o \in AllOptions : parsed[n].filter[o] = Effective(k, o)
    BY <2>1, <2>2, <2>3, MergedMeaning
  <2>5. {"extensions", "archive_exts", "allow_archives", "only_after", "only_before"} \subseteq AllOptions
    BY DEF AllOptions, Lists, Scalars, Limits
  <2> QED BY <2>4, <2>5 DEF Accepts, ExtensionMatches, DateMatches
<1> QED BY <1>1, Invariant, PTL

\* FailsForAReason: apart from the login, load_config and startup_validation only give
\* up on a configuration that is broken, on a size limit or a pattern, which no filter
\* can be built for, or when Telegram answered for no source at all.
THEOREM GivesUpForAReason == Spec => FailsForAReason
<1>1. ASSUME IInv, [Next]_vars, phase # "failed", phase' = "failed", phase # "login"
      PROVE  Broken' \/ Unbuildable' \/ down = Sources
  <2>0. TInv /\ env \in Environments
    BY <1>1 DEF IInv, TInv
  <2>1. ASSUME NEW v \in Variables, BadVariable(v) PROVE Broken'
    <3>1. v[2] = "chat" /\ env[v] = "bad" /\ UNCHANGED config
      BY <2>1 DEF BadVariable
    <3>2. ~\E o \in Options : v = <<0, o>>
      BY <3>1, ValuesTyped
    <3>3. PICK i \in 1..MaxIndex, f \in Options \cup {"chat"} : v = <<i, f>>
      BY <2>0, <3>2, VariablesTyped
    <3>4. v = <<i, "chat">> /\ v[1] = i /\ env[v] # Unset /\ env[v] # "good"
      BY <3>1, <3>3, LoaderAssumption
    <3>5. i \in Numbers
      BY <3>4 DEF Numbers
    <3>6. UNCHANGED <<env, Numbers>>
      BY <3>1 DEF config, Numbers
    <3> QED BY <3>4, <3>5, <3>6 DEF Broken
  <2>2. CASE FileFails
    <3>1. CASE file'.state = "broken"
      BY <3>1 DEF Broken
    <3>2. CASE file'.state # "broken"
      <4>1. \A v \in Variables : env[v] = Unset
        BY <2>2, <3>2 DEF FileFails
      <4>2. file' \in {f \in Files : f.state # "good"} /\ env' = env
        BY <2>2 DEF FileFails
      <4>3. Numbers' = {}
        BY <4>1, <4>2 DEF Numbers
      <4> QED BY <4>2, <4>3 DEF Broken
    <3> QED BY <3>1, <3>2
  <2>3. CASE ParseRaises
    <3>1. /\ phase = "parse" /\ next <= Len(list) /\ ~Valid(next) /\ UNCHANGED config
          /\ AsMeant
      BY <1>1, <2>3 DEF ParseRaises, IInv, Meant
    <3>3. next \in Sources /\ Sources = 1..Len(list)
      BY <1>1, <3>1 DEF IInv, TInv, Sources
    <3>2. CASE list[next].chat = "good"
      <4>1. PICK o \in Fatal : ~Empty(o, Merged(next)[o])
        BY <3>1, <3>2 DEF Valid, Builds
      <4>2. o \in AllOptions
        BY DEF Fatal, AllOptions, Lists, Scalars
      <4>3. ~Empty(o, Effective(next, o))
        BY <1>1, <3>1, <3>3, <4>1, <4>2, MergedMeaning
      <4>4. UNCHANGED <<env, file, list>>
        BY <3>1 DEF config
      <4>5. Unbuildable' <=> Unbuildable
        BY <4>4 DEF Unbuildable, Effective, OwnKey, GlobalValue, HasBlock, Number, Numbers, Sources
      <4> QED BY <3>3, <4>3, <4>5 DEF Unbuildable
    <3>4. UNCHANGED <<env, file, Numbers>>
      BY <3>1 DEF config, Numbers
    <3>5. CASE list[next].chat # "good" /\ Numbers = {}
      <4>1. list[next] = file.sources[next] /\ Len(list) = Len(file.sources)
        BY <3>1, <3>3, <3>5 DEF AsMeant
      <4>2. DOMAIN file.sources = 1..Len(file.sources)
        <5>1. file.sources \in Seq(Entries)
          BY <2>0, FileTyped DEF TInv
        <5> QED BY <5>1
      <4>3. next \in DOMAIN file.sources /\ file.sources[next].chat # "good"
        BY <3>3, <3>5, <4>1, <4>2
      <4> QED BY <3>4, <3>5, <4>3 DEF Broken
    <3>6. CASE list[next].chat # "good" /\ Numbers # {}
      <4>1. list[next] = Entry(Number(next)) /\ Len(list) = Cardinality(Numbers) /\ todo = {}
        BY <3>1, <3>3, <3>6 DEF AsMeant
      <4>2. Number(next) \in Numbers
        <5>1. MaxIndex \in Nat /\ Numbers \in SUBSET (1..MaxIndex)
          BY LoaderAssumption DEF Numbers
        <5> QED BY <3>3, <4>1, <5>1, NthExists DEF Number
      <4>3. Entry(Number(next)).chat = env[<<Number(next), "chat">>]
        BY <4>1 DEF Entry, Known
      <4> QED BY <3>4, <3>6, <4>1, <4>2, <4>3 DEF Broken
    <3> QED BY <3>2, <3>5, <3>6
  <2>4. CASE AccessDone
    <3>1. phase = "access" /\ next > Len(parsed) /\ usable = <<>>
      BY <1>1, <2>4 DEF AccessDone
    <3>2. {usable[m] : m \in DOMAIN usable} = {}
      BY <3>1
    <3>3. Sources \ down = {} /\ down \subseteq Sources
      BY <1>1, <2>0, <3>1, <3>2, AccessMeaning DEF TInv
    <3> QED BY <3>3
  <2>5. CASE (\E v \in Variables : ReadVariable(v)) \/ ReadFile \/ ParseOK \/ ResolveFails
             \/ ParseDone \/ AccessOK \/ AccessFails \/ Over \/ UNCHANGED vars
    BY <1>1, <2>5 DEF ReadVariable, ReadFile, ParseOK, ResolveFails, ParseDone, AccessOK,
                      AccessFails, Over, vars
  <2>6. CASE LoginOK \/ LoginFails
    BY <1>1, <2>6 DEF LoginOK, LoginFails
  <2> QED BY <1>1, <2>1, <2>2, <2>3, <2>4, <2>5, <2>6 DEF Next
<1>2. IInv /\ [Next]_vars =>
        [phase # "failed" /\ phase' = "failed" /\ phase # "login" => Broken' \/ Unbuildable' \/ down = Sources]_vars
  BY <1>1
<1> QED BY <1>2, Invariant, PTL DEF Spec, FailsForAReason
=============================================================================
