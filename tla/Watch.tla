------------------------------- MODULE Watch -------------------------------
(***************************************************************************)
(* Which files are watched: the way of --memwrite-prefix through the       *)
(* loader's buffer and its splitting (bpf/memwrite.c), match_prefix in the *)
(* kprobe, and the analyzer's own reading of the same argument, which      *)
(* decides whether the file is read again.  A text is a sequence of        *)
(* characters.                                                             *)
(***************************************************************************)
EXTENDS Integers, FiniteSets, Sequences, SequencesExt

CONSTANTS
  BufferSize,   \* sizeof(prefix), 64
  NameSize,     \* WATCH_PREFIX_LEN, 64
  MaxPrefixes   \* MAX_WATCH_PREFIXES, 8

\* No name is longer than the buffer that the whole list goes through.
ASSUME WatchAssumption ==
  /\ {BufferSize, NameSize, MaxPrefixes} \subseteq Nat \ {0}
  /\ BufferSize <= NameSize

Default == <<"b", "a">>   \* "ehragent_memory"

Comma == ","

Cut(text, n) == SubSeq(text, 1, IF Len(text) < n THEN Len(text) ELSE n)

\* Where the fields of a text begin and end: at its commas, and on either side of it.
Borders(text) == {0, Len(text) + 1} \cup {i \in DOMAIN text : text[i] = Comma}

\* Rust's split(','): a field behind each border but the last, be it empty.
Fields(text) == Borders(text) \ {Len(text) + 1}

\* The field behind the border b goes on up to the next one.
Field(text, b) ==
  SubSeq(text, b + 1, Min({e \in Borders(text) : e > b}) - 1)

\* Mutant: strsep instead of strtok_r.
Tokens_Strsep(text) == Fields(text)

\* strtok_r: no empty fields.
Tokens(text) == {b \in Fields(text) : b + 1 \notin Borders(text)}

\* What the loader makes of its argument: the names of its first tokens.
Watched(arg) ==
  LET text == Cut(arg, BufferSize - 1)
      first == {b \in Tokens(text) : Cardinality({c \in Tokens(text) : c < b}) < MaxPrefixes}
  IN IF first = {} THEN {Default} ELSE {Cut(Field(text, b), NameSize - 1) : b \in first}

match_prefix(prefixes, name) == \E p \in prefixes : IsPrefix(p, name)

\* The analyzer's condition on the path for reading the file again.
Rereads(arg, path) == arg = <<>> \/ \E b \in Fields(arg) : Field(arg, b) \in SubSeqs(path)

-----------------------------------------------------------------------------
\* Whether a name stands from i to j: no comma in it, and one, or nothing, on either side.
Name(arg, i, j) ==
  /\ i <= j /\ \A k \in i..j : arg[k] # Comma
  /\ i = 1 \/ arg[i - 1] = Comma
  /\ j = Len(arg) \/ arg[j + 1] = Comma

Names(arg) ==
  LET places == {p \in (DOMAIN arg) \X (DOMAIN arg) : Name(arg, p[1], p[2])}
  IN {SubSeq(arg, p[1], p[2]) : p \in places}

\* Of an argument that fits the buffer no other file is watched than was asked for
\* (or, if nothing was, the default's), all of them are if there are not too many
\* names, and what the kprobe lets through the analyzer, which splits the argument
\* in its own way, will read again, in whatever directory.
WatchedAsAsked(arg, names, dirs) ==
  LET prefixes == Watched(arg)
      wanted == IF Names(arg) = {} THEN {Default} ELSE Names(arg)
      asked == {name \in names : \E w \in wanted : IsPrefix(w, name)}
      watched == {name \in names : match_prefix(prefixes, name)} IN
    Len(arg) < BufferSize =>
      /\ watched \subseteq asked
      /\ Cardinality(Tokens(arg)) <= MaxPrefixes => asked \subseteq watched
      /\ Names(arg) # {} => \A name \in watched, dir \in dirs : Rereads(arg, dir \o name)

\* README: a list of up to eight file name prefixes is watched.
EightPrefixes(arg, names) ==
  /\ Cardinality(Tokens(arg)) \in 1 .. MaxPrefixes
  /\ \A w \in Names(arg) : Len(w) < NameSize
  => \A name \in names :
       match_prefix(Watched(arg), name) <=> \E w \in Names(arg) : IsPrefix(w, name)
=============================================================================
