---------------------------- MODULE InputsProofs ----------------------------
(***************************************************************************)
(* What MCInputs checks of small inputs, of all of them: the arithmetic of *)
(* Windows for every width of the words and size of the windows, the lists *)
(* of Watch and the rules of Rules for texts of any length over any set of *)
(* characters, the queue of Diagnostics for logs of any length.            *)
(***************************************************************************)
EXTENDS MCInputs, SequenceTheorems, FiniteSetTheorems, WellFoundedInduction, TLAPS

-----------------------------------------------------------------------------
\* Numbers and texts.

\* A set of numbers has a least one, which is what Min chooses.
LEMMA MinIsLeast ==
  ASSUME NEW S \in SUBSET Nat, S # {}
  PROVE  Min(S) \in S /\ \A x \in S : Min(S) <= x
<1> DEFINE R == OpToRel(<, Nat)
<1>1. IsWellFoundedOn(R, Nat)
  BY NatLessThanWellFounded
<1>2. \A x, y \in Nat : x < y => <<x, y>> \in R
  BY DEF OpToRel
<1> HIDE DEF R
<1>3. PICK x \in S : \A y \in S : ~ (<<y, x>> \in R)
  BY <1>1, WFMin
<1>4. x \in Nat /\ \A y \in S : y \in Nat /\ ~ (y < x)
  BY <1>2, <1>3
<1>5. \A y \in S : x <= y
  BY <1>4
<1> QED
  BY <1>5, Zenon DEF Min

\* And a greatest one if it is bounded: the one furthest below the bound.
LEMMA MaxIsGreatest ==
  ASSUME NEW n \in Nat, NEW S \in SUBSET (0..n), S # {}
  PROVE  Max(S) \in S /\ \A x \in S : x <= Max(S)
<1> DEFINE T == {n - x : x \in S}
<1>0. \A x \in S : x \in Nat /\ n - x \in Nat /\ n - x \in T
  OBVIOUS
<1>1. T \in SUBSET Nat /\ T # {}
  BY <1>0
<1>2. Min(T) \in T /\ \A y \in T : Min(T) <= y
  BY <1>1, MinIsLeast
<1>3. PICK x \in S : Min(T) = n - x
  BY <1>2
<1>4. \A y \in S : x >= y
  <2> SUFFICES ASSUME NEW y \in S PROVE x >= y
    OBVIOUS
  <2>1. n - y \in T /\ x \in Nat /\ y \in Nat
    BY <1>0
  <2>2. n - x <= n - y
    BY <1>2, <1>3, <2>1
  <2> QED
    BY <2>1, <2>2
<1>5. \A y \in S : x >= y <=> y <= x
  OBVIOUS
<1>6. Max(S) \in S /\ \A y \in S : Max(S) >= y
  BY <1>3, <1>4, Zenon DEF Max
<1> QED
  BY <1>6

\* A text is within another one when it stands somewhere in it.
Stands(s, x, k) == Len(s) + k <= Len(x) /\ \A i \in 1..Len(s) : x[k + i] = s[i]

LEMMA WithinAt ==
  ASSUME NEW C, NEW s \in Seq(C), NEW x \in Seq(C)
  PROVE  s \in SubSeqs(x) <=> \E k \in 0..Len(x) : Stands(s, x, k)
<1>0. Len(s) \in Nat /\ Len(x) \in Nat /\ \A i \in 1..Len(x) : x[i] \in C
  OBVIOUS
<1>1. ASSUME NEW i \in 0..Len(x), NEW j \in 0..Len(x), s = SubSeq(x, i + 1, j)
      PROVE  Stands(s, x, i)
  <2>1. /\ Len(s) = IF i + 1 <= j THEN j - (i + 1) + 1 ELSE 0
        /\ \A n \in 1..j - (i + 1) + 1 : s[n] = x[(i + 1) + n - 1]
    BY <1>0, <1>1, SubSeqProperties, i + 1 \in Int, j \in Int, \A n \in i + 1..j : x[n] \in C
  <2>2. CASE i + 1 <= j
    <3>1. Len(s) = j - i /\ Len(s) + i <= Len(x)
      BY <1>0, <2>1, <2>2
    <3>2. \A n \in 1..Len(s) : x[i + n] = s[n]
      <4> SUFFICES ASSUME NEW n \in 1..Len(s) PROVE x[i + n] = s[n]
        OBVIOUS
      <4>1. n \in 1..j - (i + 1) + 1 /\ (i + 1) + n - 1 = i + n
        BY <1>0, <2>2, <3>1
      <4> QED
        BY <2>1, <4>1
    <3> QED
      BY <3>1, <3>2 DEF Stands
  <2>3. CASE ~(i + 1 <= j)
    <3>1. Len(s) + i <= Len(x) /\ \A n \in 1..Len(s) : FALSE
      BY <1>0, <2>1, <2>3
    <3> QED
      BY <3>1 DEF Stands
  <2> QED
    BY <2>2, <2>3
<1>2. ASSUME NEW k \in 0..Len(x), Stands(s, x, k) PROVE s \in SubSeqs(x)
  <2> DEFINE j == k + Len(s)
  <2>1. j \in 0..Len(x)
    BY <1>0, <1>2 DEF Stands
  <2>2. /\ SubSeq(x, k + 1, j) \in Seq(C)
        /\ Len(SubSeq(x, k + 1, j)) = IF k + 1 <= j THEN j - (k + 1) + 1 ELSE 0
        /\ \A n \in 1..j - (k + 1) + 1 : SubSeq(x, k + 1, j)[n] = x[(k + 1) + n - 1]
    BY <1>0, <2>1, SubSeqProperties, k + 1 \in Int, j \in Int, \A n \in k + 1..j : x[n] \in C
  <2>3. Len(SubSeq(x, k + 1, j)) = Len(s)
    BY <1>0, <2>2
  <2>4. \A n \in 1..Len(s) : SubSeq(x, k + 1, j)[n] = s[n]
    BY <1>0, <1>2, <2>2 DEF Stands
  <2>5. SubSeq(x, k + 1, j) = s
    BY <2>2, <2>3, <2>4, SeqEqual
  <2> QED
    BY <2>1, <2>5 DEF SubSeqs
<1>3. s \in SubSeqs(x) <=> \E i, j \in 0..Len(x) : s = SubSeq(x, i + 1, j)
  BY DEF SubSeqs
<1> QED
  BY <1>1, <1>2, <1>3, Zenon

-----------------------------------------------------------------------------
\* The windows and the range.

\* What is left of a length in 32 bits is not more than the length.
LEMMA WordBounds ==
  ASSUME NEW n \in Nat, NEW m \in Nat, m > 0
  PROVE  n % m \in 0 .. m - 1 /\ n % m <= n /\ (n < m => n % m = n)
  BY SMT

\* The kprobes never take a window from outside of the write; that of vfs_write sees the
\* start of every write and the end exactly of those whose length fits the word, that of
\* vfs_writev the start exactly of those that fill the window: WindowsAreEnds, whatever
\* PAYLOAD_HALF and the width of the word.
THEOREM WindowsHold == \A count \in Nat \ {0} : WindowsAreEnds(count)
<1> SUFFICES ASSUME NEW count \in Nat, count > 0 PROVE WindowsAreEnds(count)
  OBVIOUS
<1> DEFINE h == Least(count, Half)
<1>1. h \in Nat /\ h <= count /\ h <= Half /\ (count > Half => h = Half) /\ (count <= Half => h = count)
  BY WindowsAssumption DEF Least
<1>2. h % (2 * Half) = h
  BY <1>1, WindowsAssumption, WordBounds, 2 * Half \in Nat, 2 * Half > 0, h < 2 * Half
<1>3. HeadWindow(count) = 0 .. h - 1
  BY <1>2 DEF HeadWindow
<1> DEFINE tc == count % U32
<1>4. tc \in Nat /\ tc <= count /\ (count < U32 => tc = count)
  BY WindowsAssumption, WordBounds, U32 > 0
<1>5. TailWindow(count) = IF tc > Half THEN tc - Half .. tc - 1 ELSE {}
  BY DEF TailWindow
<1>6. SegmentWindow(count) \subseteq 0 .. count - 1
  BY WindowsAssumption DEF SegmentWindow
<1> HIDE DEF h, tc
<1>7. HeadWindow(count) \cup TailWindow(count) \subseteq 0 .. count - 1
  BY <1>1, <1>3, <1>4, <1>5, WindowsAssumption
<1>s. Start(count) = 0 .. h - 1
  BY DEF Start, h
<1>8. Start(count) \subseteq HeadWindow(count) \cup TailWindow(count)
  BY <1>3, <1>s
<1>9. ASSUME count < U32 PROVE End(count) \subseteq HeadWindow(count) \cup TailWindow(count)
  BY <1>4, <1>5, <1>9 DEF End
<1>10. ASSUME ~(count < U32) PROVE ~(End(count) \subseteq HeadWindow(count) \cup TailWindow(count))
  <2>1. tc < U32
    BY WindowsAssumption, WordBounds, U32 > 0 DEF tc
  <2>2. count > Half /\ Half <= count - 1 /\ tc - 1 < count - 1
    BY <1>4, <1>10, <2>1, WindowsAssumption
  <2>3. count - 1 \in End(count)
    BY <2>2, WindowsAssumption DEF End
  <2>4. count - 1 \notin HeadWindow(count)
    BY <1>1, <1>3, <2>2, WindowsAssumption
  <2>5. count - 1 \notin TailWindow(count)
    BY <1>4, <1>5, <2>2, WindowsAssumption
  <2> QED
    BY <2>3, <2>4, <2>5
<1>11. ASSUME count >= Half PROVE Start(count) \subseteq SegmentWindow(count)
  BY <1>1, <1>11, <1>s, WindowsAssumption DEF SegmentWindow
<1>12. ASSUME ~(count >= Half) PROVE ~(Start(count) \subseteq SegmentWindow(count))
  <2>1. 0 \in Start(count) /\ SegmentWindow(count) = {}
    BY <1>1, <1>12, <1>s, WindowsAssumption DEF SegmentWindow
  <2> QED
    BY <2>1
<1> QED
  BY <1>6, <1>7, <1>8, <1>9, <1>10, <1>11, <1>12 DEF WindowsAreEnds

\* Whatever an event claims, the analyzer's slice lies in the file and in the write,
\* and it is what was written of a write that has landed: RereadIsWrite, for every
\* file, position and length whose end is a number of 64 bits.
THEOREM RereadHolds ==
  \A call \in {"write", "writev"}, pos \in Int, count \in Nat \ {0}, len \in Nat :
    len < U64 => RereadIsWrite(call, pos, count, len)
<1> SUFFICES ASSUME NEW call \in {"write", "writev"}, NEW pos \in Int,
                    NEW count \in Nat, count > 0, NEW len \in Nat, len < U64
             PROVE  RereadIsWrite(call, pos, count, len)
  OBVIOUS
<1> DEFINE offset == IF call = "writev" THEN WritevOffset(pos) ELSE WriteOffset(pos)
           e == Least(Least(offset + Least(count, MaxScan), U64 - 1), len)
           s == Least(offset, len)
<1>1. U64 \in Nat /\ U64 > 0
  BY WindowsAssumption
<1>2. pos % U64 \in 0 .. U64 - 1
  BY <1>1
<1>3. offset \in Nat /\ (0 <= pos /\ pos < U64 => offset = pos)
  <2>1. CASE call = "write"
    BY <2>1 DEF WriteOffset
  <2>2. CASE call = "writev"
    <3>1. 0 <= pos /\ pos < U64 => pos % U64 = pos
      BY <1>1, WordBounds
    <3> QED
      BY <2>2, <1>1, <1>2, <3>1 DEF WritevOffset
  <2> QED
    BY <2>1, <2>2
<1>4. s \in Nat /\ e \in Nat /\ s <= len /\ e <= len /\ (s < e => s = offset)
       /\ e <= offset + count
  BY <1>1, <1>3, WindowsAssumption DEF Least
<1>5. offset + count <= len => s = offset /\ e = offset + Least(count, MaxScan)
  BY <1>1, <1>3, WindowsAssumption DEF Least
<1>6. Scanned(offset, count, len) = IF s >= e THEN {} ELSE s .. e - 1
  BY DEF Scanned, FileSlice
<1>7. Least(count, MaxScan) \in Nat /\ Least(count, MaxScan) > 0
  BY WindowsAssumption DEF Least
<1> HIDE DEF offset, s, e
<1>8. Scanned(offset, count, len) \subseteq (0 .. len - 1) \cap (offset .. offset + count - 1)
  BY <1>3, <1>4, <1>6
<1>9. ASSUME pos >= 0, pos + count <= len
      PROVE  Scanned(offset, count, len) = pos .. pos + Least(count, MaxScan) - 1
  BY <1>3, <1>5, <1>6, <1>7, <1>9, <1>1
<1> USE DEF offset
<1> QED
  BY <1>8, <1>9 DEF RereadIsWrite

-----------------------------------------------------------------------------
\* The prefixes.

NextBorder(text, b) == Min({e \in Borders(text) : e > b})

\* Behind every border but the last there is a next one.
LEMMA BordersAre ==
  ASSUME NEW C, NEW text \in Seq(C)
  PROVE  /\ Len(text) \in Nat /\ DOMAIN text = 1..Len(text)
         /\ Borders(text) \subseteq 0..Len(text) + 1
         /\ 0 \in Borders(text) /\ Len(text) + 1 \in Borders(text)
         /\ \A i \in 1..Len(text) : i \in Borders(text) <=> text[i] = Comma
<1>1. Len(text) \in Nat /\ DOMAIN text = 1..Len(text)
  OBVIOUS
<1>2. ASSUME NEW i PROVE i \in Borders(text) <=> i = 0 \/ i = Len(text) + 1 \/ (i \in 1..Len(text) /\ text[i] = Comma)
  BY <1>1 DEF Borders
<1> QED
  BY <1>1, <1>2

LEMMA NextBorderIs ==
  ASSUME NEW C, NEW text \in Seq(C), NEW b \in Fields(text)
  PROVE  /\ b \in 0..Len(text)
         /\ NextBorder(text, b) \in Borders(text) /\ NextBorder(text, b) \in b + 1 .. Len(text) + 1
         /\ \A e \in Borders(text) : e > b => NextBorder(text, b) <= e
<1>1. Len(text) \in Nat /\ Borders(text) \subseteq 0..Len(text) + 1 /\ Len(text) + 1 \in Borders(text)
  BY BordersAre
<1>2. b \in 0..Len(text)
  BY <1>1 DEF Fields
<1> DEFINE later == {e \in Borders(text) : e > b}
<1>3. later \in SUBSET Nat /\ Len(text) + 1 \in later
  <2>1. \A e \in later : e \in Nat
    BY <1>1
  <2> QED
    BY <1>1, <1>2, <2>1
<1>4. Min(later) \in later /\ \A e \in later : Min(later) <= e
  BY <1>3, MinIsLeast
<1> QED
  BY <1>1, <1>2, <1>4 DEF NextBorder

\* What strtok_r finds is a name,
LEMMA TokenIsName ==
  ASSUME NEW C, NEW text \in Seq(C), NEW b \in Tokens(text)
  PROVE  \E j \in DOMAIN text :
           /\ b \in Nat /\ b + 1 \in DOMAIN text /\ Name(text, b + 1, j)
           /\ Field(text, b) = SubSeq(text, b + 1, j)
<1>0. /\ Len(text) \in Nat /\ DOMAIN text = 1..Len(text)
      /\ 0 \in Borders(text) /\ Len(text) + 1 \in Borders(text)
      /\ \A i \in 1..Len(text) : i \in Borders(text) <=> text[i] = Comma
  BY BordersAre
<1>1. b \in Fields(text) /\ b \in Borders(text) /\ b + 1 \notin Borders(text)
  BY DEF Tokens, Fields
<1> DEFINE e == NextBorder(text, b)
<1>2. b \in 0..Len(text) /\ e \in Borders(text) /\ e \in b + 1 .. Len(text) + 1
      /\ \A d \in Borders(text) : d > b => e <= d
  BY <1>1, NextBorderIs
<1>3. Field(text, b) = SubSeq(text, b + 1, e - 1)
  BY DEF Field, NextBorder
<1> HIDE DEF e
<1>4. e # b + 1 /\ e - 1 \in DOMAIN text /\ b + 1 \in DOMAIN text /\ b + 1 <= e - 1
  BY <1>0, <1>1, <1>2
<1>5. \A k \in b + 1 .. e - 1 : text[k] # Comma
  <2> SUFFICES ASSUME NEW k \in b + 1 .. e - 1, text[k] = Comma PROVE FALSE
    OBVIOUS
  <2>1. k \in 1..Len(text) /\ k > b /\ ~ (e <= k)
    BY <1>0, <1>2
  <2>2. k \in Borders(text)
    BY <1>0, <2>1
  <2> QED
    BY <1>2, <2>1, <2>2
<1>6. b + 1 = 1 \/ text[(b + 1) - 1] = Comma
  <2>1. b = 0 \/ b \in 1..Len(text)
    BY <1>0, <1>2
  <2>2. b \in 1..Len(text) => text[b] = Comma /\ (b + 1) - 1 = b
    BY <1>0, <1>1
  <2> QED
    BY <2>1, <2>2
<1>7. e - 1 = Len(text) \/ text[(e - 1) + 1] = Comma
  <2>1. e = Len(text) + 1 \/ e \in 1..Len(text)
    BY <1>0, <1>2
  <2>2. e \in 1..Len(text) => text[e] = Comma /\ (e - 1) + 1 = e
    BY <1>0, <1>2
  <2> QED
    BY <1>0, <2>1, <2>2
<1>8. Name(text, b + 1, e - 1)
  BY <1>4, <1>5, <1>6, <1>7 DEF Name
<1> QED
  BY <1>2, <1>3, <1>4, <1>8

\* and it finds all names.
LEMMA NameIsToken ==
  ASSUME NEW C, NEW text \in Seq(C), NEW i \in DOMAIN text, NEW j \in DOMAIN text, Name(text, i, j)
  PROVE  i - 1 \in Tokens(text) /\ Field(text, i - 1) = SubSeq(text, i, j)
<1>0. /\ Len(text) \in Nat /\ i \in 1..Len(text) /\ j \in 1..Len(text)
      /\ 0 \in Borders(text) /\ Len(text) + 1 \in Borders(text)
      /\ \A k \in 1..Len(text) : k \in Borders(text) <=> text[k] = Comma
  BY BordersAre
<1>b. /\ i <= j /\ \A k \in i..j : text[k] # Comma
      /\ i = 1 \/ text[i - 1] = Comma
      /\ j = Len(text) \/ text[j + 1] = Comma
  BY DEF Name
<1>1. i - 1 \in Borders(text) /\ i - 1 \in 0..Len(text)
  <2>1. i - 1 \in 0..Len(text) /\ (i = 1 => i - 1 = 0) /\ (i # 1 => i - 1 \in 1..Len(text))
    BY <1>0
  <2>2. CASE i = 1
    BY <1>0, <2>1, <2>2
  <2>3. CASE i # 1
    <3>1. text[i - 1] = Comma
      BY <1>b, <2>3
    <3> QED
      BY <1>0, <2>1, <2>3, <3>1
  <2> QED
    BY <2>2, <2>3
<1>2. j + 1 \in Borders(text)
  <2>1. j = Len(text) \/ j + 1 \in 1..Len(text)
    BY <1>0
  <2> QED
    BY <1>0, <1>b, <2>1
<1>3. \A k \in i..j : k \notin Borders(text)
  <2> SUFFICES ASSUME NEW k \in i..j PROVE k \notin Borders(text)
    OBVIOUS
  <2>1. k \in 1..Len(text)
    BY <1>0
  <2>2. text[k] # Comma
    BY <1>b
  <2> QED
    BY <1>0, <2>1, <2>2
<1>4. i - 1 \in Fields(text) /\ (i - 1) + 1 = i
  BY <1>0, <1>1 DEF Fields
<1>5. i - 1 \in Tokens(text)
  <2>1. i \in i..j
    BY <1>0, <1>b
  <2> QED
    BY <1>3, <1>4, <2>1 DEF Tokens
<1> DEFINE e == NextBorder(text, i - 1)
<1>6. e \in Borders(text) /\ e \in (i - 1) + 1 .. Len(text) + 1
      /\ \A d \in Borders(text) : d > i - 1 => e <= d
  BY <1>4, NextBorderIs
<1>7. Field(text, i - 1) = SubSeq(text, (i - 1) + 1, e - 1)
  BY DEF Field, NextBorder
<1> HIDE DEF e
<1>8. e = j + 1
  <2>1. e <= j + 1
    <3>1. j + 1 > i - 1
      BY <1>0, <1>b
    <3> QED
      BY <1>2, <1>6, <3>1
  <2>2. e \notin i..j
    BY <1>3, <1>6
  <2> QED
    BY <1>0, <1>6, <2>1, <2>2
<1>9. (j + 1) - 1 = j
  BY <1>0
<1> QED
  BY <1>4, <1>5, <1>7, <1>8, <1>9

LEMMA NamesAreTokens ==
  ASSUME NEW C, NEW text \in Seq(C)
  PROVE  Names(text) = {Field(text, b) : b \in Tokens(text)}
<1>1. ASSUME NEW w \in Names(text) PROVE \E b \in Tokens(text) : w = Field(text, b)
  <2>1. PICK p \in (DOMAIN text) \X (DOMAIN text) : Name(text, p[1], p[2]) /\ w = SubSeq(text, p[1], p[2])
    BY DEF Names
  <2>2. p[1] \in DOMAIN text /\ p[2] \in DOMAIN text
    OBVIOUS
  <2> QED
    BY <2>1, <2>2, NameIsToken
<1>2. ASSUME NEW b \in Tokens(text) PROVE Field(text, b) \in Names(text)
  <2>1. PICK j \in DOMAIN text : b + 1 \in DOMAIN text /\ Name(text, b + 1, j)
                                  /\ Field(text, b) = SubSeq(text, b + 1, j)
    BY TokenIsName
  <2> DEFINE p == <<b + 1, j>>
  <2>2. p \in (DOMAIN text) \X (DOMAIN text) /\ p[1] = b + 1 /\ p[2] = j
    BY <2>1
  <2> HIDE DEF p
  <2> QED
    BY <2>1, <2>2 DEF Names
<1> QED
  BY <1>1, <1>2

\* The first tokens are all of them if there are few, and some if there are any.
LEMMA FirstTokens ==
  ASSUME NEW C, NEW text \in Seq(C)
  PROVE  LET first == {b \in Tokens(text) :
                         Cardinality({c \in Tokens(text) : c < b}) < MaxPrefixes} IN
         /\ first = {} <=> Tokens(text) = {}
         /\ Cardinality(Tokens(text)) <= MaxPrefixes => first = Tokens(text)
<1> DEFINE T == Tokens(text)
           before(b) == {c \in T : c < b}
<1>0. Len(text) \in Nat /\ T \subseteq 0..Len(text) /\ IsFiniteSet(T)
  <2>1. Len(text) \in Nat
    OBVIOUS
  <2>2. T \subseteq 0..Len(text)
    <3>1. \A b \in Borders(text) : b # Len(text) + 1 => b \in 0..Len(text)
      BY BordersAre
    <3> QED
      BY <3>1 DEF Tokens, Fields
  <2>3. IsFiniteSet(0..Len(text))
    BY <2>1, FS_Interval
  <2> QED
    BY <2>1, <2>2, <2>3, FS_Subset
<1> HIDE DEF T
<1>1. ASSUME T # {} PROVE \E b \in T : Cardinality(before(b)) < MaxPrefixes
  <2>1. T \in SUBSET Nat
    BY <1>0
  <2>2. Min(T) \in T /\ before(Min(T)) = {}
    <3>1. Min(T) \in T /\ \A x \in T : Min(T) <= x
      BY <1>1, <2>1, MinIsLeast
    <3>2. Min(T) \in Nat /\ \A x \in T : x \in Nat
      BY <2>1, <3>1
    <3>3. \A x \in T : ~ (x < Min(T))
      BY <3>1, <3>2
    <3> QED
      BY <3>1, <3>3
  <2>3. 0 < MaxPrefixes
    BY WatchAssumption
  <2> QED
    BY <2>2, <2>3, FS_EmptySet
<1>2. ASSUME Cardinality(T) <= MaxPrefixes, NEW b \in T PROVE Cardinality(before(b)) < MaxPrefixes
  <2>1. before(b) \in SUBSET T /\ b \notin before(b)
    BY <1>0
  <2>2. Cardinality(before(b)) <= Cardinality(T) /\ (Cardinality(T) = Cardinality(before(b)) => T = before(b))
        /\ IsFiniteSet(before(b))
    <3> HIDE DEF before
    <3> QED
      BY <1>0, <2>1, FS_Subset
  <2>3. Cardinality(before(b)) \in Nat /\ Cardinality(T) \in Nat
    BY <1>0, <2>2, FS_CardinalityType
  <2>4. Cardinality(before(b)) # Cardinality(T)
    BY <2>1, <2>2
  <2> QED
    BY <1>2, <2>2, <2>3, <2>4, WatchAssumption
<1> QED
  BY <1>1, <1>2 DEF T

\* A list that fits the buffer is not cut, and none of its names is.
LEMMA WatchedOfFitting ==
  ASSUME NEW C, NEW arg \in Seq(C), Len(arg) < BufferSize
  PROVE  LET first == {b \in Tokens(arg) :
                         Cardinality({c \in Tokens(arg) : c < b}) < MaxPrefixes}
         IN Watched(arg) = IF first = {} THEN {Default} ELSE {Field(arg, b) : b \in first}
<1>0. Len(arg) \in Nat /\ BufferSize \in Nat /\ NameSize \in Nat /\ BufferSize <= NameSize
  BY WatchAssumption
<1>1. Cut(arg, BufferSize - 1) = arg
  <2>1. Cut(arg, BufferSize - 1) = SubSeq(arg, 1, Len(arg))
    BY <1>0 DEF Cut
  <2> QED
    BY <2>1, SubSeqFull
<1>2. ASSUME NEW b \in Tokens(arg) PROVE Cut(Field(arg, b), NameSize - 1) = Field(arg, b)
  <2>1. PICK j \in DOMAIN arg : b + 1 \in DOMAIN arg /\ b \in Nat /\ Name(arg, b + 1, j)
                                 /\ Field(arg, b) = SubSeq(arg, b + 1, j)
    BY TokenIsName
  <2>2. b + 1 \in 1..Len(arg) /\ j \in 1..Len(arg)
    BY <2>1
  <2>3. /\ Field(arg, b) \in Seq(C)
        /\ Len(Field(arg, b)) = IF b + 1 <= j THEN j - (b + 1) + 1 ELSE 0
    <3>1. \A n \in b + 1 .. j : arg[n] \in C
      BY <1>0, <2>2
    <3> QED
      BY <2>1, <2>2, <3>1, SubSeqProperties
  <2>4. Len(Field(arg, b)) \in Nat /\ Len(Field(arg, b)) <= NameSize - 1
    BY <1>0, <2>1, <2>2, <2>3
  <2>5. Cut(Field(arg, b), NameSize - 1) = SubSeq(Field(arg, b), 1, Len(Field(arg, b)))
    BY <1>0, <2>4 DEF Cut
  <2> QED
    BY <2>3, <2>5, SubSeqFull
<1> DEFINE first == {b \in Tokens(arg) : Cardinality({c \in Tokens(arg) : c < b}) < MaxPrefixes}
<1>3. Watched(arg) = IF first = {} THEN {Default} ELSE {Cut(Field(arg, b), NameSize - 1) : b \in first}
  BY <1>1 DEF Watched
<1>4. \A b \in first : b \in Tokens(arg)
  OBVIOUS
<1> HIDE DEF first
<1>5. {Cut(Field(arg, b), NameSize - 1) : b \in first} = {Field(arg, b) : b \in first}
  BY <1>2, <1>4
<1> USE DEF first
<1> QED
  BY <1>3, <1>5

\* What begins with a text contains it, whatever stands before.
LEMMA PrefixWithin ==
  ASSUME NEW C, NEW w \in Seq(C), NEW name \in Seq(C), NEW dir \in Seq(C), IsPrefix(w, name)
  PROVE  w \in SubSeqs(dir \o name)
<1>0. Len(w) \in Nat /\ Len(name) \in Nat /\ Len(dir) \in Nat /\ Len(w) <= Len(name)
  BY DEF IsPrefix
<1>1. w = SubSeq(name, 1, Len(w))
  BY SubSeqFull DEF IsPrefix
<1>2. \A i \in 1..Len(w) : w[i] = name[i]
  <2>1. \A n \in 1..Len(w) : name[n] \in C
    BY <1>0
  <2>2. \A i \in 1 .. Len(w) - 1 + 1 : SubSeq(name, 1, Len(w))[i] = name[1 + i - 1]
    BY <1>0, <2>1, SubSeqProperties
  <2> QED
    BY <1>0, <1>1, <2>2
<1>3. /\ dir \o name \in Seq(C) /\ Len(dir \o name) = Len(dir) + Len(name)
      /\ \A i \in 1 .. Len(dir) + Len(name) :
           (dir \o name)[i] = IF i <= Len(dir) THEN dir[i] ELSE name[i - Len(dir)]
  BY ConcatProperties
<1>4. \A i \in 1..Len(w) : (dir \o name)[Len(dir) + i] = w[i]
  BY <1>0, <1>2, <1>3
<1>5. Len(dir) \in 0..Len(dir \o name) /\ Len(w) + Len(dir) <= Len(dir \o name)
  BY <1>0, <1>3
<1> QED
  BY <1>0, <1>3, <1>4, <1>5, WithinAt DEF Stands

\* Of every --memwrite-prefix that fits the buffer, whatever characters it is made of,
\* exactly the files asked for are watched by the kprobe, and the analyzer, which splits
\* the argument in its own way, re-reads them: WatchedAsAsked.
THEOREM StoresHold ==
  ASSUME NEW C, NEW arg \in Seq(C), NEW names \in SUBSET Seq(C), NEW dirs \in SUBSET Seq(C)
  PROVE  WatchedAsAsked(arg, names, dirs)
<1> DEFINE first == {b \in Tokens(arg) : Cardinality({c \in Tokens(arg) : c < b}) < MaxPrefixes}
           wanted == IF Names(arg) = {} THEN {Default} ELSE Names(arg)
<1> SUFFICES ASSUME Len(arg) < BufferSize
             PROVE  /\ \A name \in names : match_prefix(Watched(arg), name)
                         => \E w \in wanted : IsPrefix(w, name)
                    /\ Cardinality(Tokens(arg)) <= MaxPrefixes =>
                         \A name \in names : (\E w \in wanted : IsPrefix(w, name))
                           => match_prefix(Watched(arg), name)
                    /\ Names(arg) # {} => \A name \in names, dir \in dirs :
                         match_prefix(Watched(arg), name) => Rereads(arg, dir \o name)
  BY Zenon DEF WatchedAsAsked
<1>1. Watched(arg) = IF first = {} THEN {Default} ELSE {Field(arg, b) : b \in first}
  BY WatchedOfFitting
<1>2. first = {} <=> Tokens(arg) = {}
  BY FirstTokens
<1>3. Cardinality(Tokens(arg)) <= MaxPrefixes => first = Tokens(arg)
  BY FirstTokens
<1>4. first \subseteq Tokens(arg)
  OBVIOUS
<1> HIDE DEF first
<1>5. Names(arg) = {Field(arg, b) : b \in Tokens(arg)}
  BY NamesAreTokens
<1>6. Watched(arg) \subseteq wanted
  BY <1>1, <1>2, <1>4, <1>5
<1>7. Cardinality(Tokens(arg)) <= MaxPrefixes => Watched(arg) = wanted
  BY <1>1, <1>2, <1>3, <1>5
<1> HIDE DEF wanted
<1>8. ASSUME Names(arg) # {}, NEW name \in names, NEW dir \in dirs, match_prefix(Watched(arg), name)
      PROVE  Rereads(arg, dir \o name)
  <2>1. PICK b \in Tokens(arg) : IsPrefix(Field(arg, b), name)
    BY <1>1, <1>2, <1>4, <1>5, <1>8 DEF match_prefix
  <2>2. Field(arg, b) \in Seq(C)
    <3>1. PICK j \in DOMAIN arg : b \in Nat /\ b + 1 \in DOMAIN arg
                                   /\ Field(arg, b) = SubSeq(arg, b + 1, j)
      BY TokenIsName
    <3>2. \A n \in b + 1 .. j : arg[n] \in C
      BY <3>1
    <3> QED
      BY <3>1, <3>2, SubSeqProperties
  <2>3. Field(arg, b) \in SubSeqs(dir \o name)
    BY <2>1, <2>2, PrefixWithin
  <2>4. b \in Fields(arg)
    BY DEF Tokens
  <2> QED
    BY <2>3, <2>4 DEF Rereads
<1> QED
  BY <1>6, <1>7, <1>8 DEF match_prefix
-----------------------------------------------------------------------------
\* The rules.

LEMMA LowerIs ==
  ASSUME NEW C, "s" \in C, NEW text \in Seq(C)
  PROVE  /\ lower(text) \in Seq(C) /\ Len(lower(text)) = Len(text)
         /\ \A i \in 1..Len(text) : lower(text)[i] = IF text[i] = "S" THEN "s" ELSE text[i]
<1>1. Len(text) \in Nat /\ DOMAIN text = 1..Len(text) /\ \A i \in 1..Len(text) : text[i] \in C
  OBVIOUS
<1>2. lower(text) = [i \in 1..Len(text) |-> IF text[i] = "S" THEN "s" ELSE text[i]]
  BY <1>1 DEF lower
<1> QED
  BY <1>1, <1>2

\* A trimmed line begins and ends with ink, and is empty when there is none.
LEMMA TrimIs ==
  ASSUME NEW C, NEW line \in Seq(C)
  PROVE  /\ trim(line) \in Seq(C)
         /\ trim(line) = <<>> => \A i \in 1..Len(line) : line[i] = Blank
         /\ trim(line) # <<>> =>
              /\ Len(trim(line)) \in Nat \ {0}
              /\ trim(line)[1] # Blank /\ trim(line)[Len(trim(line))] # Blank
<1> DEFINE ink == {i \in DOMAIN line : line[i] # Blank}
<1>1. Len(line) \in Nat /\ DOMAIN line = 1..Len(line) /\ \A i \in 1..Len(line) : line[i] \in C
  OBVIOUS
<1>2. ink \in SUBSET Nat /\ ink \in SUBSET (0..Len(line)) /\ ink \subseteq 1..Len(line)
  BY <1>1
<1>3. \A i \in ink : line[i] # Blank
  OBVIOUS
<1>4. ink = {} => \A i \in 1..Len(line) : line[i] = Blank
  BY <1>1
<1>5. trim(line) = IF ink = {} THEN <<>> ELSE SubSeq(line, Min(ink), Max(ink))
  BY DEF trim
<1> HIDE DEF ink
<1>6. CASE ink = {}
  BY <1>4, <1>5, <1>6
<1>7. CASE ink # {}
  <2>1. Min(ink) \in ink /\ \A x \in ink : Min(ink) <= x
    BY <1>2, <1>7, MinIsLeast
  <2>2. Max(ink) \in ink
    BY <1>1, <1>2, <1>7, MaxIsGreatest
  <2> DEFINE a == Min(ink)
             b == Max(ink)
             t == SubSeq(line, a, b)
  <2>3. a \in 1..Len(line) /\ b \in 1..Len(line) /\ a <= b /\ line[a] # Blank /\ line[b] # Blank
    BY <1>2, <1>3, <2>1, <2>2
  <2>4. trim(line) = t
    BY <1>5, <1>7
  <2> HIDE DEF a, b
  <2>5. \A n \in a..b : line[n] \in C
    BY <1>1, <2>3
  <2>6. /\ t \in Seq(C) /\ Len(t) = IF a <= b THEN b - a + 1 ELSE 0
        /\ \A i \in 1 .. b - a + 1 : t[i] = line[a + i - 1]
    BY <2>3, <2>5, SubSeqProperties
  <2> HIDE DEF t
  <2>7. Len(t) = b - a + 1 /\ Len(t) \in Nat \ {0}
    BY <2>3, <2>6
  <2>8. 1 \in 1 .. b - a + 1 /\ a + 1 - 1 = a /\ Len(t) \in 1 .. b - a + 1 /\ a + Len(t) - 1 = b
    BY <2>3, <2>7
  <2>9. t[1] = line[a] /\ t[Len(t)] = line[b]
    BY <2>6, <2>8
  <2>10. t # <<>>
    BY <2>7
  <2> QED
    BY <2>3, <2>4, <2>6, <2>7, <2>9, <2>10
<1> QED
  BY <1>6, <1>7

\* To trim twice is to trim once.
LEMMA TrimAgain ==
  ASSUME NEW C, NEW line \in Seq(C)
  PROVE  trim(trim(line)) = trim(line)
<1> DEFINE t == trim(line)
           ink == {i \in DOMAIN t : t[i] # Blank}
<1>1. t \in Seq(C) /\ (t # <<>> => Len(t) \in Nat \ {0} /\ t[1] # Blank /\ t[Len(t)] # Blank)
  BY TrimIs
<1>2. trim(t) = IF ink = {} THEN <<>> ELSE SubSeq(t, Min(ink), Max(ink))
  BY DEF trim
<1> HIDE DEF t
<1>3. CASE t = <<>>
  <2>1. ink = {}
    BY <1>3
  <2> QED
    BY <1>2, <1>3, <2>1 DEF t
<1>4. CASE t # <<>>
  <2>1. Len(t) \in Nat \ {0} /\ DOMAIN t = 1..Len(t)
    BY <1>1, <1>4
  <2>2. 1 \in ink /\ Len(t) \in ink
    BY <1>1, <1>4, <2>1
  <2>3. ink \in SUBSET Nat /\ ink \in SUBSET (0..Len(t)) /\ ink \subseteq 1..Len(t)
    BY <2>1
  <2> HIDE DEF ink
  <2>4. Min(ink) \in ink /\ \A x \in ink : Min(ink) <= x
    BY <2>2, <2>3, MinIsLeast
  <2>5. Max(ink) \in ink /\ \A x \in ink : x <= Max(ink)
    BY <2>1, <2>2, <2>3, MaxIsGreatest
  <2>6. Min(ink) \in 1..Len(t) /\ Min(ink) <= 1 /\ Max(ink) \in 1..Len(t) /\ Len(t) <= Max(ink)
    BY <2>2, <2>3, <2>4, <2>5
  <2>7. Min(ink) = 1 /\ Max(ink) = Len(t)
    BY <2>1, <2>6
  <2>8. trim(t) = SubSeq(t, 1, Len(t))
    BY <1>2, <2>2, <2>7
  <2> QED
    BY <1>1, <2>8, SubSeqFull DEF t
<1> QED
  BY <1>3, <1>4

\* The second cleaning changes nothing.
LEMMA CleanedAgain ==
  ASSUME NEW C, NEW file \in SUBSET Seq(C)
  PROVE  Cleaned(Cleaned(file)) = Cleaned(file)
<1>1. \A l \in file : trim(trim(l)) = trim(l)
  BY TrimAgain
<1>2. \A r \in Cleaned(file) : trim(r) = r /\ IsRule(r)
  BY <1>1 DEF Cleaned
<1>3. \A r : r \in Cleaned(Cleaned(file)) <=> \E l \in Cleaned(file) : r = trim(l) /\ IsRule(r)
  BY DEF Cleaned
<1> QED
  BY <1>2, <1>3

\* No rule is blank, the built-in ones included.
LEMMA RulesAre ==
  ASSUME NEW C, "t" \in C, NEW file \in SUBSET Seq(C)
  PROVE  /\ RulesOf(file) = IF Cleaned(file) # {} THEN Cleaned(file) ELSE Defaults
         /\ \A r \in RulesOf(file) : r \in Seq(C) /\ Len(r) \in Nat \ {0} /\ r[1] # Blank
<1>1. RulesOf(file) = IF Cleaned(file) # {} THEN Cleaned(file) ELSE Defaults
  BY CleanedAgain DEF RulesOf, with_rules
<1>2. ASSUME NEW r \in Cleaned(file) PROVE r \in Seq(C) /\ Len(r) \in Nat \ {0} /\ r[1] # Blank
  <2>1. PICK l \in file : r = trim(l) /\ r # <<>>
    BY DEF Cleaned, IsRule
  <2> QED
    BY <2>1, TrimIs
<1>3. "t" # Blank
  BY Zenon DEF Blank
<1>4. ASSUME NEW r \in Defaults PROVE r \in Seq(C) /\ Len(r) \in Nat \ {0} /\ r[1] # Blank
  <2>1. r = <<"t">>
    BY DEF Defaults
  <2>2. <<"t">> \in Seq(C) /\ Len(<<"t">>) = 1 /\ <<"t">>[1] = "t"
    OBVIOUS
  <2> QED
    BY <1>3, <2>1, <2>2
<1> QED
  BY <1>1, <1>2, <1>4

\* A rule is found in a text that holds it in its own letters, and in its lower-cased form.
LEMMA RuleFound ==
  ASSUME NEW C, "s" \in C, NEW r \in Seq(C), NEW p \in Seq(C)
  PROVE  /\ lower(r) \in SubSeqs(lower(r \o p))
         /\ lower(r) \in SubSeqs(lower(p \o r))
         /\ lower(r) \in SubSeqs(lower(lower(r)))
<1>0. Len(r) \in Nat /\ Len(p) \in Nat
  OBVIOUS
<1>1. /\ lower(r) \in Seq(C) /\ Len(lower(r)) = Len(r)
      /\ \A i \in 1..Len(r) : lower(r)[i] = IF r[i] = "S" THEN "s" ELSE r[i]
  BY LowerIs
<1>2. ASSUME NEW x \in Seq(C), NEW k \in 0..Len(x), Len(r) + k <= Len(x),
             \A i \in 1..Len(r) : lower(x)[k + i] = lower(r)[i]
      PROVE  lower(r) \in SubSeqs(lower(x))
  <2>1. lower(x) \in Seq(C) /\ Len(lower(x)) = Len(x)
    BY LowerIs
  <2>2. Stands(lower(r), lower(x), k) /\ k \in 0..Len(lower(x))
    BY <1>1, <1>2, <2>1 DEF Stands
  <2> QED
    BY <1>1, <2>1, <2>2, WithinAt
<1>3. lower(r) \in SubSeqs(lower(r \o p))
  <2>1. /\ r \o p \in Seq(C) /\ Len(r \o p) = Len(r) + Len(p)
        /\ \A i \in 1 .. Len(r) + Len(p) : (r \o p)[i] = IF i <= Len(r) THEN r[i] ELSE p[i - Len(r)]
    BY ConcatProperties
  <2>2. \A i \in 1..Len(r \o p) :
          lower(r \o p)[i] = IF (r \o p)[i] = "S" THEN "s" ELSE (r \o p)[i]
    BY <2>1, LowerIs
  <2>3. ASSUME NEW i \in 1..Len(r) PROVE lower(r \o p)[0 + i] = lower(r)[i]
    <3>1. 0 + i = i /\ i \in 1 .. Len(r) + Len(p) /\ i <= Len(r)
      BY <1>0
    <3>2. (r \o p)[i] = r[i]
      BY <2>1, <3>1
    <3> QED
      BY <1>1, <2>1, <2>2, <3>1, <3>2
  <2>4. 0 \in 0..Len(r \o p) /\ Len(r) + 0 <= Len(r \o p)
    BY <1>0, <2>1
  <2> QED
    BY <1>2, <2>1, <2>3, <2>4
<1>4. lower(r) \in SubSeqs(lower(p \o r))
  <2>1. /\ p \o r \in Seq(C) /\ Len(p \o r) = Len(p) + Len(r)
        /\ \A i \in 1 .. Len(p) + Len(r) : (p \o r)[i] = IF i <= Len(p) THEN p[i] ELSE r[i - Len(p)]
    BY ConcatProperties
  <2>2. \A i \in 1..Len(p \o r) :
          lower(p \o r)[i] = IF (p \o r)[i] = "S" THEN "s" ELSE (p \o r)[i]
    BY <2>1, LowerIs
  <2>3. ASSUME NEW i \in 1..Len(r) PROVE lower(p \o r)[Len(p) + i] = lower(r)[i]
    <3>1. Len(p) + i \in 1 .. Len(p) + Len(r) /\ ~ (Len(p) + i <= Len(p)) /\ (Len(p) + i) - Len(p) = i
      BY <1>0
    <3>2. (p \o r)[Len(p) + i] = r[i]
      BY <2>1, <3>1
    <3> QED
      BY <1>1, <2>1, <2>2, <3>1, <3>2
  <2>4. Len(p) \in 0..Len(p \o r) /\ Len(r) + Len(p) <= Len(p \o r)
    BY <1>0, <2>1
  <2> QED
    BY <1>2, <2>1, <2>3, <2>4
<1>5. lower(r) \in SubSeqs(lower(lower(r)))
  <2>1. \A i \in 1..Len(lower(r)) :
          lower(lower(r))[i] = IF lower(r)[i] = "S" THEN "s" ELSE lower(r)[i]
    BY <1>1, LowerIs
  <2>2. \A i \in 1..Len(r) : lower(lower(r))[0 + i] = lower(r)[i]
    BY <1>0, <1>1, <2>1
  <2>3. 0 \in 0..Len(lower(r)) /\ Len(r) + 0 <= Len(lower(r))
    BY <1>0, <1>1
  <2> QED
    BY <1>1, <1>2, <2>2, <2>3
<1> QED
  BY <1>3, <1>4, <1>5

\* Nothing but blanks holds no rule.
LEMMA BlankIsClean ==
  ASSUME NEW C, "s" \in C, NEW r \in Seq(C), Len(r) \in Nat \ {0}, r[1] # Blank,
         NEW p \in Seq(C), \A i \in 1..Len(p) : p[i] = Blank
  PROVE  lower(r) \notin SubSeqs(lower(p))
<1> SUFFICES ASSUME lower(r) \in SubSeqs(lower(p)) PROVE FALSE
  OBVIOUS
<1>1. /\ lower(r) \in Seq(C) /\ Len(lower(r)) = Len(r)
      /\ \A i \in 1..Len(r) : lower(r)[i] = IF r[i] = "S" THEN "s" ELSE r[i]
  BY LowerIs
<1>2. /\ lower(p) \in Seq(C) /\ Len(lower(p)) = Len(p) /\ Len(p) \in Nat
      /\ \A i \in 1..Len(p) : lower(p)[i] = IF p[i] = "S" THEN "s" ELSE p[i]
  BY LowerIs
<1>3. PICK k \in 0..Len(lower(p)) : Stands(lower(r), lower(p), k)
  BY <1>1, <1>2, WithinAt
<1>4. 1 \in 1..Len(r) /\ k + 1 \in 1..Len(p) /\ lower(p)[k + 1] = lower(r)[1]
  BY <1>1, <1>2, <1>3 DEF Stands
<1>5. "S" # Blank /\ "s" # Blank
  BY Zenon DEF Blank
<1>6. lower(p)[k + 1] = Blank
  BY <1>2, <1>4, <1>5
<1>7. lower(r)[1] # Blank
  BY <1>1, <1>4, <1>5
<1> QED
  BY <1>4, <1>6, <1>7

\* Less than a rule does not hold it.
LEMMA ShorterIsClean ==
  ASSUME NEW C, "s" \in C, NEW r \in Seq(C), NEW n \in 1..Len(r)
  PROVE  lower(r) \notin SubSeqs(lower(SubSeq(r, 1, n - 1)))
<1> DEFINE p == SubSeq(r, 1, n - 1)
<1>1. Len(r) \in Nat /\ n \in Nat /\ n <= Len(r) /\ \A i \in 1..Len(r) : r[i] \in C
  OBVIOUS
<1>2. p \in Seq(C) /\ Len(p) < Len(r) /\ Len(p) \in Nat
  BY <1>1, SubSeqProperties, n - 1 \in Int, \A i \in 1..n - 1 : r[i] \in C
<1> HIDE DEF p
<1>3. /\ lower(r) \in Seq(C) /\ Len(lower(r)) = Len(r)
      /\ lower(p) \in Seq(C) /\ Len(lower(p)) = Len(p)
  BY <1>2, LowerIs
<1>4. \A k \in 0..Len(lower(p)) : ~Stands(lower(r), lower(p), k)
  BY <1>1, <1>2, <1>3 DEF Stands
<1>5. lower(r) \notin SubSeqs(lower(p))
  BY <1>3, <1>4, WithinAt
<1> QED
  BY <1>5 DEF p

\* Of every file of rules, whatever it is made of, each line that is a rule is found in
\* any case and any context and not without a note behind it, no blank or commented line
\* flags anything, and the built-in rules are used exactly when none is left:
\* RulesAsWritten.
THEOREM RulesHold ==
  ASSUME NEW C, {"s", "t"} \subseteq C, NEW file \in SUBSET Seq(C), NEW payloads \in SUBSET Seq(C)
  PROVE  RulesAsWritten(file, payloads)
<1> DEFINE rules == {l \in file : IsRule(trim(l))}
<1>1. Cleaned(rules) = Cleaned(file) /\ rules \in SUBSET Seq(C)
  <2>1. \A r : r \in Cleaned(file) <=> \E l \in file : r = trim(l) /\ IsRule(r)
    BY DEF Cleaned
  <2>2. \A r : r \in Cleaned(rules) <=> \E l \in rules : r = trim(l) /\ IsRule(r)
    BY DEF Cleaned
  <2> QED
    BY <2>1, <2>2
<1>2. ASSUME NEW l \in rules, NEW p \in payloads
      PROVE  Flagged(trim(l) \o p, file) /\ Flagged(p \o trim(l), file) /\ Flagged(lower(trim(l)), file)
  <2>1. trim(l) \in Cleaned(file)
    BY DEF Cleaned
  <2>2. trim(l) \in RulesOf(file) /\ trim(l) \in Seq(C)
    BY <2>1, RulesAre
  <2> QED
    BY <2>2, RuleFound DEF Flagged, scan_windows
<1>3. ASSUME NEW p \in payloads, trim(p) = <<>> PROVE ~Flagged(p, file)
  <2>1. \A i \in 1..Len(p) : p[i] = Blank
    BY <1>3, TrimIs
  <2>2. \A r \in RulesOf(file) : r \in Seq(C) /\ Len(r) \in Nat \ {0} /\ r[1] # Blank
    BY RulesAre
  <2>3. \A r \in RulesOf(file) : lower(r) \notin SubSeqs(lower(p))
    BY <2>1, <2>2, BlankIsClean
  <2> QED
    BY <2>3 DEF Flagged, scan_windows
<1>n. ASSUME NEW l \in rules, NEW n \in 1..Len(trim(l))
      PROVE  ~Flagged(SubSeq(trim(l), 1, n - 1), {l})
  <2>1. l \in Seq(C) /\ IsRule(trim(l)) /\ trim(l) \in Seq(C)
    BY TrimIs
  <2>2. Cleaned({l}) = {trim(l)}
    BY <2>1 DEF Cleaned
  <2>3. RulesOf({l}) = {trim(l)}
    BY <2>1, <2>2, RulesAre, {l} \in SUBSET Seq(C)
  <2>4. lower(trim(l)) \notin SubSeqs(lower(SubSeq(trim(l), 1, n - 1)))
    BY <2>1, ShorterIsClean
  <2> QED
    BY <2>3, <2>4 DEF Flagged, scan_windows
<1>4. RulesOf(rules) = RulesOf(file)
  BY <1>1 DEF RulesOf, with_rules
<1> HIDE DEF rules
<1>5. \A p \in payloads : Flagged(p, file) <=> Flagged(p, rules)
  BY <1>4 DEF Flagged
<1> USE DEF rules
<1> QED
  BY <1>2, <1>n, <1>3, <1>5, Zenon DEF RulesAsWritten
-----------------------------------------------------------------------------
\* The log.

\* The queue is the end of the log without its repetitions.
HistoryKept ==
  /\ logged \in Seq(Messages) /\ diagnostics \in Seq(Messages)
  /\ Len(diagnostics) <= MaxLines /\ Len(diagnostics) <= Cardinality(Fresh(logged))
  /\ Len(diagnostics) \in {MaxLines, Cardinality(Fresh(logged))}
  /\ logged # <<>> => diagnostics # <<>> /\ diagnostics[Len(diagnostics)] = logged[Len(logged)]
  /\ \A k \in 1..Len(diagnostics) :
       \E i \in Fresh(logged) :
         After(Fresh(logged), i) = Len(diagnostics) - k /\ diagnostics[k] = logged[i]

\* The fresh lines are lines, and as many as a number says.
LEMMA FreshIsFinite ==
  ASSUME NEW lines \in Seq(Messages)
  PROVE  /\ Fresh(lines) \subseteq 1..Len(lines) /\ Len(lines) \in Nat
         /\ IsFiniteSet(Fresh(lines)) /\ Cardinality(Fresh(lines)) \in Nat
<1>1. Len(lines) \in Nat /\ Fresh(lines) \subseteq 1..Len(lines)
  BY DEF Fresh
<1>2. IsFiniteSet(1..Len(lines))
  BY <1>1, FS_Interval
<1>3. IsFiniteSet(Fresh(lines))
  BY <1>1, <1>2, FS_Subset
<1> QED
  BY <1>1, <1>3, FS_CardinalityType

\* A line more is fresh unless it repeats the last one, and no other becomes so.
LEMMA FreshGrows ==
  ASSUME NEW lines \in Seq(Messages), NEW line \in Messages
  PROVE  Fresh(Append(lines, line)) =
           Fresh(lines) \cup (IF lines # <<>> /\ lines[Len(lines)] = line THEN {} ELSE {Len(lines) + 1})
<1> DEFINE n == Len(lines)
           new == Append(lines, line)
<1>1. /\ n \in Nat /\ DOMAIN lines = 1..n /\ DOMAIN new = 1..(n + 1)
      /\ new[n + 1] = line /\ \A i \in 1..n : new[i] = lines[i]
  BY AppendProperties
<1>2. lines # <<>> <=> n > 0
  BY EmptySeq
<1> HIDE DEF n, new
<1>3. ASSUME NEW i \in 1..n PROVE i \in Fresh(new) <=> i \in Fresh(lines)
  <2>1. i \in DOMAIN lines /\ i \in DOMAIN new /\ new[i] = lines[i]
    BY <1>1
  <2>2. i # 1 => i - 1 \in 1..n
    BY <1>1
  <2>3. i # 1 => new[i - 1] = lines[i - 1]
    BY <1>1, <2>2
  <2> QED
    BY <2>1, <2>3 DEF Fresh
<1>4. n + 1 \in Fresh(new) <=> n = 0 \/ line # lines[n]
  <2>1. n + 1 \in DOMAIN new /\ (n + 1) - 1 = n /\ (n + 1 = 1 <=> n = 0)
    BY <1>1
  <2>2. n # 0 => new[n] = lines[n]
    BY <1>1
  <2> QED
    BY <1>1, <2>1, <2>2 DEF Fresh
<1>5. Fresh(new) \subseteq 1..(n + 1) /\ Fresh(lines) \subseteq 1..n
  BY <1>1 DEF Fresh
<1>6. ASSUME NEW i
      PROVE  i \in Fresh(new) <=>
               i \in Fresh(lines) \/ (i = n + 1 /\ ~ (lines # <<>> /\ lines[n] = line))
  <2>1. i \in 1..(n + 1) => i \in 1..n \/ i = n + 1
    BY <1>1
  <2>2. i \in 1..n => i # n + 1
    BY <1>1
  <2>3. n \in Nat
    BY <1>1
  <2> QED
    BY <1>2, <1>3, <1>4, <1>5, <2>1, <2>2, <2>3
<1>7. Fresh(new) = Fresh(lines) \cup (IF lines # <<>> /\ lines[n] = line THEN {} ELSE {n + 1})
  BY <1>6
<1> QED
  BY <1>7 DEF n, new

\* With a later place one more comes after each of the earlier ones, and none after it.
LEMMA AfterGrows ==
  ASSUME NEW n \in Nat, NEW places \in SUBSET (1..n)
  PROVE  /\ \A i \in places : After(places \cup {n + 1}, i) = After(places, i) + 1
         /\ After(places \cup {n + 1}, n + 1) = 0
         /\ Cardinality(places \cup {n + 1}) = Cardinality(places) + 1
<1>1. IsFiniteSet(places) /\ n + 1 \notin places
  <2>1. IsFiniteSet(1..n)
    BY FS_Interval
  <2>2. n + 1 \notin 1..n
    OBVIOUS
  <2> QED
    BY <2>1, <2>2, FS_Subset
<1>2. ASSUME NEW i \in places PROVE After(places \cup {n + 1}, i) = After(places, i) + 1
  <2> DEFINE later == {j \in places : j > i}
  <2>1. later \in SUBSET places
    OBVIOUS
  <2>2. {j \in places \cup {n + 1} : j > i} = later \cup {n + 1}
    <3>1. n + 1 > i
      OBVIOUS
    <3> QED
      BY <3>1
  <2> HIDE DEF later
  <2>3. IsFiniteSet(later) /\ n + 1 \notin later
    BY <1>1, <2>1, FS_Subset
  <2>4. Cardinality(later \cup {n + 1}) = Cardinality(later) + 1
    BY <2>3, FS_AddElement
  <2> QED
    BY <2>2, <2>4 DEF After, later
<1>3. After(places \cup {n + 1}, n + 1) = 0
  <2>1. \A j \in places \cup {n + 1} : ~ (j > n + 1)
    OBVIOUS
  <2>2. {j \in places \cup {n + 1} : j > n + 1} = {}
    BY <2>1
  <2> QED
    BY <2>2, FS_EmptySet DEF After
<1>4. Cardinality(places \cup {n + 1}) = Cardinality(places) + 1
  BY <1>1, FS_AddElement
<1> QED
  BY <1>2, <1>3, <1>4

LEMMA LogKeeps == HistoryKept /\ Log => HistoryKept'
<1> SUFFICES ASSUME HistoryKept, NEW line \in Messages,
                    diagnostics' = push_tui_diagnostic(diagnostics, line),
                    logged' = Append(logged, line)
             PROVE  HistoryKept'
  BY DEF Log
<1> DEFINE n == Len(logged)
           size == Len(diagnostics)
           fresh == Fresh(logged)
<1>1. logged \in Seq(Messages) /\ diagnostics \in Seq(Messages)
  BY DEF HistoryKept
<1>2. /\ n \in Nat /\ size \in Nat /\ fresh \in SUBSET (1..n) /\ Cardinality(fresh) \in Nat
      /\ MaxLines \in Nat \ {0}
  BY <1>1, FreshIsFinite, DiagnosticsAssumption
<1>3. /\ logged' \in Seq(Messages) /\ Len(logged') = n + 1 /\ logged'[n + 1] = line
      /\ \A i \in 1..n : logged'[i] = logged[i]
      /\ logged' # <<>>
  BY <1>1, AppendProperties
<1>4. /\ size <= MaxLines /\ size <= Cardinality(fresh) /\ size \in {MaxLines, Cardinality(fresh)}
      /\ logged # <<>> => diagnostics # <<>> /\ diagnostics[size] = logged[n]
      /\ \A k \in 1..size : \E i \in fresh : After(fresh, i) = size - k /\ diagnostics[k] = logged[i]
  BY DEF HistoryKept
<1>5. diagnostics # <<>> => logged # <<>>
  <2> SUFFICES ASSUME logged = <<>> PROVE diagnostics = <<>>
    OBVIOUS
  <2>1. fresh = {}
    BY DEF Fresh
  <2>2. Cardinality(fresh) = 0
    BY <2>1, FS_EmptySet
  <2>3. size = 0
    BY <1>2, <1>4, <2>2
  <2> QED
    BY <1>1, <2>3, EmptySeq
<1>6. Fresh(logged') = fresh \cup (IF logged # <<>> /\ logged[n] = line THEN {} ELSE {n + 1})
  BY <1>1, FreshGrows
<1> SUFFICES
      /\ Len(diagnostics') <= MaxLines /\ Len(diagnostics') <= Cardinality(Fresh(logged'))
      /\ Len(diagnostics') \in {MaxLines, Cardinality(Fresh(logged'))}
      /\ diagnostics' \in Seq(Messages)
      /\ diagnostics' # <<>> /\ diagnostics'[Len(diagnostics')] = line
      /\ \A k \in 1..Len(diagnostics') :
           \E i \in Fresh(logged') :
             After(Fresh(logged'), i) = Len(diagnostics') - k /\ diagnostics'[k] = logged'[i]
  BY <1>3 DEF HistoryKept
<1> HIDE DEF n, size, fresh
<1>7. CASE diagnostics # <<>> /\ diagnostics[size] = line
  <2>1. diagnostics' = diagnostics
    BY <1>7 DEF push_tui_diagnostic, size
  <2>2. Fresh(logged') = fresh
    BY <1>4, <1>5, <1>6, <1>7
  <2>3. \A k \in 1..size : \E i \in fresh : After(fresh, i) = size - k /\ diagnostics[k] = logged'[i]
    BY <1>2, <1>3, <1>4
  <2>4. ASSUME NEW k \in 1..Len(diagnostics')
        PROVE  \E i \in Fresh(logged') :
                 After(Fresh(logged'), i) = Len(diagnostics') - k /\ diagnostics'[k] = logged'[i]
    <3>1. k \in 1..size /\ Len(diagnostics') = size
      BY <2>1 DEF size
    <3>2. PICK i \in fresh : After(fresh, i) = size - k /\ diagnostics'[k] = logged'[i]
      BY <3>1, <2>1, <2>3
    <3>3. i \in Fresh(logged') /\ After(Fresh(logged'), i) = size - k
      BY <2>2, <3>2, Zenon
    <3> QED
      BY <3>1, <3>2, <3>3, Zenon
  <2> QED
    BY <1>1, <1>4, <1>7, <2>1, <2>2, <2>4 DEF size
<1>8. CASE ~ (diagnostics # <<>> /\ diagnostics[size] = line)
  <2>1. Fresh(logged') = fresh \cup {n + 1}
    BY <1>4, <1>6, <1>8
  <2>2. /\ \A i \in fresh : After(fresh \cup {n + 1}, i) = After(fresh, i) + 1
        /\ After(fresh \cup {n + 1}, n + 1) = 0
        /\ Cardinality(fresh \cup {n + 1}) = Cardinality(fresh) + 1
    BY <1>2, AfterGrows
  <2>3. CASE size < MaxLines
    <3>1. diagnostics' = Append(diagnostics, line)
      BY <1>8, <2>3 DEF push_tui_diagnostic, size
    <3>2. /\ diagnostics' \in Seq(Messages) /\ Len(diagnostics') = size + 1
          /\ diagnostics'[size + 1] = line /\ \A k \in 1..size : diagnostics'[k] = diagnostics[k]
      BY <1>1, <3>1, AppendProperties DEF size
    <3>3. size = Cardinality(fresh)
      BY <1>2, <1>4, <2>3
    <3>4. /\ size + 1 <= MaxLines /\ size + 1 = Cardinality(fresh) + 1
          /\ size + 1 \in 1..(size + 1) /\ diagnostics' # <<>>
      BY <1>2, <2>3, <3>2, <3>3
    <3>5. ASSUME NEW k \in 1..(size + 1)
          PROVE  \E i \in fresh \cup {n + 1} :
                   After(fresh \cup {n + 1}, i) = (size + 1) - k /\ diagnostics'[k] = logged'[i]
      <4>1. CASE k = size + 1
        <5>1. (size + 1) - k = 0
          BY <1>2, <4>1
        <5> QED
          BY <1>3, <2>2, <3>2, <4>1, <5>1
      <4>2. CASE k # size + 1
        <5>1. k \in 1..size
          BY <1>2, <4>2
        <5>2. PICK i \in fresh : After(fresh, i) = size - k /\ diagnostics[k] = logged[i]
          BY <1>4, <5>1
        <5>3. After(fresh \cup {n + 1}, i) = (size + 1) - k
          <6>1. (size - k) + 1 = (size + 1) - k
            BY <1>2, <5>1
          <6> QED
            BY <2>2, <5>2, <6>1
        <5>4. diagnostics'[k] = logged'[i]
          BY <1>2, <1>3, <3>2, <5>1, <5>2
        <5> QED
          BY <5>3, <5>4
      <4> QED
        BY <4>1, <4>2
    <3>6. ASSUME NEW k \in 1..Len(diagnostics')
          PROVE  \E i \in Fresh(logged') :
                   After(Fresh(logged'), i) = Len(diagnostics') - k /\ diagnostics'[k] = logged'[i]
      <4>1. k \in 1..(size + 1) /\ Len(diagnostics') = (size + 1)
        BY <3>2
      <4>2. PICK i \in fresh \cup {n + 1} : After(fresh \cup {n + 1}, i) = (size + 1) - k /\ diagnostics'[k] = logged'[i]
        BY <4>1, <3>5
      <4>3. i \in Fresh(logged') /\ After(Fresh(logged'), i) = (size + 1) - k
        BY <2>1, <4>2, Zenon
      <4> QED
        BY <4>1, <4>2, <4>3, Zenon
    <3>7. Cardinality(Fresh(logged')) = Cardinality(fresh) + 1
      BY <2>1, <2>2, Zenon
    <3>8. diagnostics' # <<>> /\ diagnostics'[Len(diagnostics')] = line
      BY <3>2, <3>4, Zenon
    <3>9. /\ Len(diagnostics') <= MaxLines /\ Len(diagnostics') <= Cardinality(Fresh(logged'))
          /\ Len(diagnostics') \in {MaxLines, Cardinality(Fresh(logged'))}
      BY <3>2, <3>4, <3>7
    <3> QED
      BY <3>2, <3>6, <3>8, <3>9, Zenon
  <2>4. CASE ~ (size < MaxLines)
    <3>0. size = MaxLines /\ size > 0 /\ diagnostics # <<>>
      BY <1>1, <1>2, <1>4, <2>4, EmptySeq DEF size
    <3>1. diagnostics' = Append(Tail(diagnostics), line)
      BY <1>8, <2>4 DEF push_tui_diagnostic, size
    <3>2. /\ Tail(diagnostics) \in Seq(Messages) /\ Len(Tail(diagnostics)) = size - 1
          /\ \A k \in 1..size - 1 : Tail(diagnostics)[k] = diagnostics[k + 1]
      BY <1>1, <3>0, HeadTailProperties DEF size
    <3>3. /\ diagnostics' \in Seq(Messages) /\ Len(diagnostics') = size
          /\ diagnostics'[size] = line /\ \A k \in 1..size - 1 : diagnostics'[k] = diagnostics[k + 1]
      <4>1. /\ diagnostics' \in Seq(Messages) /\ Len(diagnostics') = (size - 1) + 1
            /\ diagnostics'[(size - 1) + 1] = line
            /\ \A k \in 1..size - 1 : diagnostics'[k] = Tail(diagnostics)[k]
        BY <3>1, <3>2, AppendProperties
      <4>2. (size - 1) + 1 = size
        BY <1>2
      <4> QED
        BY <3>2, <4>1, <4>2
    <3>4. /\ size <= MaxLines /\ size <= Cardinality(fresh) + 1
          /\ size \in {MaxLines, Cardinality(fresh) + 1} /\ diagnostics' # <<>>
      BY <1>2, <1>4, <3>0, <3>3
    <3>5. ASSUME NEW k \in 1..size
          PROVE  \E i \in fresh \cup {n + 1} :
                   After(fresh \cup {n + 1}, i) = size - k /\ diagnostics'[k] = logged'[i]
      <4>1. CASE k = size
        <5>1. size - k = 0
          BY <1>2, <4>1
        <5> QED
          BY <1>3, <2>2, <3>3, <4>1, <5>1
      <4>2. CASE k # size
        <5>1. k \in 1..size - 1 /\ k + 1 \in 1..size
          BY <1>2, <4>2
        <5>2. PICK i \in fresh : After(fresh, i) = size - (k + 1) /\ diagnostics[k + 1] = logged[i]
          BY <1>4, <5>1
        <5>3. After(fresh \cup {n + 1}, i) = size - k
          <6>1. (size - (k + 1)) + 1 = size - k
            BY <1>2, <5>1
          <6> QED
            BY <2>2, <5>2, <6>1
        <5>4. diagnostics'[k] = logged'[i]
          BY <1>2, <1>3, <3>3, <5>1, <5>2
        <5> QED
          BY <5>3, <5>4
      <4> QED
        BY <4>1, <4>2
    <3>6. ASSUME NEW k \in 1..Len(diagnostics')
          PROVE  \E i \in Fresh(logged') :
                   After(Fresh(logged'), i) = Len(diagnostics') - k /\ diagnostics'[k] = logged'[i]
      <4>1. k \in 1..size /\ Len(diagnostics') = size
        BY <3>3
      <4>2. PICK i \in fresh \cup {n + 1} : After(fresh \cup {n + 1}, i) = size - k /\ diagnostics'[k] = logged'[i]
        BY <4>1, <3>5
      <4>3. i \in Fresh(logged') /\ After(Fresh(logged'), i) = size - k
        BY <2>1, <4>2, Zenon
      <4> QED
        BY <4>1, <4>2, <4>3, Zenon
    <3>7. Cardinality(Fresh(logged')) = Cardinality(fresh) + 1
      BY <2>1, <2>2, Zenon
    <3>8. diagnostics' # <<>> /\ diagnostics'[Len(diagnostics')] = line
      BY <3>3, <3>4, Zenon
    <3>9. /\ Len(diagnostics') <= MaxLines /\ Len(diagnostics') <= Cardinality(Fresh(logged'))
          /\ Len(diagnostics') \in {MaxLines, Cardinality(Fresh(logged'))}
      BY <3>3, <3>4, <3>7
    <3> QED
      BY <3>3, <3>6, <3>8, <3>9, Zenon
  <2> QED
    BY <2>3, <2>4
<1> QED
  BY <1>7, <1>8

\* What is asked of the queue is its end.
LEMMA KeptIsShown == HistoryKept => RecentIsHistory
<1> SUFFICES ASSUME HistoryKept, NEW limit \in 0 .. MaxLines + 1
             PROVE  LET shown == recent_tui_diagnostics(limit)
                        fresh == Fresh(logged) IN
                      /\ \A n \in {limit, MaxLines, Cardinality(fresh)} : Len(shown) <= n
                      /\ Len(shown) \in {limit, MaxLines, Cardinality(fresh)}
                      /\ \A k \in 1 .. Len(shown) :
                           \E i \in fresh : After(fresh, i) = Len(shown) - k /\ shown[k] = logged[i]
  BY Zenon DEF RecentIsHistory
<1> DEFINE size == Len(diagnostics)
           fresh == Fresh(logged)
           shown == recent_tui_diagnostics(limit)
           a == IF limit < size THEN size - limit + 1 ELSE 1
<1>1. logged \in Seq(Messages) /\ diagnostics \in Seq(Messages)
  BY DEF HistoryKept
<1>2. size \in Nat /\ Cardinality(fresh) \in Nat /\ MaxLines \in Nat /\ limit \in Nat
  BY <1>1, FreshIsFinite, DiagnosticsAssumption
<1>3. /\ size <= MaxLines /\ size <= Cardinality(fresh) /\ size \in {MaxLines, Cardinality(fresh)}
      /\ \A k \in 1..size : \E i \in fresh : After(fresh, i) = size - k /\ diagnostics[k] = logged[i]
  BY DEF HistoryKept
<1>4. shown = SubSeq(diagnostics, a, size)
  BY DEF recent_tui_diagnostics
<1>5. a \in 1..size + 1 /\ size - a + 1 = IF limit < size THEN limit ELSE size
  BY <1>2
<1> HIDE DEF size, fresh, shown, a
<1>6. \A k \in a..size : diagnostics[k] \in Messages
  BY <1>1, <1>2, <1>5, ElementOfSeq DEF size
<1>7. Len(shown) = size - a + 1 /\ \A k \in 1..size - a + 1 : shown[k] = diagnostics[a + k - 1]
  BY <1>2, <1>4, <1>5, <1>6, SubSeqProperties
<1>8. /\ Len(shown) <= limit /\ Len(shown) <= MaxLines /\ Len(shown) <= Cardinality(fresh)
      /\ Len(shown) \in {limit, MaxLines, Cardinality(fresh)}
  BY <1>2, <1>3, <1>5, <1>7
<1>9. ASSUME NEW k \in 1..Len(shown)
      PROVE  \E i \in fresh : After(fresh, i) = Len(shown) - k /\ shown[k] = logged[i]
  <2>1. a + k - 1 \in 1..size /\ size - (a + k - 1) = Len(shown) - k
    BY <1>2, <1>5, <1>7
  <2>2. PICK i \in fresh : After(fresh, i) = size - (a + k - 1) /\ diagnostics[a + k - 1] = logged[i]
    BY <1>3, <2>1
  <2>3. shown[k] = diagnostics[a + k - 1]
    BY <1>7
  <2> QED
    BY <2>1, <2>2, <2>3
<1> QED
  BY <1>8, <1>9 DEF shown, fresh

-----------------------------------------------------------------------------
\* The specification chooses an input and keeps it.
IsInput(i) == i \in Writes \/ i \in Args \/ i \in Files \/ i = [kind |-> "log"]

Chosen == IsInput(input)

LEMMA ChosenHolds == Spec => []Chosen
<1>1. Init => Chosen
  BY DEF Init, Chosen, IsInput
<1>2. Chosen /\ [Next]_<<input, diagnostics, logged>> => Chosen'
  <2> SUFFICES ASSUME Chosen, UNCHANGED input PROVE Chosen'
    BY DEF Next
  <2> QED
    BY Zenon DEF Chosen
<1> QED
  BY <1>1, <1>2, PTL DEF Spec

LEMMA BoundedIsSeq ==
  ASSUME NEW C, NEW n \in Nat
  PROVE  BoundedSeq(C, n) \subseteq Seq(C)
  BY DEF BoundedSeq, SeqOf

\* The windows of every write lie inside of it and hold both of its ends exactly if its
\* length fits the word, whatever the size of the windows and the width of the word.
THEOREM EndsSeenHolds == Spec => []EndsSeen
<1>1. Chosen => EndsSeen
  <2> SUFFICES ASSUME Chosen, input.kind = "write" PROVE WindowsAreEnds(input.count)
    BY DEF EndsSeen
  <2>1. input \in Writes
    BY DEF Chosen, IsInput, Args, Files
  <2> QED
    BY <2>1, WindowsHold DEF Writes
<1> QED
  BY <1>1, ChosenHolds, PTL

\* What is read again of a file is what was written, and never beyond the file, for
\* every MAX_SCAN and every width of the words.
THEOREM RangeReadHolds == Spec => []RangeRead
<1>1. Chosen => RangeRead
  <2> SUFFICES ASSUME Chosen, input.kind = "write"
               PROVE  RereadIsWrite(input.call, input.pos, input.count, input.len)
    BY DEF RangeRead
  <2>1. input \in Writes
    BY DEF Chosen, IsInput, Args, Files
  <2>2. /\ input.call \in {"write", "writev"} /\ input.pos \in Int
        /\ input.count \in Nat \ {0} /\ input.len \in Nat /\ input.len < U64
    BY <2>1 DEF Writes
  <2> QED
    BY <2>2, RereadHolds
<1> QED
  BY <1>1, ChosenHolds, PTL

\* Exactly the stores asked for are watched, and re-read, whatever the sizes of the
\* buffers and the number of prefixes.
THEOREM StoresWatchedHolds == Spec => []StoresWatched
<1>1. Chosen => StoresWatched
  <2> SUFFICES ASSUME Chosen, input.kind = "prefix"
               PROVE  WatchedAsAsked(input.arg, FileNames, Dirs)
    BY DEF StoresWatched
  <2> DEFINE C == {"a", "b", Comma, "/"}
  <2>1. input \in Args
    BY DEF Chosen, IsInput, Writes, Files
  <2>2. BufferSize \in Nat /\ BufferSize + 1 \in Nat
    BY WatchAssumption
  <2>3. input.arg \in Seq({"a", "b", Comma})
    BY <2>1, <2>2, BoundedIsSeq DEF Args
  <2>4. FileNames \subseteq Seq({"a", "b"})
    BY <2>2, BoundedIsSeq DEF FileNames
  <2>5. input.arg \in Seq(C)
    BY <2>3, SeqMonotonic
  <2>6. FileNames \in SUBSET Seq(C)
    BY <2>4, SeqMonotonic
  <2>7. Dirs \in SUBSET Seq(C)
    BY DEF Dirs
  <2> QED
    BY <2>5, <2>6, <2>7, StoresHold
<1> QED
  BY <1>1, ChosenHolds, PTL

\* Every line that is a rule is used, as a whole, and no other.
THEOREM RulesUsedHolds == Spec => []RulesUsed
<1>1. Chosen => RulesUsed
  <2> SUFFICES ASSUME Chosen, input.kind = "rules" PROVE RulesAsWritten(input.file, Payloads)
    BY DEF RulesUsed
  <2> DEFINE C == {Blank, Hash, "s", "S", "t"}
  <2>1. input \in Files
    BY DEF Chosen, IsInput, Writes, Args
  <2>2. /\ Lines(2) \subseteq Seq({Blank, Hash, "s", "S"}) /\ Payloads \subseteq Seq(C)
        /\ Lines(3) \subseteq Seq({Blank, Hash, "s", "S"})
    BY BoundedIsSeq DEF Lines, Payloads
  <2>3. input.file \in SUBSET (Lines(2) \cup Lines(3))
    BY <2>1 DEF Files
  <2>4. input.file \in SUBSET Seq(C)
    BY <2>2, <2>3, SeqMonotonic
  <2> QED
    BY <2>2, <2>4, RulesHold
<1> QED
  BY <1>1, ChosenHolds, PTL

\* Whatever is logged and however often, what the TUI shows is the end of the log
\* without its immediate repetitions.
THEOREM RecentHolds == Spec => []RecentIsHistory
<1>1. Init => HistoryKept
  <2> SUFFICES ASSUME Init PROVE HistoryKept
    OBVIOUS
  <2>1. diagnostics = <<>> /\ logged = <<>>
    BY DEF Init, InitDiagnostics
  <2>2. Fresh(logged) = {}
    BY <2>1 DEF Fresh
  <2>3. Cardinality(Fresh(logged)) = 0 /\ Len(diagnostics) = 0
    BY <2>1, <2>2, FS_EmptySet
  <2> QED
    BY <2>1, <2>3, DiagnosticsAssumption DEF HistoryKept
<1>2. HistoryKept /\ [Next]_<<input, diagnostics, logged>> => HistoryKept'
  <2>1. HistoryKept /\ UNCHANGED <<input, diagnostics, logged>> => HistoryKept'
    BY DEF HistoryKept
  <2> QED
    BY <2>1, LogKeeps DEF Next
<1> QED
  BY <1>1, <1>2, KeptIsShown, PTL DEF Spec
=============================================================================
