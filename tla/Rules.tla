------------------------------- MODULE Rules -------------------------------
(***************************************************************************)
(* The signatures: from the lines of --poison-rules (cmd_trace.rs, which   *)
(* cleans them, and PoisonAnalyzer::with_rules, which does so again) to a  *)
(* match (scan_windows).  A line, a rule and a payload are sequences of    *)
(* characters; two of them, "s" and "S", differ in their case.  A list of   *)
(* lines or rules is the set of them: their order, and how often one comes, *)
(* matters to the severity alone.                                          *)
(***************************************************************************)
EXTENDS Integers, Sequences, SequencesExt

Defaults == {<<"t">>}   \* POISON_SIGNATURES

Blank == " "
Hash == "#"

lower(text) == [i \in DOMAIN text |-> IF text[i] = "S" THEN "s" ELSE text[i]]

trim(line) ==
  LET ink == {i \in DOMAIN line : line[i] # Blank} IN
    IF ink = {} THEN <<>> ELSE SubSeq(line, Min(ink), Max(ink))

IsRule(line) == line # <<>> /\ Head(line) # Hash

\* Both places clean in the same way.
Cleaned(lines) == {l \in {trim(line) : line \in lines} : IsRule(l)}

with_rules(rules) == IF Cleaned(rules) # {} THEN Cleaned(rules) ELSE Defaults

RulesOf(file) == with_rules(Cleaned(file))

\* Mutant: only the payload is lower-cased.
scan_windows_RuleAsIs(payload, sigs) == {sig \in sigs : sig \in SubSeqs(lower(payload))}

scan_windows(payload, sigs) == {sig \in sigs : lower(sig) \in SubSeqs(lower(payload))}

-----------------------------------------------------------------------------
Flagged(payload, file) == scan_windows(payload, RulesOf(file)) # {}

\* Every line that is a rule is found in whatever follows and precedes it and in
\* whatever case it is written; a payload without any of the file's words is never
\* flagged (a blank rule would flag all); and lines that are no rules change nothing.
\* Only a line that begins with # is a comment.  examples/poison-rules.txt:2 speaks of
\* inline comments too, but a note behind a rule is a part of it: without the note the
\* rule is not found.
RulesAsWritten(file, payloads) ==
  LET rules == {l \in file : IsRule(trim(l))} IN
    /\ \A l \in rules, p \in payloads :
         LET r == trim(l)
         IN Flagged(r \o p, file) /\ Flagged(p \o r, file) /\ Flagged(lower(r), file)
    /\ \A l \in rules : \A n \in 1..Len(trim(l)) :
         trim(l)[n] = Hash => ~Flagged(SubSeq(trim(l), 1, n - 1), {l})
    /\ \A p \in payloads : trim(p) = <<>> => ~Flagged(p, file)
    /\ \A p \in payloads : Flagged(p, file) <=> Flagged(p, rules)
=============================================================================
