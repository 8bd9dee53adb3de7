----------------------------- MODULE MCDetection -----------------------------
(* Detection on a small store: windows of two cells, buffers of up to five. *)
EXTENDS Detection, TLC

CONSTANTS w1, w2, sig, other

\* A page with a signature in the cell neither window sees, a clean one that
\* may land on it, a buffer hit in both windows, an append whose position the
\* probe gets wrong, a vector whose second segment carries the signature, an
\* empty buffer, and a buffer longer than what is scanned.
MCCalls ==
  LET p == "plain"
      At(kind, first, rest, pos, append) ==
        [kind |-> kind, first |-> first, rest |-> rest, pos |-> pos, append |-> append]
  IN { At("write", <<p, p, sig, p, p>>, <<>>, 0, FALSE),
       At("write", <<p, p, p, p, p>>, <<>>, 2, FALSE),
       At("write", <<sig, p, p, p, other>>, <<>>, 1, FALSE),
       At("write", <<p, p, sig, p, p>>, <<>>, 0, TRUE),
       At("writev", <<other>>, <<p, sig>>, 0, FALSE),
       At("writev", <<p, other, p>>, <<sig>>, 2, FALSE),
       At("writev", <<>>, <<sig>>, 0, FALSE),
       At("write", <<p, p, p, p, p, sig, p, p>>, <<>>, 0, FALSE) }

Symmetry == Permutations({w1, w2})
=============================================================================
