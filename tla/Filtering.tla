------------------------------ MODULE Filtering ------------------------------
(***************************************************************************)
(* A sequence without the items of a set: what a loop that skips them      *)
(* keeps, in order (the loops of append() in db/audit.py, of the reader of *)
(* blocks in datalog.py and of _one_of() in extractor.py).  It is written  *)
(* as the loop it is, over the positions of the sequence.                  *)
(***************************************************************************)
EXTENDS Naturals, Sequences

\* The body of the loop.
AddUnlessKnown(kept, item, known) == IF item \in known THEN kept ELSE Append(kept, item)

Skipping(batch, known) ==
    LET kept[i \in 0 .. Len(batch)] ==
            IF i = 0 THEN <<>> ELSE AddUnlessKnown(kept[i - 1], batch[i], known)
    IN  kept[Len(batch)]
=============================================================================
