---------------------------- MODULE MCObjectOutbox ----------------------------
(* Small instances of ObjectOutbox for TLC.                                   *)
EXTENDS ObjectOutbox, TLC

CONSTANTS k1, k2, s1, s2

\* Keys drawn for uploads and copies may be exchanged, and so may staged keys.
Symmetry ==
    Permutations(Threads) \cup Permutations(Workers) \cup Permutations(Slots)
        \cup Permutations(Keys \ StagedKeys) \cup Permutations(StagedKeys)

\* What a completed row that nobody works on still holds is never read.
View ==
    <<objects, refs, shown, quota, calls,
      [j \in Slots |-> IF j \in Free THEN FreeSlot ELSE jobs[j]]>>
=============================================================================
