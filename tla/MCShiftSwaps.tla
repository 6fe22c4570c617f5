---------------------------- MODULE MCShiftSwaps ----------------------------
(* TLC instances of ShiftSwaps: who works when, symmetry. *)
EXTENDS ShiftSwaps, TLC

CONSTANTS s1, s2, s3, anna, biel, carla, dora

\* One slot each but for carla; s2 overlaps the others.
OneEach == s1 :> anna @@ s2 :> biel @@ s3 :> dora
MiddleOverlaps == {<<s, t>> \in Slots \X Slots : s = t \/ s = s2 \/ t = s2}

Interchangeable == Permutations(Requests) \union Permutations(Sessions)
=============================================================================
