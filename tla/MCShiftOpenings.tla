-------------------------- MODULE MCShiftOpenings --------------------------
(* TLC instances of ShiftOpenings: the windows that overlap. *)
EXTENDS ShiftOpenings, TLC

CONSTANTS morning, midday, evening, o1, o2, e1, e2, s1, s2

\* Morning and midday overlap, evening overlaps neither.
MiddayOverlaps ==
  {<<w, w>> : w \in Windows} \union
  ({<<morning, midday>>, <<midday, morning>>} \intersect (Windows \X Windows))

\* Employees are alike, and so are sessions.
Alike == Permutations(Employees) \union Permutations(Sessions)
=============================================================================
