--------------------------- MODULE GrowingCopyMC ---------------------------
(***************************************************************************)
(* GrowingCopy on small instances.                                         *)
(***************************************************************************)
EXTENDS GrowingCopy

CONSTANTS s1, s2, p1, p2, p3

\* The second name tried for s1 is the own name of s2 ("a_1.mxf").
NumberedName ==
    [s \in Sources |-> IF s = s1 THEN [n \in 1..MaxTries |-> IF n = 1 THEN p1 ELSE p2]
                                 ELSE [n \in 1..MaxTries |-> IF n = 1 THEN p2 ELSE p3]]

\* Two sources of one name, in two folders.
OneName == [s \in Sources |-> [n \in 1..MaxTries |-> IF n = 1 THEN p1 ELSE p2]]
=============================================================================
