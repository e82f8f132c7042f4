----------------------------- MODULE MCRelay -----------------------------
(***************************************************************************)
(* Relay for TLC: two connections of one browser tab, that is, the         *)
(* reconnections in which eviction, late frames and replays meet.          *)
(***************************************************************************)
EXTENDS Relay, TLC

CONSTANTS c1, c2, u1, u2, t1

MCTabOf == [c \in Client |-> t1]

MCOneFrame == [c \in Client |-> 1]
MCTwoFrames == [c \in Client |-> 2]
MCOneTalker == [c \in Client |-> IF c = c1 THEN 3 ELSE 1]

\* The connections are alike: TabOf and MaxFrames are constant
\* functions wherever this is used, and no property names one.
MCSymmetry == Permutations({c1, c2}) \cup Permutations({u1, u2})
=============================================================================
