---------------------------- MODULE MCJsonStore ----------------------------
(* Instances of JsonStore for TLC.                                         *)
EXTENDS JsonStore

CONSTANTS p1, p2, a, b, d

\* Two threads of one process and one of another.
TwoAndOne == [t \in Thread |-> IF t = d THEN p2 ELSE p1]

\* The updater counts up, so that a lost update shows.
CountUp == [v \in Value |-> IF v + 1 \in Value THEN v + 1 ELSE v]

\* The mutator deletes every item.
DeleteAll == [i \in Items |-> Empty]
=============================================================================
