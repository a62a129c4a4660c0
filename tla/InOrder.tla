------------------------------- MODULE InOrder -------------------------------
(***************************************************************************)
(* Loops over a sequence whose body updates what the loop has so far.      *)
(***************************************************************************)
EXTENDS Naturals, Sequences

\* FoldLeft of SequencesExt.  The step draws its argument from a singleton, so that TLC has
\* the value of one round before it starts the next.
FoldInOrder(op(_, _), base, s) ==
    LET fold[i \in 0..Len(s)] ==
            IF i = 0 THEN base
            ELSE CHOOSE next \in {op(sofar, s[i]) : sofar \in {fold[i - 1]}} : TRUE
    IN fold[Len(s)]
=============================================================================
