------------------------------ MODULE MCBench ------------------------------
(* The command lines of gen_trajectory.py over a few parameters, and files *)
(* written by hand.                                                        *)
EXTENDS Bench

\* A sine sampled so coarsely that it swings by twice its amplitude.
Wave == <<0, 4, -4, 1, -2>>

\* 0.5 and 0.8 rad are gentle; 1.2 rad is too fast, -3.2 rad beyond the fence
\* too.  After a row of 327.68 rad the joint is at 3 * 2^16 mrad and its velocity
\* is 2^16 times 0.01 rad/s: both would be 0 if the frame wrapped.
FewAmplitudes == {5000, -8000, 12000, -32000, 3276800}

\* No row to five, in whole and in broken numbers of intervals; a step before the
\* end, at it and after it; any joints, and one the arm does not have.
FewArgs ==
    [shape : {"sine", "step", "ramp", "zeros"}, duration : {0, 300, 700, 900, 1500},
     dt : {Dt}, amplitude : FewAmplitudes, stepTime : {0, 300, 500, 900, 1500},
     ids : SUBSET Joints \cup {{NUM_JOINTS}}, wave : {Wave}, unit : {4}]

\* Two rows of a table without all the columns, or with a column of text.
HandWritten ==
    LET tables == UNION {{Table(columns, <<first, second>>) :
                             first, second \in [columns -> {0, 5000, -12000}]} :
                         columns \in SUBSET Joints}
    IN tables \cup {WithText(table) : table \in tables}

FewFiles == UNION {Generate(args) : args \in FewArgs} \cup HandWritten

FewTrajectories == {load_trajectory(table) : table \in FewFiles}
============================================================================
