-------------------------------- MODULE Plot --------------------------------
(***************************************************************************)
(* hil/scripts/plot_trajectory.py without --log: a figure of a trajectory   *)
(* file.  The program keeps nothing, so it is a function of what it finds:  *)
(* how it ends, and the curves of the commands it has drawn.                *)
(***************************************************************************)
EXTENDS Trajectory

Ends(how) == [end |-> how, curves |-> <<>>]

\* load_traj makes a number of every cell of every column, which is a ValueError
\* where one is text, and looks for the columns in the first row, which is an
\* IndexError where there is none.
Loads(table) == table.rows # <<>> /\ ~table.text

\* A curve for every column but the time's.
Curves(table) ==
    [j \in table.columns |-> [i \in 1 .. Len(table.rows) |-> table.rows[i][j]]]

\* plot_trajectory_only: each of the joints in a panel of its own.
PlotTrajectoryOnly(table, selected) ==
    [end |-> "figure", curves |-> [j \in selected |-> Curves(table)[j]]]

\* main: a missing file and one without any of the joints asked for end the program
\* with a message, a file that does not load with the exception.
Draws(table, asked) == table.exists /\ Loads(table) /\ asked \cap table.columns # {}

EndsEarly(table) == Ends(IF table.exists /\ ~Loads(table) THEN "crash" ELSE "exit")

PlotTrajectory(table, asked) ==
    IF Draws(table, asked) THEN PlotTrajectoryOnly(table, asked \cap table.columns)
    ELSE EndsEarly(table)
=============================================================================
