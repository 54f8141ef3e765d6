----------------------------- MODULE Trajectory -----------------------------
(***************************************************************************)
(* hil/scripts/gen_trajectory.py: the test trajectories, each a sequence of *)
(* rows, a row the position of every joint, and the file they are written   *)
(* to.                                                                      *)
(*                                                                         *)
(* Positions and times are integers; a quotient is rounded towards 0, where *)
(* the code has a float and the file six decimals.                          *)
(***************************************************************************)
EXTENDS FixedPoint, Sequences

CONSTANT NUM_JOINTS

ASSUME JointsAssumption == NUM_JOINTS \in Nat \ {0}

Joints == 0 .. NUM_JOINTS - 1

Row == [Joints -> Int]

\* The joints given on the command line move, the others stay at 0.
Moving(joints, val) == [j \in Joints |-> IF j \in joints THEN val ELSE 0]

\* _parse_joints: none given means all; an id out of range ends the program.
ParsedJoints(ids) == IF ids = {} THEN Joints ELSE ids

\* wave[i] is sin(2 pi hz t) of row i in parts of Unit.
GenSine(n, amplitude, wave, Unit, joints) ==
    [i \in 1 .. n |-> Moving(joints, Quotient(amplitude * wave[i], Unit))]

\* The step comes with the first row whose accumulated time reaches step_time.
GenStep(n, amplitude, stepRow, joints) ==
    [i \in 1 .. n |-> Moving(joints, IF i >= stepRow THEN amplitude ELSE 0)]

GenRamp(n, target, joints) ==
    [i \in 1 .. n |->
        Moving(joints, Quotient(target * (i - 1), IF n > 2 THEN n - 1 ELSE 1))]

GenZeros(n) == [i \in 1 .. n |-> Moving({}, 0)]

\* int(duration / dt).  The quotient of the floats is exact up to two intervals;
\* that of a larger whole number of them may fall short, which loses a row.
RowCounts(duration, interval) ==
    LET q == duration \div interval
    IN {q} \cup {n \in {q - 1} : q > 2 /\ duration % interval = 0}

\* The first row whose accumulated time reaches step_time; the sum of more than
\* two intervals may fall short in the same way, which delays the step by a row.
StepRows(stepTime, interval) ==
    LET q == (stepTime + interval - 1) \div interval
    IN {q + 1} \cup {k \in {q + 2} : q > 2 /\ stepTime % interval = 0}

\* What is found at a path: nothing, or a table with a column of times, which are
\* those of its rows, and columns of some of the joints; it may have others, with
\* numbers or with text in them.
NoFile == [exists |-> FALSE, columns |-> {}, rows |-> <<>>, text |-> FALSE]
Table(columns, rows) == [exists |-> TRUE, columns |-> columns, rows |-> rows, text |-> FALSE]
WithText(table) == [table EXCEPT !.text = TRUE]

\* _write_csv: a column for every joint.
WriteCsv(rows) == Table(Joints, rows)

Shape(args, n, joints) ==
    CASE args.shape = "sine" -> {GenSine(n, args.amplitude, args.wave, args.unit, joints)}
      [] args.shape = "step" ->
            {GenStep(n, args.amplitude, k, joints) : k \in StepRows(args.stepTime, args.dt)}
      [] args.shape = "ramp" -> {GenRamp(n, args.amplitude, joints)}
      [] args.shape = "zeros" -> {GenZeros(n)}

\* main: the files a command line may leave.
Generate(args) ==
    IF args.ids \subseteq Joints
    THEN {WriteCsv(rows) : rows \in UNION {Shape(args, n, ParsedJoints(args.ids)) :
                                             n \in RowCounts(args.duration, args.dt)}}
    ELSE {NoFile}
=============================================================================
