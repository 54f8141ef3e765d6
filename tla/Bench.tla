-------------------------------- MODULE Bench --------------------------------
(***************************************************************************)
(* The scripts of hil/scripts one after the other, without hardware: a file *)
(* is written by gen_trajectory.py or by hand, hil_runner.py --dry-run      *)
(* replays it and writes a log, plot_trajectory.py draws what it finds.     *)
(***************************************************************************)
EXTENDS DryRun, Plot, FiniteSets

CONSTANT Files   \* what may be at the path the scripts are given

ASSUME BenchAssumption ==
    \A table \in Files :
        /\ table.columns \subseteq Joints
        /\ table.rows \in Seq([table.columns -> Int])
        /\ ~table.exists => table.rows = <<>>
        /\ table.text \in BOOLEAN

VARIABLES
    file,   \* what is there
    log     \* the lines of the runner's log after its header

benchVars == <<vars, file, log>>

\* Mutant: the columns of the file are the joints from 0 on.
load_trajectory_in_order(table) ==
    [i \in 1 .. Len(table.rows) |->
        [j \in Joints |-> IF \E c \in table.columns : j = Cardinality({b \in table.columns : b < c})
            THEN table.rows[i][CHOOSE c \in table.columns :
                                   j = Cardinality({b \in table.columns : b < c})]
            ELSE 0]]

\* load_trajectory: a joint without a column stays at 0.
load_trajectory(table) ==
    [i \in 1 .. Len(table.rows) |->
        [j \in Joints |-> IF j \in table.columns THEN table.rows[i][j] ELSE 0]]

BenchInit ==
    /\ file \in Files /\ trajectory = load_trajectory(file)
    /\ log = <<>>
    /\ Init

\* The line of joint j: the feedback as decoded, at the time of the row.
Line(j) ==
    LET fb == decode_feedback(Feedback(j))
    IN [row |-> row, joint |-> j, position |-> fb.position, velocity |-> fb.velocity]

\* The first n joints' frames pass the check.
Pass(n) == \A j \in 0 .. n - 1 : ~Breaches(j)

\* Mutant: a frame is logged before it is checked.
LoggedFirst(n) == n > 0 /\ Pass(n - 1) /\ (n < NUM_JOINTS => Breaches(n - 1))

\* The frames of a row that are logged: those before the first breach.
Logged(n) == Pass(n) /\ (n < NUM_JOINTS => Breaches(n))

WriteLines(n) == log' = log \o [i \in 1 .. n |-> Line(i - 1)]

CheckAndLog ==
    /\ CheckFeedback
    /\ \E n \in 0 .. NUM_JOINTS : Logged(n) /\ WriteLines(n)
    /\ UNCHANGED file

\* Ctrl-C leaves what has been logged, also in the middle of a row's frames.
InterruptAndLog ==
    /\ Interrupt
    /\ \/ pc = "send" /\ UNCHANGED log
       \/ pc = "check" /\ \E n \in 0 .. NUM_JOINTS : Pass(n) /\ WriteLines(n)
    /\ UNCHANGED file

BenchNext ==
    \/ CheckAndLog
    \/ InterruptAndLog
    \/ Load /\ UNCHANGED <<file, log>>
    \/ SendRow /\ UNCHANGED <<file, log>>
    \/ PackageMissing /\ UNCHANGED <<file, log>>
    \/ SendIdle /\ UNCHANGED <<file, log>>
    \/ Exited /\ UNCHANGED <<file, log>>

BenchSpec == BenchInit /\ [][BenchNext]_benchVars

-----------------------------------------------------------------------------
(* Properties *)

\* The log is the check's own record: every joint of every row in its turn, none
\* twice and none beyond a limit, complete up to the row that is sent next and
\* after a run to the end; after a breach the first joint it lacks is one that
\* breached (hil_runner.py:246-259, can_protocol.py:124-135).
LogIsWhatPassed ==
    /\ \A i \in 1 .. Len(log) :
          /\ i = NUM_JOINTS * (log[i].row - 1) + log[i].joint + 1
          /\ log[i].joint \in Joints
          /\ ~Outside(log[i].position, MaxPosition)
          /\ ~Outside(log[i].velocity, MaxVelocity)
    /\ pc \in {"send", "check"} => Len(log) = NUM_JOINTS * (row - 1)
    /\ pc = "idle" /\ abort = "none" => Len(log) = NUM_JOINTS * Len(trajectory)
    /\ pc = "idle" /\ abort = "breach" =>
          \E j \in Joints : Len(log) = NUM_JOINTS * (row - 1) + j /\ Breaches(j)

\* The two readers of a trajectory file agree, but for a column of text, which one
\* of them never looks at: the plot of a file that is replayed fails if and only if
\* it has one; otherwise a curve shows the joint's commands row by row, and a joint
\* that is asked for and not drawn is commanded 0 throughout
\* (hil_runner.py:130-141, plot_trajectory.py:28-38, 153-188).
FigureShowsCommands ==
    pc \notin {"load", "empty"} =>
        \A asked \in SUBSET Joints :
            LET figure == PlotTrajectory(file, asked)
                commands(j) == [i \in 1 .. Len(trajectory) |-> trajectory[i][j]]
            IN /\ figure.end = "crash" <=> file.text
               /\ figure.end # "crash" =>
                     \A j \in asked :
                        IF j \in DOMAIN figure.curves
                        THEN figure.curves[j] = commands(j)
                        ELSE commands(j) = [i \in 1 .. Len(trajectory) |-> 0]
=============================================================================
