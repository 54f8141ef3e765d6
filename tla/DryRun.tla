------------------------------- MODULE DryRun -------------------------------
(***************************************************************************)
(* hil/scripts/hil_runner.py --dry-run: run() replays a trajectory to       *)
(* _DryRunBus, which moves every joint a part of the way to its setpoint    *)
(* and answers with synthetic feedback, in the frames of can_protocol.py;   *)
(* SafetyMonitor checks what comes back.                                    *)
(*                                                                         *)
(* A position is a number of steps of 1 / PosScale mrad, a time a number of *)
(* milliseconds; a quotient of the simulation is rounded towards 0, where   *)
(* the code has a float.  On the wire a position is in mrad and a velocity  *)
(* in 0.01 rad/s, each an int16.                                            *)
(***************************************************************************)
EXTENDS Trajectory, Wire

CONSTANTS
    Trajectories,   \* what may be in the file
    Dt,             \* ms from one row to the next
    DefaultDt,      \* 1 ms: dt of a trajectory of one row
    Tau,            \* 200 ms: the time constant of the simulated joints
    PosScale,
    MaxPosition,    \* MAX_POSITION_RAD, on the wire
    MaxVelocity     \* MAX_VELOCITY_RADS, on the wire

ASSUME DryRunAssumption ==
    /\ Trajectories \subseteq Seq(Row)
    /\ Dt \in Nat \ {0} /\ DefaultDt \in Nat \ {0} /\ Tau \in Nat \ {0}
    /\ PosScale \in Nat \ {0}
    /\ MaxPosition \in Nat /\ MaxVelocity \in Nat
    /\ MaxPosition < HalfWord - 1 /\ MaxVelocity < HalfWord - 1

VARIABLES
    pc,          \* where run() is
    trajectory,  \* what load_trajectory read
    row,         \* the row run() is at, from 1
    pos,         \* _DryRunBus._pos
    lag,         \* _DryRunBus._vel, times tau: setpoint - position
    abort        \* abort_reason

vars == <<pc, trajectory, row, pos, lag, abort>>

TypeOK ==
    /\ pc \in {"load", "send", "check", "idle", "done", "empty", "crashed"}
    /\ trajectory \in Trajectories
    /\ row \in Nat \ {0}
    /\ IF pc \in {"load", "empty"} THEN row = 1 ELSE row <= Len(trajectory)
    /\ pos \in Row /\ lag \in Row
    /\ abort \in {"none", "breach", "operator"}

Init ==
    /\ pc = "load" /\ trajectory \in Trajectories /\ row = 1
    /\ pos = Moving({}, 0) /\ lag = Moving({}, 0)
    /\ abort = "none"

\* dt of the simulation: from the first two rows, if there are two.
dt == IF Len(trajectory) > 1 THEN Dt ELSE DefaultDt

\* No trajectory, or an empty one, ends the program.
Load ==
    /\ pc = "load"
    /\ pc' = IF trajectory = <<>> THEN "empty" ELSE "send"
    /\ UNCHANGED <<trajectory, row, pos, lag, abort>>

\* Mutant: alpha is dt / tau.
FollowedByTau(p, setpoint) == Towards(p, setpoint, dt, Tau)

\* The first-order lag: alpha is dt / (tau + dt).
Followed(p, setpoint) == Towards(p, setpoint, dt, Tau + dt)

\* bus.send for each of the joints js.
Send(js, setpoints) ==
    /\ pos' = [j \in Joints |-> IF j \in js THEN Followed(pos[j], setpoints[j]) ELSE pos[j]]
    /\ lag' = [j \in Joints |-> IF j \in js THEN setpoints[j] - pos'[j] ELSE lag[j]]

SendRow ==
    /\ pc = "send" /\ Send(Joints, trajectory[row])
    /\ pc' = "check"
    /\ UNCHANGED <<trajectory, row, abort>>

\* Mutant: the velocity is over the interval of the rows, not the time constant.
FeedbackOverDt(j) ==
    [position |-> PackI16(HostI16(pos[j], PosScale)),
     velocity |-> PackI16(HostI16(100 * lag[j], PosScale * dt))]

\* recv: the frame of joint j.
Feedback(j) ==
    [position |-> PackI16(HostI16(pos[j], PosScale)),
     velocity |-> PackI16(HostI16(100 * lag[j], PosScale * Tau))]

decode_feedback(frame) ==
    [position |-> UnpackI16(frame.position),
     velocity |-> UnpackI16(frame.velocity)]

\* check(): the simulated joints have no fault and stay at 30 degrees.
Outside(v, limit) == v > limit \/ v < -limit

Breaches(j) ==
    LET fb == decode_feedback(Feedback(j)) IN
        Outside(fb.position, MaxPosition) \/ Outside(fb.velocity, MaxVelocity)

Breach == \E j \in Joints : Breaches(j)

\* A frame from every joint, looked at in turn up to the first breach.
CheckFeedback ==
    /\ pc = "check"
    /\ IF Breach
       THEN pc' = "idle" /\ abort' = "breach" /\ UNCHANGED row
       ELSE /\ UNCHANGED abort
            /\ IF row < Len(trajectory)
               THEN pc' = "send" /\ row' = row + 1
               ELSE pc' = "idle" /\ UNCHANGED row
    /\ UNCHANGED <<trajectory, pos, lag>>

\* The frames are python-can's Message objects here too: where the package is
\* missing the first one is an exception that nothing catches.
PackageMissing ==
    /\ pc = "send" /\ row = 1
    /\ pc' = "crashed"
    /\ UNCHANGED <<trajectory, row, pos, lag, abort>>

\* Ctrl-C within the try, between two of a row's commands or before the check.
Interrupt ==
    /\ pc \in {"send", "check"}
    /\ pc' = "idle" /\ abort' = "operator"
    /\ IF pc = "send"
       THEN \E j \in Joints : Send(0 .. j - 1, trajectory[row])
       ELSE UNCHANGED <<pos, lag>>
    /\ UNCHANGED <<trajectory, row>>

\* The idle commands have 0 for a position, and the simulation obeys.  A Ctrl-C
\* among them is not caught and ends the program.
SendIdle ==
    /\ pc = "idle" /\ \E n \in 0 .. NUM_JOINTS : Send(0 .. n - 1, Moving({}, 0))
    /\ pc' = "done"
    /\ UNCHANGED <<trajectory, row, abort>>

Ended == pc \in {"done", "empty", "crashed"}

Exited == Ended /\ UNCHANGED vars

Next == Load \/ SendRow \/ CheckFeedback \/ PackageMissing \/ Interrupt \/ SendIdle \/ Exited

Spec == Init /\ [][Next]_vars

-----------------------------------------------------------------------------
(* Properties *)

\* v lies between 0 and a bound of either sign, or at one of them.
Between(v, bound) == (0 <= v /\ v <= bound) \/ (bound <= v /\ v <= 0)

\* However the setpoints jump, a joint never leaves the range they have spanned
\* with its rest position, and one whose setpoints are all 0 does not move
\* (hil_runner.py:87-97).
WithinSetpoints ==
    \A j \in Joints :
        pos[j] = 0 \/ \E i \in 1 .. row : Between(pos[j], trajectory[i][j])

\* Every setpoint is so small that neither limit can be reached.
Gentle == \A i \in 1 .. Len(trajectory), j \in Joints :
    LET s == trajectory[i][j] IN
        /\ -MaxPosition * PosScale <= s /\ s <= MaxPosition * PosScale
        /\ -MaxVelocity * PosScale * Tau <= 200 * s
        /\ 200 * s <= MaxVelocity * PosScale * Tau

\* A trajectory within the fence and within half of what the time constant makes
\* of the velocity limit is no breach, whatever its shape
\* (hil_runner.py:95-97, 150-161, 246-259).
NoFalseAlarm == Gentle => abort # "breach"

\* When the runner sends another row no joint is further out than the fence, but
\* for the half step the frame cannot show: a position the frame cannot hold is
\* no way past the check (hil_runner.py:105-108, 150-161).
FenceHolds ==
    pc = "send" => \A j \in Joints :
        /\ 2 * pos[j] <= (2 * MaxPosition + 1) * PosScale
        /\ -(2 * MaxPosition + 1) * PosScale <= 2 * pos[j]

\* Joint j's setpoints go from 0 one way only, as in a ramp or a step.
OneWay(j) ==
    \/ \A i, k \in 1 .. Len(trajectory) :
          i <= k => 0 <= trajectory[i][j] /\ trajectory[i][j] <= trajectory[k][j]
    \/ \A i, k \in 1 .. Len(trajectory) :
          i <= k => trajectory[k][j] <= trajectory[i][j] /\ trajectory[i][j] <= 0

\* On a ramp or a step the joint follows and never overtakes its setpoint, and it
\* turns back for the idle commands only (hil_runner.py:92-97, 233).
NoOvershoot ==
    [][pc = "send" => \A j \in Joints : OneWay(j) =>
          /\ Between(pos'[j], trajectory[row][j])
          /\ Between(pos[j], pos'[j])]_vars
=============================================================================
