------------------------------ MODULE JointOps ------------------------------
(***************************************************************************)
(* What one JointController (firmware/src/joint_controller.cpp) does to its *)
(* joint, with the numbers abstracted to what the arm's safety rules tell   *)
(* apart.  JointController.tla is the numeric model of the same code, and   *)
(* it implements this one.                                                  *)
(*                                                                         *)
(* A joint is a record:                                                    *)
(*   faulted  state_.faults # NONE, as the last feedback frame said         *)
(*   mode     state_.mode                                                   *)
(*   side     where the measured position is: -1 below pos_min, 1 above     *)
(*            pos_max, 0 between the soft limits                            *)
(*   ran      a PID has been updated since the PIDs were last reset         *)
(*   cmd      sign of the torque in the last command frame transmitted      *)
(***************************************************************************)
EXTENDS Integers

Modes == {"IDLE", "POSITION", "VELOCITY", "TORQUE", "FAULT"}

\* The modes whose torque is the output of a PID loop.
PidModes == {"POSITION", "VELOCITY"}

\* The modes the switch of tick() answers with a reset and no torque.
RestModes == {"IDLE", "FAULT"}

Signs == {-1, 0, 1}

Joint == [faulted : BOOLEAN, mode : Modes, side : Signs, ran : BOOLEAN, cmd : Signs]

\* The constructor; `side` is where the position 0 of a new JointState lies.
NewJoint(side) ==
    [faulted |-> FALSE, mode |-> "IDLE", side |-> side, ran |-> FALSE, cmd |-> 0]

\* unpack_feedback: the fault byte is overwritten, not accumulated.
AfterFeedback(jt, faulted, side) ==
    [jt EXCEPT !.faulted = faulted, !.side = side]

Fabs(x) == IF x < 0 THEN -x ELSE x

\* The soft limits: outside them a torque is turned to point back inside.
Restrain(side, torque) ==
    IF side = -1 THEN Fabs(torque)
    ELSE IF side = 1 THEN -Fabs(torque)
    ELSE torque

\* The torque the switch of tick() asks for.  A PID that has not run since its
\* reset returns its previous output, 0, when no time has elapsed.
Requested(jt, mode, torque, dt) ==
    IF \/ mode \in RestModes
       \/ mode \in PidModes /\ dt = 0 /\ ~jt.ran
    THEN 0
    ELSE torque

\* Whether the PIDs hold anything after a tick in this mode.
RanAfter(jt, mode, dt) ==
    /\ mode \notin RestModes
    /\ jt.ran \/ (mode \in PidModes /\ dt > 0)

\* Mutant of AfterTick: the frame of a faulted joint is not transmitted.
AfterTickSilentFault(jt, mode, torque, dt) ==
    IF jt.faulted
    THEN [jt EXCEPT !.mode = "FAULT"]
    ELSE [jt EXCEPT !.mode = mode,
                    !.ran = RanAfter(jt, mode, dt),
                    !.cmd = Restrain(jt.side, Requested(jt, mode, torque, dt))]

\* tick(): a faulted joint is sent a zero torque and nothing else happens, so
\* its PIDs keep what they hold.
AfterTick(jt, mode, torque, dt) ==
    IF jt.faulted
    THEN [jt EXCEPT !.mode = "FAULT", !.cmd = 0]
    ELSE [jt EXCEPT !.mode = mode,
                    !.ran = RanAfter(jt, mode, dt),
                    !.cmd = Restrain(jt.side, Requested(jt, mode, torque, dt))]

\* clear_fault() while the last feedback is fault-free; otherwise it refuses.
\* Mutant: the loops are not reset.
AfterClearNoReset(jt) ==
    IF jt.faulted THEN jt ELSE [jt EXCEPT !.mode = "IDLE"]

AfterClear(jt) ==
    IF jt.faulted THEN jt ELSE [jt EXCEPT !.mode = "IDLE", !.ran = FALSE]
=============================================================================
