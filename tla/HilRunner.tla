------------------------------ MODULE HilRunner ------------------------------
(***************************************************************************)
(* hil/scripts/hil_runner.py on real hardware: run() replays a trajectory,  *)
(* row by row, to every joint, collects their feedback, aborts on a breach  *)
(* of the safety limits, on a timeout or on Ctrl-C, and sends idle commands *)
(* before it exits.                                                         *)
(*                                                                         *)
(* A row is due one unit of time after the row before it, the first at the  *)
(* start.  A feedback frame is the joint it comes from and whether check()  *)
(* finds a fault, a position, a velocity or a temperature out of bounds.    *)
(***************************************************************************)
EXTENDS Integers, Sequences

CONSTANTS
    NUM_JOINTS,
    Rows,            \* rows of the trajectory
    CheckEvery,      \* rows from one check_timeouts() to the next (100)
    Timeout,         \* FEEDBACK_TIMEOUT_S
    MaxTime,         \* bound: where the clock stops
    MaxQueue,        \* bound: frames waiting in the adapter
    BusFails,        \* whether bus.send and bus.recv may raise an exception
    Interrupts       \* whether the operator may press Ctrl-C

ASSUME RunnerAssumption ==
    /\ NUM_JOINTS \in Nat \ {0} /\ Rows \in Nat \ {0} /\ CheckEvery \in Nat \ {0}
    /\ Timeout \in Nat /\ MaxTime \in Nat /\ MaxQueue \in Nat
    /\ Rows <= MaxTime
    /\ BusFails \in BOOLEAN /\ Interrupts \in BOOLEAN

Joints == 0 .. NUM_JOINTS - 1
NoJoint == NUM_JOINTS       \* an id decode_feedback answers None to
Start == 1                  \* start_wall; perf_counter() is never 0
None == -1                  \* no command sent yet
Idle == Rows                \* the idle command, beside the rows 0 .. Rows - 1

FeedbackFrame ==
    [joint : Joints, breach : BOOLEAN] \cup [joint : {NoJoint}, breach : {FALSE}]

VARIABLES
    pc,         \* where run() is
    row, jid,   \* row_idx and the joint the send or the idle loop is at
    clock,      \* time.perf_counter()
    now,        \* run()'s `now`, sampled after the commands of a row
    queue,      \* frames that arrived and were not received yet
    frames,     \* frames received and not checked yet
    lastSeen,   \* SafetyMonitor.last_seen
    abort,      \* abort_reason
    lastCmd,    \* history: the last command each joint was sent
    breached,   \* history: a frame that breaches the limits was received
    checkedAt, checkedRow   \* history: `now` and row of the last timeout check

vars == <<pc, row, jid, clock, now, queue, frames, lastSeen, abort,
          lastCmd, breached, checkedAt, checkedRow>>

history == <<breached, checkedAt, checkedRow>>

InTry == {"send", "drain", "check", "timeouts", "wait"}
Ended == {"done", "crashed"}

TypeOK ==
    /\ pc \in InTry \cup {"idle"} \cup Ended
    /\ row \in 0 .. Rows - 1 /\ jid \in Joints
    /\ clock \in Start .. Start + MaxTime /\ now \in Start .. Start + MaxTime
    /\ queue \in Seq(FeedbackFrame) /\ Len(queue) <= MaxQueue
    /\ frames \in Seq(FeedbackFrame)
    /\ lastSeen \in [Joints -> 0 .. Start + MaxTime]
    /\ abort \in {"none", "breach", "timeout", "operator"}
    /\ lastCmd \in [Joints -> None .. Idle]
    /\ breached \in BOOLEAN
    /\ checkedAt \in Start .. Start + MaxTime /\ checkedRow \in 0 .. Rows - 1

Init ==
    /\ pc = "send" /\ row = 0 /\ jid = 0
    /\ clock = Start /\ now = Start
    /\ queue = <<>> /\ frames = <<>>
    /\ lastSeen = [j \in Joints |-> 0]
    /\ abort = "none"
    /\ lastCmd = [j \in Joints |-> None]
    /\ breached = FALSE /\ checkedAt = Start /\ checkedRow = 0

-----------------------------------------------------------------------------
(* The world: time, and what the adapter receives *)

TimePasses ==
    /\ pc \notin Ended /\ clock < Start + MaxTime
    /\ clock' = clock + 1
    /\ UNCHANGED <<pc, row, jid, now, queue, frames, lastSeen, abort, lastCmd, history>>

FeedbackArrives(frame) ==
    /\ pc \notin Ended /\ Len(queue) < MaxQueue
    /\ queue' = Append(queue, frame)
    /\ UNCHANGED <<pc, row, jid, clock, now, frames, lastSeen, abort, lastCmd, history>>

-----------------------------------------------------------------------------
(* run() *)

\* The loop over the joints, one bus.send a step.
SendRow ==
    /\ pc = "send"
    /\ lastCmd' = [lastCmd EXCEPT ![jid] = row]
    /\ IF jid + 1 < NUM_JOINTS
       THEN jid' = jid + 1 /\ UNCHANGED <<pc, now>>
       ELSE pc' = "drain" /\ now' = clock /\ UNCHANGED jid
    /\ UNCHANGED <<row, clock, queue, frames, lastSeen, abort, history>>

\* Everything that arrived since the last tick.
Drain ==
    /\ pc = "drain"
    /\ pc' = "check" /\ frames' = queue /\ queue' = <<>>
    /\ breached' = (breached \/ \E i \in DOMAIN queue :
                                    queue[i].joint \in Joints /\ queue[i].breach)
    /\ UNCHANGED <<row, jid, clock, now, lastSeen, abort, lastCmd, checkedAt, checkedRow>>

\* The frames after a breach are not looked at.  Mutant: only the loop over the
\* frames is left, not the loop over the rows.
CheckFrameGoesOn ==
    /\ pc = "check" /\ frames # <<>>
    /\ LET fb == Head(frames) IN
          IF fb.joint \notin Joints
          THEN frames' = Tail(frames) /\ UNCHANGED <<pc, jid, lastSeen, abort>>
          ELSE /\ lastSeen' = [lastSeen EXCEPT ![fb.joint] = now]
               /\ IF fb.breach
                  THEN abort' = "breach" /\ frames' = <<>> /\ UNCHANGED <<pc, jid>>
                  ELSE frames' = Tail(frames) /\ UNCHANGED <<pc, jid, abort>>
    /\ UNCHANGED <<row, clock, now, queue, lastCmd, history>>

CheckFrame ==
    /\ pc = "check" /\ frames # <<>>
    /\ LET fb == Head(frames) IN
          IF fb.joint \notin Joints
          THEN frames' = Tail(frames) /\ UNCHANGED <<pc, jid, lastSeen, abort>>
          ELSE /\ lastSeen' = [lastSeen EXCEPT ![fb.joint] = now]
               /\ IF fb.breach
                  THEN abort' = "breach" /\ frames' = <<>> /\ pc' = "idle" /\ jid' = 0
                  ELSE frames' = Tail(frames) /\ UNCHANGED <<pc, jid, abort>>
    /\ UNCHANGED <<row, clock, now, queue, lastCmd, history>>

\* Mutant: one row too many between two checks.
CheckDueLate == row % (CheckEvery + 1) = 0

CheckDue == row % CheckEvery = 0

FramesChecked ==
    /\ pc = "check" /\ frames = <<>>
    /\ pc' = IF CheckDue THEN "timeouts" ELSE "wait"
    /\ UNCHANGED <<row, jid, clock, now, queue, frames, lastSeen, abort, lastCmd, history>>

\* A joint never heard of is not late.
Late(j) == lastSeen[j] > 0 /\ now - lastSeen[j] > Timeout

CheckTimeouts ==
    /\ pc = "timeouts"
    /\ IF \E j \in Joints : Late(j)
       THEN abort' = "timeout" /\ pc' = "idle" /\ jid' = 0 /\ UNCHANGED <<checkedAt, checkedRow>>
       ELSE pc' = "wait" /\ checkedAt' = now /\ checkedRow' = row /\ UNCHANGED <<abort, jid>>
    /\ UNCHANGED <<row, clock, now, queue, frames, lastSeen, lastCmd, breached>>

\* tick_deadline of the row just sent.
Deadline == Start + row

\* _wait_until, and the next row or the end of the trajectory.
WaitUntil ==
    /\ pc = "wait" /\ clock >= Deadline
    /\ jid' = 0
    /\ IF row + 1 < Rows
       THEN row' = row + 1 /\ pc' = "send"
       ELSE pc' = "idle" /\ UNCHANGED row
    /\ UNCHANGED <<clock, now, queue, frames, lastSeen, abort, lastCmd, history>>

\* Ctrl-C is caught inside the try only.
Interrupt ==
    /\ Interrupts /\ pc \in InTry
    /\ abort' = "operator" /\ pc' = "idle" /\ jid' = 0
    /\ UNCHANGED <<row, clock, now, queue, frames, lastSeen, lastCmd, history>>

\* Mutant of SendIdle: the loop stops one joint early.
SendIdleShort ==
    /\ pc = "idle"
    /\ lastCmd' = [lastCmd EXCEPT ![jid] = Idle]
    /\ IF jid + 2 < NUM_JOINTS THEN jid' = jid + 1 /\ UNCHANGED pc
                               ELSE pc' = "done" /\ UNCHANGED jid
    /\ UNCHANGED <<row, clock, now, queue, frames, lastSeen, abort, history>>

\* "Idle all joints on exit", one bus.send a step.
SendIdle ==
    /\ pc = "idle"
    /\ lastCmd' = [lastCmd EXCEPT ![jid] = Idle]
    /\ IF jid + 1 < NUM_JOINTS THEN jid' = jid + 1 /\ UNCHANGED pc
                               ELSE pc' = "done" /\ UNCHANGED jid
    /\ UNCHANGED <<row, clock, now, queue, frames, lastSeen, abort, history>>

\* An exception nobody catches: from the bus anywhere, or Ctrl-C once the try
\* has been left.
Crash ==
    /\ \/ BusFails /\ pc \in {"send", "drain", "idle"}
       \/ Interrupts /\ pc = "idle"
    /\ pc' = "crashed"
    /\ UNCHANGED <<row, jid, clock, now, queue, frames, lastSeen, abort, lastCmd, history>>

Exited == pc \in Ended /\ UNCHANGED vars

Run == SendRow \/ Drain \/ CheckFrame \/ FramesChecked \/ CheckTimeouts
       \/ WaitUntil \/ SendIdle

Next ==
    \/ TimePasses
    \/ \E frame \in FeedbackFrame : FeedbackArrives(frame)
    \/ SendRow \/ Drain \/ CheckFrame \/ FramesChecked \/ CheckTimeouts
    \/ WaitUntil \/ SendIdle
    \/ Interrupt \/ Crash
    \/ Exited

Spec == Init /\ [][Next]_vars

\* The interpreter goes on running run(), and time goes on.
FairSpec == Spec /\ WF_vars(Run) /\ WF_vars(TimePasses)

-----------------------------------------------------------------------------
(* Properties *)

AllIdle == \A j \in Joints : lastCmd[j] = Idle

\* From the moment a frame that breaches a limit has been received no joint is
\* sent another row of the trajectory, whatever else was received with it
\* (hil_runner.py:246-262).
NoRowAfterBreach ==
    [][breached => \A j \in Joints : lastCmd'[j] \in {lastCmd[j], Idle}]_vars

\* A run that comes to its end has idled every joint, and one that received a
\* breach does not report success (hil_runner.py:282-300).
IdleOnDone == pc = "done" => AllIdle /\ (breached => abort # "none")

\* A joint that was heard once and falls silent was still in time at the last
\* check, and that check is less than CheckEvery rows old when the runner waits
\* (hil_runner.py:163-167, 264-269).
SilenceNoticed ==
    pc = "wait" =>
        /\ row - checkedRow < CheckEvery
        /\ \A j \in Joints : lastSeen[j] > 0 => checkedAt - lastSeen[j] <= Timeout

\* A breach that was received idles the arm, unless an exception ends the
\* program (hil_runner.py:254-262, 282-291).
BreachIdlesArm == breached ~> (AllIdle \/ pc = "crashed")
=============================================================================
