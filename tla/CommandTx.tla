------------------------------ MODULE CommandTx ------------------------------
(***************************************************************************)
(* How the command frames of a tick reach the bus: the loop of              *)
(* ArmController::tick over its joints, JointController's transmit whose    *)
(* result is ignored, CanDriver::transmit (firmware/drivers/can_driver.cpp) *)
(* and, as an external part, the transmit mailboxes of the CAN peripheral   *)
(* with the bus that empties them.                                          *)
(*                                                                         *)
(* The peripheral sends the pending frame with the lowest id, and of two    *)
(* with the same id the one in the lower mailbox, whichever is older.  A     *)
(* tick starts whatever the mailboxes hold.  How much they may hold is a     *)
(* matter of the bus: its speed and its other traffic leave it the time for  *)
(* Window frames from one loop's end to the next tick, or for more.          *)
(***************************************************************************)
EXTENDS Integers, FiniteSets

CONSTANTS
    N,            \* joints, 7 in the code, with ids 0 .. N - 1
    Mailboxes,    \* 3 of them in the peripheral, numbered from 1
    MaxTicks,     \* bound: ticks of a run
    Window        \* frames the bus has the time for between two ticks' loops

ASSUME SizeAssumption ==
    /\ N \in Nat \ {0} /\ MaxTicks \in Nat /\ Mailboxes \in Nat \ {0}
    /\ Window \in Nat

Ids == 0 .. N - 1
Slots == 1 .. Mailboxes
Empty == [joint |-> -1, tick |-> 0]

VARIABLES
    next,      \* the joint whose frame the loop sends next; N between two ticks
    tick,      \* ticks begun so far
    mail,      \* the frame in each mailbox, or Empty
    accepted,  \* history: the joints whose frame of this tick was accepted
    received,  \* history: the tick of the last command each joint received
    emptied    \* mailboxes emptied since the loop ended, up to Window

txVars == <<next, tick, mail, accepted, received, emptied>>

Frame == [joint : Ids, tick : 1 .. MaxTicks]

TxTypeOK ==
    /\ next \in 0 .. N
    /\ tick \in 0 .. MaxTicks
    /\ mail \in [Slots -> Frame \cup {Empty}]
    /\ accepted \subseteq Ids
    /\ received \in [Ids -> 0 .. MaxTicks]
    /\ emptied \in 0 .. Window

TxInit ==
    /\ next = N /\ tick = 0
    /\ mail = [m \in Slots |-> Empty]
    /\ accepted = {}
    /\ received = [j \in Ids |-> 0]
    /\ emptied = 0

Free == {m \in Slots : mail[m] = Empty}

\* The time from a loop's end to the next tick has gone by: the bus has sent
\* what it can in it, or has nothing left to send.
WindowOver == emptied = Window \/ Free = Slots

\* Mutant of BeginTick: the loop starts at joint 1.
BeginTickFromOne ==
    /\ next = N /\ tick < MaxTicks /\ WindowOver
    /\ next' = 1 /\ tick' = tick + 1 /\ accepted' = {} /\ emptied' = 0
    /\ UNCHANGED <<mail, received>>

\* The timer starts the next tick.
BeginTick ==
    /\ next = N /\ tick < MaxTicks /\ WindowOver
    /\ next' = 0 /\ tick' = tick + 1 /\ accepted' = {} /\ emptied' = 0
    /\ UNCHANGED <<mail, received>>

\* A free mailbox takes the frame: HAL_OK.
TransmitOk ==
    /\ next < N
    /\ \E m \in Free :
          /\ \A k \in Free : m <= k
          /\ mail' = [mail EXCEPT ![m] = [joint |-> next, tick |-> tick]]
    /\ accepted' = accepted \cup {next}
    /\ next' = next + 1
    /\ UNCHANGED <<tick, received, emptied>>

\* Mutant of TransmitFull: the last mailbox's frame is replaced.
TransmitReplaces ==
    /\ next < N /\ Free = {}
    /\ mail' = [mail EXCEPT ![1] = [joint |-> next, tick |-> tick]]
    /\ accepted' = accepted \cup {next}
    /\ next' = next + 1
    /\ UNCHANGED <<tick, received, emptied>>

\* All mailboxes are busy: HAL_ERROR, transmit returns false, nobody looks.
TransmitFull ==
    /\ next < N /\ Free = {}
    /\ next' = next + 1
    /\ UNCHANGED <<tick, mail, accepted, received, emptied>>

\* Mutant: the ids count down from the last joint's.
BeforeDownwards(m, k) ==
    \/ mail[m].joint > mail[k].joint
    \/ mail[m].joint = mail[k].joint /\ m <= k

\* Of two pending frames, the one the peripheral sends first.
Before(m, k) ==
    \/ mail[m].joint < mail[k].joint
    \/ mail[m].joint = mail[k].joint /\ m <= k

\* One frame goes out on the bus and its joint takes it.
BusSends ==
    /\ \E m \in Slots \ Free :
          /\ \A k \in Slots \ Free : Before(m, k)
          /\ mail' = [mail EXCEPT ![m] = Empty]
          /\ received' = [received EXCEPT ![mail[m].joint] = mail[m].tick]
    /\ emptied' = IF next = N /\ emptied < Window THEN emptied + 1 ELSE emptied
    /\ UNCHANGED <<next, tick, accepted>>

Done == next = N /\ tick = MaxTicks /\ Free = Slots /\ UNCHANGED txVars

TxNext == BeginTick \/ TransmitOk \/ TransmitFull \/ BusSends \/ Done

TxSpec == TxInit /\ [][TxNext]_txVars

\* The bus goes on sending and the timer goes on ticking.
FairTxSpec ==
    /\ TxSpec
    /\ WF_txVars(BusSends)
    /\ WF_txVars(BeginTick)
    /\ WF_txVars(TransmitOk \/ TransmitFull)

-----------------------------------------------------------------------------
(* Properties *)

\* The joints whose frames are never left over for the next tick: those with the
\* lowest ids, as many as the bus has the time for, and all of them once it has
\* the time for all mailboxes.
InTime == {j \in Ids : j < Window \/ Mailboxes <= Window}

\* Although frames of other joints may still be pending when a tick starts, a
\* joint in time never receives an older command after a newer one
\* (arm_controller.cpp:68-70, can_driver.cpp:41-46).
NoStaleCommand == [][\A j \in InTime : received[j] <= received'[j]]_received

\* The frames left over take mailboxes from the joints of the next tick, but not
\* from the first Window of them (arm_controller.cpp:68-70, can_driver.cpp:42-46).
FirstJointsServed ==
    next = N /\ tick > 0 => {j \in Ids : j < Mailboxes /\ j < Window} \subseteq accepted

\* A frame of a joint in time that the peripheral accepted reaches its joint, and
\* no older one takes its place (arm_controller.cpp:68-70, can_driver.cpp:41-46).
AcceptedIsReceived ==
    \A j \in InTime, t \in 1 .. MaxTicks :
        (tick = t /\ j \in accepted) ~> (received[j] >= t)

\* can_bus_map.md:31 "Sent every 1 ms (1 kHz) for every joint".
EveryJointCommanded == next = N /\ tick > 0 => accepted = Ids
=============================================================================
