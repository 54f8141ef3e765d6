------------------------------ MODULE BusProofs ------------------------------
(***************************************************************************)
(* What goes over the buses.  On the CAN bus, its two masters: what the HIL  *)
(* runner sends and when, for any trajectory and any frames that come back, *)
(* and the command frames of the firmware, for any numbers of joints and    *)
(* mailboxes.  On the SPI bus, the encoder and its driver, for any angles.  *)
(***************************************************************************)
EXTENDS HilRunner, CommandTx, As5047p, SequenceTheorems, FiniteSetTheorems, TLAPS

(* The inductive invariant *)

\* A check uses the time of its row, which is in the past.
Times == checkedAt <= now /\ now <= clock

\* At the last check every joint that had been heard was in time.
Heard == \A j \in Joints : lastSeen[j] > 0 => checkedAt - lastSeen[j] <= Timeout

\* The last check was of a row it is due for, and no such row has been passed.
Checked ==
    /\ checkedRow % CheckEvery = 0
    /\ row - checkedRow <= CheckEvery
    /\ pc = "timeouts" => CheckDue
    /\ pc = "wait" => row - checkedRow < CheckEvery

\* A breach that was received is still to be looked at, or the loop was left for it.
BreachSeen ==
    breached =>
        \/ /\ pc = "check"
           /\ \E i \in DOMAIN frames : frames[i].joint \in Joints /\ frames[i].breach
        \/ pc \in {"idle"} \cup Ended /\ abort # "none"

\* The idle loop has reached the joints before the one it is at.
IdleLoop ==
    /\ pc = "idle" => \A j \in Joints : j < jid => lastCmd[j] = Idle
    /\ pc = "done" => AllIdle

Inv == TypeOK /\ Times /\ Heard /\ Checked /\ BreachSeen /\ IdleLoop

\* The next row a check is due for is CheckEvery rows after the last one.
LEMMA DueAgain ==
    ASSUME NEW a \in Nat, NEW b \in Nat, NEW n \in Nat \ {0},
           a % n = 0, b % n # 0, b - a <= n
    PROVE  b - a < n
<1> SUFFICES ASSUME b = a + n PROVE FALSE
  OBVIOUS
<1> DEFINE p == a \div n
           q == b \div n
           r == b % n
<1>1. p \in Int /\ a = n * p
  BY Z3
<1>2. q \in Int /\ r \in 0 .. n - 1 /\ b = r + n * q
  BY Z3
<1> HIDE DEF p, q, r
<1>3. r = n * (p + 1 - q)
  BY <1>1, <1>2
<1>4. p + 1 - q <= 0 \/ p + 1 - q >= 1
  BY <1>1, <1>2
<1>5. n * (p + 1 - q) <= 0 \/ n * (p + 1 - q) >= n
  BY <1>1, <1>2, <1>4
<1>6. r = 0
  BY <1>2, <1>3, <1>5
<1> QED
  BY <1>6 DEF r

\* The invariant holds when run() enters its loop.
LEMMA InitInv == Init => Inv
<1> SUFFICES ASSUME Init PROVE Inv
  OBVIOUS
<1> USE RunnerAssumption
<1>1. 0 \in Joints /\ 0 \in 0 .. Rows - 1 /\ Start \in Start .. Start + MaxTime
      /\ 0 \in 0 .. Start + MaxTime /\ None \in None .. Idle
  BY DEF Joints, Start, None, Idle
<1>2. <<>> \in Seq(FeedbackFrame) /\ Len(<<>>) <= MaxQueue
  BY EmptySeq
<1>3. TypeOK
  BY <1>1, <1>2 DEF Init, TypeOK, InTry
<1>4. Times /\ Heard /\ BreachSeen /\ IdleLoop
  BY DEF Init, Times, Heard, BreachSeen, IdleLoop, Start
<1>5. Checked
  BY DEF Init, Checked
<1> QED
  BY <1>3, <1>4, <1>5 DEF Inv

-----------------------------------------------------------------------------
(* Types *)

\* Every step keeps the types.
LEMMA TypeStep == TypeOK /\ [Next]_vars => TypeOK'
<1> SUFFICES ASSUME TypeOK, [Next]_vars PROVE TypeOK'
  OBVIOUS
<1> USE RunnerAssumption DEF TypeOK, history
<1>0. 0 \in Joints /\ (jid + 1 < NUM_JOINTS => jid + 1 \in Joints)
  BY DEF Joints
<1>1. CASE TimePasses
  BY <1>1 DEF TimePasses, Start
<1>2. ASSUME NEW frame \in FeedbackFrame, FeedbackArrives(frame) PROVE TypeOK'
  <2>1. queue' \in Seq(FeedbackFrame) /\ Len(queue') = Len(queue) + 1
    BY <1>2 DEF FeedbackArrives
  <2>2. Len(queue) \in Nat
    BY LenProperties
  <2> QED
    BY <1>2, <2>1, <2>2 DEF FeedbackArrives
<1>3. CASE SendRow
  <2>1. lastCmd' \in [Joints -> None .. Idle]
    BY <1>3 DEF SendRow, None, Idle
  <2> QED
    BY <1>3, <1>0, <2>1 DEF SendRow, InTry
<1>4. CASE Drain
  <2>1. <<>> \in Seq(FeedbackFrame) /\ Len(<<>>) <= MaxQueue
    BY EmptySeq
  <2>2. breached' \in BOOLEAN
    BY <1>4, Zenon DEF Drain
  <2> QED
    BY <1>4, <2>1, <2>2 DEF Drain, InTry
<1>5. CASE CheckFrame
  <2>1. Head(frames) \in FeedbackFrame /\ Tail(frames) \in Seq(FeedbackFrame)
        /\ <<>> \in Seq(FeedbackFrame)
    BY <1>5, HeadTailProperties, EmptySeq DEF CheckFrame
  <2>2. lastSeen' \in [Joints -> 0 .. Start + MaxTime]
    <3>1. lastSeen' = lastSeen \/ lastSeen' = [lastSeen EXCEPT ![Head(frames).joint] = now]
      BY <1>5 DEF CheckFrame
    <3>2. now \in 0 .. Start + MaxTime
      BY DEF Start
    <3> QED
      BY <3>1, <3>2
  <2>3. frames' \in Seq(FeedbackFrame) /\ jid' \in Joints
        /\ pc' \in {"check", "idle"} /\ abort' \in {"none", "breach", "timeout", "operator"}
    BY <1>5, <1>0, <2>1 DEF CheckFrame
  <2> QED
    BY <1>5, <2>2, <2>3 DEF CheckFrame, InTry
<1>6. CASE FramesChecked
  BY <1>6 DEF FramesChecked, InTry
<1>7. CASE CheckTimeouts
  BY <1>7, <1>0 DEF CheckTimeouts, InTry
<1>8. CASE WaitUntil
  BY <1>8, <1>0 DEF WaitUntil, InTry
<1>9. CASE SendIdle
  <2>1. lastCmd' \in [Joints -> None .. Idle]
    BY <1>9 DEF SendIdle, None, Idle
  <2> QED
    BY <1>9, <1>0, <2>1 DEF SendIdle, Ended
<1>10. CASE Interrupt
  BY <1>10, <1>0 DEF Interrupt
<1>11. CASE Crash
  BY <1>11 DEF Crash, Ended
<1>12. CASE Exited \/ UNCHANGED vars
  BY <1>12 DEF Exited, vars
<1> QED
  BY <1>1, <1>2, <1>3, <1>4, <1>5, <1>6, <1>7, <1>8, <1>9, <1>10, <1>11, <1>12 DEF Next

-----------------------------------------------------------------------------
(* The timeouts *)

\* Time goes on, and a row's time is taken once its commands are out.
LEMMA TimesStep == TypeOK /\ Times /\ [Next]_vars => Times'
<1> SUFFICES ASSUME TypeOK, Times, [Next]_vars PROVE Times'
  OBVIOUS
<1> USE DEF Times, TypeOK, history
<1>1. CASE TimePasses
  BY <1>1 DEF TimePasses
<1>2. CASE SendRow
  BY <1>2 DEF SendRow
<1>3. CASE CheckTimeouts
  BY <1>3 DEF CheckTimeouts
<1>4. CASE UNCHANGED <<checkedAt, now, clock>>
  BY <1>4
<1> QED
  BY <1>1, <1>2, <1>3, <1>4 DEF Next, vars, FeedbackArrives, Drain, CheckFrame,
     FramesChecked, WaitUntil, SendIdle, Interrupt, Crash, Exited

\* A check that finds nobody late starts the count anew; a frame that was
\* received later only helps.
LEMMA HeardStep == TypeOK /\ Times /\ Heard /\ [Next]_vars => Heard'
<1> SUFFICES ASSUME TypeOK, Times, Heard, [Next]_vars PROVE Heard'
  OBVIOUS
<1> USE RunnerAssumption DEF Heard, TypeOK, history
<1>1. CASE CheckFrame
  <2>1. UNCHANGED checkedAt /\ (lastSeen' = lastSeen
                                \/ lastSeen' = [lastSeen EXCEPT ![Head(frames).joint] = now])
    BY <1>1 DEF CheckFrame
  <2>2. checkedAt - now <= Timeout
    BY DEF Times, Start
  <2> QED
    BY <2>1, <2>2
<1>2. CASE CheckTimeouts
  <2>1. CASE \E j \in Joints : Late(j)
    BY <1>2, <2>1 DEF CheckTimeouts
  <2>2. CASE \A j \in Joints : ~Late(j)
    <3>1. checkedAt' = now /\ UNCHANGED lastSeen
      BY <1>2, <2>2 DEF CheckTimeouts
    <3>2. \A j \in Joints : lastSeen[j] > 0 => ~(now - lastSeen[j] > Timeout)
      BY <2>2 DEF Late
    <3> QED
      BY <3>1, <3>2 DEF Start
  <2> QED
    BY <2>1, <2>2
<1>3. CASE UNCHANGED <<checkedAt, lastSeen>>
  BY <1>3
<1> QED
  BY <1>1, <1>2, <1>3 DEF Next, vars, TimePasses, FeedbackArrives, SendRow, Drain,
     FramesChecked, WaitUntil, SendIdle, Interrupt, Crash, Exited

\* A row that a check is due for is not passed without one.
LEMMA CheckedStep == TypeOK /\ Checked /\ [Next]_vars => Checked'
<1> SUFFICES ASSUME TypeOK, Checked, [Next]_vars PROVE Checked'
  OBVIOUS
<1> USE DEF Checked, history, CheckDue
<1>0. row \in Nat /\ checkedRow \in Nat /\ CheckEvery \in Nat \ {0}
  BY RunnerAssumption DEF TypeOK
<1>1. CASE FramesChecked
  <2>1. UNCHANGED <<row, checkedRow>> /\ pc' = IF row % CheckEvery = 0 THEN "timeouts" ELSE "wait"
    BY <1>1 DEF FramesChecked
  <2>2. row % CheckEvery # 0 => row - checkedRow < CheckEvery
    BY <1>0, DueAgain
  <2> QED
    BY <2>1, <2>2
<1>2. CASE CheckTimeouts
  <2>1. CASE \E j \in Joints : Late(j)
    BY <1>2, <2>1 DEF CheckTimeouts
  <2>2. CASE \A j \in Joints : ~Late(j)
    <3>1. pc = "timeouts" /\ pc' = "wait" /\ checkedRow' = row /\ row' = row
      BY <1>2, <2>2 DEF CheckTimeouts
    <3>2. row - row < CheckEvery /\ row - row <= CheckEvery
      BY <1>0
    <3> QED
      BY <3>1, <3>2
  <2> QED
    BY <2>1, <2>2
<1>3. CASE WaitUntil
  <2>1. UNCHANGED checkedRow /\ (row' = row \/ row' = row + 1) /\ pc' \in {"send", "idle"}
        /\ row - checkedRow < CheckEvery
    BY <1>3 DEF WaitUntil
  <2>2. row - checkedRow <= CheckEvery /\ row + 1 - checkedRow <= CheckEvery
    BY <1>0, <2>1
  <2>3. row' - checkedRow' <= CheckEvery /\ checkedRow' % CheckEvery = 0
    BY <1>0, <2>1, <2>2
  <2> QED
    BY <2>1, <2>3
<1>4. CASE SendRow
  BY <1>4 DEF SendRow
<1>5. CASE CheckFrame
  BY <1>5 DEF CheckFrame
<1>6. CASE SendIdle
  BY <1>6 DEF SendIdle
<1>7. CASE /\ UNCHANGED <<row, checkedRow>>
           /\ UNCHANGED pc \/ pc' \notin {"timeouts", "wait"}
  BY <1>7
<1> QED
  BY <1>1, <1>2, <1>3, <1>4, <1>5, <1>6, <1>7 DEF Next, vars, TimePasses, FeedbackArrives,
     Drain, Interrupt, Crash, Exited

-----------------------------------------------------------------------------
(* The breach *)

\* A frame that breaches a limit is not lost on the way to the loop's end.
LEMMA BreachStep == TypeOK /\ BreachSeen /\ [Next]_vars => BreachSeen'
<1> SUFFICES ASSUME TypeOK, BreachSeen, [Next]_vars PROVE BreachSeen'
  OBVIOUS
<1> USE DEF BreachSeen, history, Ended
<1>1. CASE Drain
  <2>1. CASE breached
    BY <1>1, <2>1 DEF Drain
  <2>2. CASE ~breached
    BY <1>1, <2>2 DEF Drain
  <2> QED
    BY <2>1, <2>2 DEF TypeOK
<1>2. CASE CheckFrame
  <2> SUFFICES ASSUME breached PROVE BreachSeen'
    BY <1>2 DEF CheckFrame
  <2> DEFINE fb == Head(frames)
  <2>1. pc = "check" /\ frames # <<>> /\ UNCHANGED breached
    BY <1>2 DEF CheckFrame
  <2>2. PICK i \in DOMAIN frames : frames[i].joint \in Joints /\ frames[i].breach
    BY <2>1
  <2>3. /\ frames \in Seq(FeedbackFrame) /\ DOMAIN frames = 1 .. Len(frames)
        /\ Len(frames) \in Nat /\ fb = frames[1]
        /\ Tail(frames) \in Seq(FeedbackFrame) /\ Len(Tail(frames)) = Len(frames) - 1
        /\ \A k \in 1 .. Len(frames) - 1 : Tail(frames)[k] = frames[k + 1]
    BY <2>1, HeadTailProperties, LenProperties DEF TypeOK
  <2>4. CASE fb.joint \in Joints /\ fb.breach
    BY <1>2, <2>4 DEF CheckFrame
  <2>5. CASE ~(fb.joint \in Joints /\ fb.breach)
    <3>1. frames' = Tail(frames) /\ pc' = "check"
      BY <1>2, <2>1, <2>5 DEF CheckFrame
    <3>2. i # 1 /\ i - 1 \in 1 .. Len(frames) - 1 /\ Tail(frames)[i - 1] = frames[i]
      BY <2>2, <2>3, <2>5
    <3>3. i - 1 \in DOMAIN Tail(frames)
      BY <2>3, <3>2, LenProperties
    <3> QED
      BY <2>2, <3>1, <3>2, <3>3
  <2> QED
    BY <2>4, <2>5
<1>3. CASE FramesChecked
  <2>1. frames = <<>> /\ pc = "check" /\ UNCHANGED breached
    BY <1>3 DEF FramesChecked
  <2>2. DOMAIN frames = {}
    BY <2>1
  <2> QED
    BY <2>1, <2>2
<1>4. CASE Interrupt
  BY <1>4 DEF Interrupt
<1>5. CASE SendRow \/ CheckTimeouts \/ WaitUntil
  BY <1>5 DEF SendRow, CheckTimeouts, WaitUntil
<1>6. CASE SendIdle \/ Crash
  BY <1>6 DEF SendIdle, Crash
<1>7. CASE UNCHANGED <<pc, frames, abort, breached>>
  BY <1>7
<1> QED
  BY <1>1, <1>2, <1>3, <1>4, <1>5, <1>6, <1>7 DEF Next, vars, TimePasses, FeedbackArrives, Exited

\* The idle loop starts at joint 0 and ends after the last one.
LEMMA IdleStep == TypeOK /\ IdleLoop /\ [Next]_vars => IdleLoop'
<1> SUFFICES ASSUME TypeOK, IdleLoop, [Next]_vars PROVE IdleLoop'
  OBVIOUS
<1> USE RunnerAssumption DEF IdleLoop, AllIdle, Joints
<1>1. CASE SendIdle
  <2>1. pc = "idle" /\ lastCmd' = [lastCmd EXCEPT ![jid] = Idle]
    BY <1>1 DEF SendIdle
  <2>2. \A j \in Joints : j < jid \/ j = jid => lastCmd'[j] = Idle
    BY <2>1 DEF TypeOK
  <2>3. CASE jid + 1 < NUM_JOINTS
    <3>1. pc' = "idle" /\ jid' = jid + 1
      BY <1>1, <2>1, <2>3 DEF SendIdle
    <3> QED
      BY <2>2, <3>1 DEF TypeOK
  <2>4. CASE ~(jid + 1 < NUM_JOINTS)
    <3>1. pc' = "done"
      BY <1>1, <2>4 DEF SendIdle
    <3> QED
      BY <2>2, <2>4, <3>1 DEF TypeOK
  <2> QED
    BY <2>3, <2>4
<1>2. CASE pc' # "done" /\ (pc' = "idle" => jid' = 0)
  BY <1>2
<1>3. CASE UNCHANGED <<pc, jid, lastCmd>>
  BY <1>3
<1>4. CASE Interrupt
  BY <1>4 DEF Interrupt
<1>5. CASE CheckFrame
  BY <1>5 DEF CheckFrame
<1> QED
  BY <1>1, <1>2, <1>3, <1>4, <1>5 DEF Next, vars, TimePasses, FeedbackArrives, SendRow, Drain,
     FramesChecked, CheckTimeouts, WaitUntil, Crash, Exited

-----------------------------------------------------------------------------
(* The theorems of the runner *)

\* The runner keeps to the inductive invariant, whatever time, the bus and the
\* operator do.
THEOREM RunnerInvariance == Spec => []Inv
<1>1. Inv /\ [Next]_vars => Inv'
  BY TypeStep, TimesStep, HeardStep, CheckedStep, BreachStep, IdleStep DEF Inv
<1> QED
  BY <1>1, InitInv, PTL DEF Spec

\* From the moment a frame that breaches a limit has been received no joint is
\* sent another row, whatever was received with it and for any number of joints
\* and rows (hil_runner.py:246-262).
THEOREM NoRowAfterBreachTheorem == Spec => NoRowAfterBreach
<1> DEFINE Quiet == breached => \A j \in Joints : lastCmd'[j] \in {lastCmd[j], Idle}
<1>1. Inv /\ [Next]_vars => [Quiet]_vars
  <2> SUFFICES ASSUME Inv, [Next]_vars, breached, NEW j \in Joints
               PROVE  lastCmd'[j] \in {lastCmd[j], Idle}
    OBVIOUS
  <2>1. pc # "send"
    BY DEF Inv, BreachSeen, Ended
  <2>2. CASE SendIdle
    BY <2>2 DEF SendIdle, Inv, TypeOK
  <2>3. CASE UNCHANGED lastCmd
    BY <2>3
  <2> QED
    BY <2>1, <2>2, <2>3 DEF Next, vars, TimePasses, FeedbackArrives, SendRow, Drain, CheckFrame,
       FramesChecked, CheckTimeouts, WaitUntil, Interrupt, Crash, Exited
<1> QED
  BY <1>1, RunnerInvariance, PTL DEF Spec, NoRowAfterBreach

\* A run that comes to its end has idled every joint, and one that received a
\* breach does not report success (hil_runner.py:282-300).
THEOREM IdleOnDoneTheorem == Spec => []IdleOnDone
<1>1. Inv => IdleOnDone
  BY DEF Inv, IdleOnDone, IdleLoop, BreachSeen
<1> QED
  BY <1>1, RunnerInvariance, PTL

\* Whatever the interval between two checks, a joint that was heard once was in
\* time at a check less than that interval ago (hil_runner.py:163-167, 264-269).
THEOREM SilenceNoticedTheorem == Spec => []SilenceNoticed
<1>1. Inv => SilenceNoticed
  BY DEF Inv, SilenceNoticed, Checked, Heard
<1> QED
  BY <1>1, RunnerInvariance, PTL

-----------------------------------------------------------------------------
(* The other master: the command frames of the firmware's tick *)

Pending == Slots \ Free

\* The first Window joints find a mailbox although frames of the tick before may
\* be left over: the bus has freed as many mailboxes as it has sent frames.
Room ==
    /\ next = N => emptied <= Cardinality(Free)
    /\ next < N =>
          /\ tick > 0 /\ emptied = 0
          /\ Window <= next + Cardinality(Free) \/ Mailboxes <= next + Cardinality(Free)
    /\ tick > 0 =>
          \A j \in Ids : j < next /\ j < Mailboxes /\ j < Window => j \in accepted

\* Of the first Window joints there is at most one frame each, and the bus has
\* taken the frames with the lowest ids first.
InOrder ==
    /\ \A m \in Pending : mail[m].joint < Window => mail[m].joint < next
    /\ \A m, k \in Pending :
          mail[m].joint = mail[k].joint /\ mail[m].joint < Window => m = k
    /\ next = N => \A m \in Pending : emptied <= mail[m].joint

\* What waits for the bus for a joint in time is of this tick, and what has been
\* received is no newer.
Fresh ==
    /\ \A m \in Pending : mail[m].joint \in InTime => mail[m].tick = tick
    /\ \A j \in InTime : received[j] <= tick

TxInv == TxTypeOK /\ Room /\ InOrder /\ Fresh

\* A frame that waits in a mailbox is a frame.
LEMMA MailType ==
    ASSUME TxTypeOK, NEW m \in Pending
    PROVE  mail[m].joint \in Ids /\ mail[m].tick \in 1 .. MaxTicks
BY DEF TxTypeOK, Pending, Free, Frame

\* Mailboxes can be counted.
LEMMA Counting ==
    /\ IsFiniteSet(Free) /\ Cardinality(Free) \in Nat
    /\ Cardinality(Free) <= Mailboxes
    /\ Cardinality(Free) = Mailboxes <=> Free = Slots
<1>1. IsFiniteSet(Slots) /\ Cardinality(Slots) = Mailboxes
  BY SizeAssumption, FS_Interval DEF Slots
<1>2. Free \in SUBSET Slots
  BY DEF Free
<1>3. IsFiniteSet(Free) /\ Cardinality(Free) <= Mailboxes
      /\ (Cardinality(Slots) = Cardinality(Free) => Slots = Free)
  BY <1>1, <1>2, FS_Subset
<1>4. Cardinality(Free) \in Nat
  BY <1>3, FS_CardinalityType
<1> QED
  BY <1>1, <1>3, <1>4

\* A frame that is accepted takes a mailbox.
LEMMA MailboxTaken ==
    ASSUME TxTypeOK, next < N, NEW m \in Free,
           mail' = [mail EXCEPT ![m] = [joint |-> next, tick |-> tick]]
    PROVE  /\ Pending' = Pending \cup {m} /\ m \notin Pending
           /\ mail'[m].joint = next /\ mail'[m].tick = tick
           /\ \A k \in Pending : mail'[k] = mail[k]
           /\ Cardinality(Free') = Cardinality(Free) - 1
<1>1. m \in Slots /\ mail'[m] = [joint |-> next, tick |-> tick]
      /\ \A k \in Slots : k # m => mail'[k] = mail[k]
  BY DEF Free, TxTypeOK
<1>2. next # -1
  BY SizeAssumption DEF TxTypeOK
<1>3. mail'[m] # Empty
  BY <1>1, <1>2 DEF Empty
<1>4. Free' = Free \ {m}
  BY <1>1, <1>3 DEF Free
<1>5. Pending' = Pending \cup {m} /\ m \notin Pending
  BY <1>1, <1>4 DEF Pending, Free
<1>6. Cardinality(Free') = Cardinality(Free) - 1
  BY <1>4, Counting, FS_RemoveElement
<1> QED
  BY <1>1, <1>5, <1>6 DEF Pending

\* A frame that is sent frees its mailbox.
LEMMA MailboxFreed ==
    ASSUME TxTypeOK, NEW m \in Pending, mail' = [mail EXCEPT ![m] = Empty]
    PROVE  /\ Pending' = Pending \ {m}
           /\ \A k \in Pending' : mail'[k] = mail[k]
           /\ Cardinality(Free') = Cardinality(Free) + 1
<1>1. m \in Slots /\ mail'[m] = Empty
      /\ \A k \in Slots : k # m => mail'[k] = mail[k]
  BY DEF Pending, TxTypeOK
<1>2. Free' = Free \cup {m} /\ m \notin Free
  BY <1>1 DEF Free, Pending
<1>3. Pending' = Pending \ {m}
  BY <1>2 DEF Pending
<1>4. Cardinality(Free') = Cardinality(Free) + 1
  BY <1>2, Counting, FS_AddElement
<1> QED
  BY <1>1, <1>3, <1>4 DEF Pending

\* When the next tick begins no frame of a joint in time is left over.
LEMMA NoneLeftOver ==
    ASSUME TxInv, next = N, WindowOver
    PROVE  /\ \A m \in Pending : mail[m].joint \notin InTime
           /\ Window <= Cardinality(Free) \/ Mailboxes <= Cardinality(Free)
<1> USE SizeAssumption
<1>1. Cardinality(Free) \in Nat /\ emptied <= Cardinality(Free)
  BY Counting DEF TxInv, Room
<1>2. CASE Free = Slots
  BY <1>2, Counting DEF Pending
<1>3. CASE emptied = Window
  <2>1. CASE Mailboxes <= Window
    <3>1. Free = Slots
      BY <1>1, <1>3, <2>1, Counting
    <3> QED
      BY <1>2, <3>1
  <2>2. CASE ~(Mailboxes <= Window)
    <3>1. \A m \in Pending : mail[m].joint \in Ids /\ Window <= mail[m].joint
      BY <1>3, MailType DEF TxInv, InOrder
    <3>2. \A m \in Pending : ~(mail[m].joint < Window)
      BY <3>1 DEF Ids
    <3> QED
      BY <1>1, <1>3, <2>2, <3>2 DEF InTime
  <2> QED
    BY <2>1, <2>2
<1> QED
  BY <1>2, <1>3 DEF WindowOver

\* The invariant holds at power-up.
LEMMA TxStarts == TxInit => TxInv
<1> SUFFICES ASSUME TxInit PROVE TxInv
  OBVIOUS
<1>1. TxTypeOK
  BY SizeAssumption DEF TxInit, TxTypeOK, Ids, Slots
<1>2. Free = Slots /\ Pending = {}
  BY DEF TxInit, Free, Pending
<1>3. Cardinality(Free) \in Nat
  BY Counting
<1>4. Room
  BY <1>3, SizeAssumption DEF TxInit, Room
<1>5. InOrder /\ Fresh
  BY <1>2, SizeAssumption DEF TxInit, InOrder, Fresh, InTime
<1> QED
  BY <1>1, <1>4, <1>5 DEF TxInv

\* Every step keeps the types of the transmit path.
LEMMA TxTypeStep ==
    TxTypeOK /\ Room /\ [TxNext]_txVars => TxTypeOK'
<1> SUFFICES ASSUME TxTypeOK, Room, [TxNext]_txVars PROVE TxTypeOK'
  OBVIOUS
<1> USE SizeAssumption DEF TxTypeOK
<1>1. CASE BeginTick
  BY <1>1 DEF BeginTick
<1>2. CASE TransmitOk
  <2>1. next \in Ids /\ next + 1 \in 0 .. N
    BY <1>2 DEF TransmitOk, Ids
  <2>2. [joint |-> next, tick |-> tick] \in Frame
    BY <1>2, <2>1 DEF TransmitOk, Frame, Room
  <2> QED
    BY <1>2, <2>1, <2>2 DEF TransmitOk
<1>3. CASE TransmitFull
  BY <1>3 DEF TransmitFull
<1>4. CASE BusSends
  BY <1>4, MailType DEF BusSends, Pending
<1>5. CASE Done \/ UNCHANGED txVars
  BY <1>5 DEF Done, txVars
<1> QED
  BY <1>1, <1>2, <1>3, <1>4, <1>5 DEF TxNext

\* The mailboxes the bus has freed are there for the first joints of the loop.
LEMMA RoomStep == TxInv /\ [TxNext]_txVars => Room'
<1> SUFFICES ASSUME TxInv, [TxNext]_txVars PROVE Room'
  OBVIOUS
<1> USE SizeAssumption DEF Room
<1>0. /\ next \in 0 .. N /\ tick \in Nat /\ emptied \in 0 .. Window
      /\ Cardinality(Free) \in Nat /\ TxTypeOK
  BY Counting DEF TxInv, TxTypeOK
<1>1. CASE BeginTick
  <2>1. Window <= Cardinality(Free) \/ Mailboxes <= Cardinality(Free)
    BY <1>1, NoneLeftOver DEF BeginTick
  <2>2. Free' = Free
    BY <1>1 DEF BeginTick, Free
  <2> QED
    BY <1>0, <1>1, <2>1, <2>2 DEF BeginTick, Ids
<1>2. CASE TransmitOk
  <2>1. PICK m \in Free : mail' = [mail EXCEPT ![m] = [joint |-> next, tick |-> tick]]
    BY <1>2 DEF TransmitOk
  <2>2. next < N /\ next' = next + 1 /\ accepted' = accepted \cup {next}
        /\ UNCHANGED <<tick, emptied>>
    BY <1>2 DEF TransmitOk
  <2>3. Cardinality(Free') = Cardinality(Free) - 1
    BY <1>0, <2>1, <2>2, MailboxTaken
  <2>4. Cardinality(Free') \in Nat
    BY <1>0, <2>3, <2>1, Counting, FS_EmptySet
  <2>5. \A j \in Ids : j < next + 1 => j < next \/ j = next
    BY <1>0 DEF Ids
  <2> QED
    BY <1>0, <2>2, <2>3, <2>4, <2>5 DEF TxInv
<1>3. CASE TransmitFull
  <2>1. next < N /\ next' = next + 1 /\ UNCHANGED <<tick, emptied, accepted, mail>>
    BY <1>3 DEF TransmitFull
  <2>2. Free' = Free /\ Cardinality(Free) = 0
    BY <1>3, FS_EmptySet DEF TransmitFull, Free
  <2>3. Window <= next \/ Mailboxes <= next
    BY <1>0, <2>1, <2>2 DEF TxInv
  <2>4. \A j \in Ids : j < next + 1 /\ j < Mailboxes /\ j < Window => j < next
    BY <1>0, <2>3 DEF Ids
  <2> QED
    BY <1>0, <2>1, <2>2, <2>3, <2>4 DEF TxInv
<1>4. CASE BusSends
  <2>1. PICK m \in Pending : mail' = [mail EXCEPT ![m] = Empty]
    BY <1>4 DEF BusSends, Pending
  <2>2. UNCHANGED <<next, tick, accepted>>
        /\ emptied' = IF next = N /\ emptied < Window THEN emptied + 1 ELSE emptied
    BY <1>4 DEF BusSends
  <2>3. Cardinality(Free') = Cardinality(Free) + 1
    BY <1>0, <2>1, MailboxFreed
  <2> QED
    BY <1>0, <2>2, <2>3 DEF TxInv
<1>5. CASE Done \/ UNCHANGED txVars
  BY <1>5 DEF Done, txVars, TxInv, Free
<1> QED
  BY <1>1, <1>2, <1>3, <1>4, <1>5 DEF TxNext

\* The loop adds the joints one after the other, the bus takes the lowest.
LEMMA InOrderStep == TxInv /\ [TxNext]_txVars => InOrder'
<1> SUFFICES ASSUME TxInv, [TxNext]_txVars PROVE InOrder'
  OBVIOUS
<1> USE SizeAssumption
<1>0. next \in 0 .. N /\ emptied \in 0 .. Window /\ TxTypeOK /\ InOrder
  BY DEF TxInv, TxTypeOK
<1>a. \A m \in Pending : mail[m].joint \in Ids
  BY <1>0, MailType
<1>1. CASE BeginTick
  <2>1. \A m \in Pending : mail[m].joint \notin InTime
    BY <1>1, NoneLeftOver DEF BeginTick
  <2>2. \A m \in Pending : ~(mail[m].joint < Window)
    BY <1>a, <2>1 DEF InTime
  <2>3. mail' = mail /\ Pending' = Pending /\ next' # N
    BY <1>0, <1>1 DEF BeginTick, Pending, Free
  <2> QED
    BY <2>2, <2>3 DEF InOrder
<1>2. CASE TransmitOk
  <2>1. PICK m \in Free : mail' = [mail EXCEPT ![m] = [joint |-> next, tick |-> tick]]
    BY <1>2 DEF TransmitOk
  <2>2. next < N /\ next' = next + 1 /\ emptied' = emptied
    BY <1>2 DEF TransmitOk
  <2>3. /\ Pending' = Pending \cup {m} /\ m \notin Pending
        /\ mail'[m].joint = next
        /\ \A k \in Pending : mail'[k] = mail[k]
    BY <1>0, <2>1, <2>2, MailboxTaken
  <2>4. emptied = 0
    BY <2>2 DEF TxInv, Room
  <2>5. \A k \in Pending : mail'[k].joint \in Ids
                           /\ (mail'[k].joint < Window => mail'[k].joint < next)
    BY <1>0, <1>a, <2>3 DEF InOrder
  <2>6. \A k \in Pending' : mail'[k].joint < Window => mail'[k].joint < next + 1
    BY <1>0, <2>3, <2>5 DEF Ids
  <2>7. \A k, l \in Pending' :
           mail'[k].joint = mail'[l].joint /\ mail'[k].joint < Window => k = l
    <3>1. \A k \in Pending : mail'[k].joint = next => ~(mail'[k].joint < Window)
      BY <1>0, <2>5
    <3>2. \A k, l \in Pending :
             mail'[k].joint = mail'[l].joint /\ mail'[k].joint < Window => k = l
      BY <1>0, <2>3 DEF InOrder
    <3> QED
      BY <2>3, <3>1, <3>2
  <2>8. \A k \in Pending' : 0 <= mail'[k].joint
    BY <1>0, <2>3, <2>5 DEF Ids
  <2> QED
    BY <2>2, <2>4, <2>6, <2>7, <2>8 DEF InOrder
<1>3. CASE TransmitFull
  <2>1. next < N /\ next' = next + 1 /\ UNCHANGED <<mail, emptied>>
    BY <1>3 DEF TransmitFull
  <2>2. Pending' = Pending /\ emptied = 0
    BY <2>1 DEF Pending, Free, TxInv, Room
  <2> QED
    BY <1>0, <1>a, <2>1, <2>2 DEF InOrder, Ids
<1>4. CASE BusSends
  <2>1. PICK m \in Pending :
           /\ \A k \in Pending : Before(m, k)
           /\ mail' = [mail EXCEPT ![m] = Empty]
    BY <1>4 DEF BusSends, Pending
  <2>2. UNCHANGED next /\ emptied' = IF next = N /\ emptied < Window THEN emptied + 1 ELSE emptied
    BY <1>4 DEF BusSends
  <2>3. Pending' = Pending \ {m} /\ \A k \in Pending' : mail'[k] = mail[k]
    BY <1>0, <2>1, MailboxFreed
  <2>4. ASSUME next = N, emptied < Window, NEW k \in Pending'
        PROVE  emptied + 1 <= mail'[k].joint
    <3>1. k \in Pending /\ k # m /\ mail'[k] = mail[k]
      BY <2>3
    <3>2. mail[m].joint \in Int /\ mail[k].joint \in Int
      BY <1>a, <2>1, <3>1 DEF Ids
    <3>3. mail[m].joint <= mail[k].joint /\ emptied <= mail[m].joint
      BY <1>0, <2>1, <2>4, <3>1, <3>2 DEF Before, InOrder
    <3>4. mail[m].joint = mail[k].joint => ~(mail[m].joint < Window)
      BY <1>0, <2>1, <3>1 DEF InOrder
    <3> QED
      BY <1>0, <2>4, <3>1, <3>2, <3>3, <3>4
  <2> QED
    BY <1>0, <2>2, <2>3, <2>4 DEF InOrder
<1>5. CASE Done \/ UNCHANGED txVars
  BY <1>0, <1>5 DEF Done, txVars, InOrder, Pending, Free
<1> QED
  BY <1>1, <1>2, <1>3, <1>4, <1>5 DEF TxNext

\* No frame of a joint in time outlives its tick.
LEMMA FreshStep == TxInv /\ [TxNext]_txVars => Fresh'
<1> SUFFICES ASSUME TxInv, [TxNext]_txVars PROVE Fresh'
  OBVIOUS
<1>0. /\ tick \in Nat /\ received \in [Ids -> 0 .. MaxTicks] /\ MaxTicks \in Nat
      /\ TxTypeOK /\ Fresh
  BY SizeAssumption DEF TxInv, TxTypeOK
<1>1. CASE BeginTick
  <2>1. \A m \in Pending : mail[m].joint \notin InTime
    BY <1>1, NoneLeftOver DEF BeginTick
  <2>2. UNCHANGED <<mail, received>> /\ Pending' = Pending /\ tick' = tick + 1
    BY <1>1 DEF BeginTick, Pending, Free
  <2>3. \A m \in Pending' : mail'[m].joint \notin InTime
    BY <2>1, <2>2
  <2>4. \A j \in InTime : received'[j] <= tick'
    BY <1>0, <2>2 DEF Fresh, InTime
  <2> QED
    BY <2>3, <2>4 DEF Fresh
<1>2. CASE TransmitOk
  <2>1. PICK m \in Free : mail' = [mail EXCEPT ![m] = [joint |-> next, tick |-> tick]]
    BY <1>2 DEF TransmitOk
  <2>2. next < N /\ UNCHANGED <<tick, received>>
    BY <1>2 DEF TransmitOk
  <2>3. /\ Pending' = Pending \cup {m} /\ mail'[m].tick = tick
        /\ \A k \in Pending : mail'[k] = mail[k]
    BY <1>0, <2>1, <2>2, MailboxTaken
  <2> QED
    BY <1>0, <2>2, <2>3 DEF Fresh, InTime
<1>3. CASE BusSends
  <2>1. PICK m \in Pending :
           /\ mail' = [mail EXCEPT ![m] = Empty]
           /\ received' = [received EXCEPT ![mail[m].joint] = mail[m].tick]
           /\ tick' = tick
    BY <1>3 DEF BusSends, Pending
  <2>2. Pending' = Pending \ {m} /\ \A k \in Pending' : mail'[k] = mail[k]
    BY <1>0, <2>1, MailboxFreed
  <2> QED
    BY <1>0, <2>1, <2>2 DEF Fresh, InTime
<1>4. CASE UNCHANGED <<tick, mail, received>>
  BY <1>0, <1>4 DEF Fresh, Pending, Free
<1> QED
  BY <1>1, <1>2, <1>3, <1>4 DEF TxNext, TransmitFull, Done, txVars

\* The transmit path keeps to its invariant.
THEOREM TxInvariance == TxSpec => []TxInv
<1>1. TxInv /\ [TxNext]_txVars => TxInv'
  BY TxTypeStep, RoomStep, InOrderStep, FreshStep DEF TxInv
<1>2. TxInit => TxInv
  BY TxStarts
<1> QED
  BY <1>1, <1>2, PTL DEF TxSpec

\* For any numbers of joints, mailboxes and frames the bus has the time for, the
\* joints whose frames find no mailbox are the last ones of the loop
\* (arm_controller.cpp:69-70, can_driver.cpp:42-46).
THEOREM FirstJointsServedTheorem == TxSpec => []FirstJointsServed
<1>1. TxInv => FirstJointsServed
  BY SizeAssumption DEF TxInv, Room, FirstJointsServed, Ids
<1> QED
  BY <1>1, TxInvariance, PTL

\* A joint in time never receives an older command after a newer one, whatever
\* the other joints left in the mailboxes (can_driver.cpp:41-46).
THEOREM NoStaleCommandTheorem == TxSpec => NoStaleCommand
<1> DEFINE Newer == \A j \in InTime : received[j] <= received'[j]
<1>1. TxInv /\ [TxNext]_txVars => [Newer]_received
  <2> SUFFICES ASSUME TxInv, TxNext, received' # received, NEW j \in InTime
               PROVE  received[j] <= received'[j]
    BY DEF txVars
  <2>1. BusSends
    BY DEF TxNext, BeginTick, TransmitOk, TransmitFull, Done, txVars
  <2>2. PICK m \in Pending :
           received' = [received EXCEPT ![mail[m].joint] = mail[m].tick]
    BY <2>1 DEF BusSends, Pending
  <2>3. /\ j \in Ids /\ received \in [Ids -> Nat]
        /\ received[j] <= tick
    BY SizeAssumption DEF TxInv, Fresh, TxTypeOK, InTime
  <2>4. mail[m].joint = j => mail[m].tick = tick
    BY <2>2 DEF TxInv, Fresh
  <2> QED
    BY <2>2, <2>3, <2>4
<1> QED
  BY <1>1, TxInvariance, PTL DEF TxSpec, NoStaleCommand

-----------------------------------------------------------------------------
(* The encoder on the SPI bus: parities *)

Bits == 0 .. 15

\* The parity of the bits of v up to bit k.
OddUpTo(v, k) == Cardinality(v \cap (0 .. k)) % 2 = 1

\* Of two numbers one apart, one is odd.
LEMMA OddAfterEven == \A n \in Nat : (n + 1) % 2 = 1 <=> ~(n % 2 = 1)
OBVIOUS

\* One more bit turns the parity over if it is set.
LEMMA OneMoreBit ==
    ASSUME NEW v, NEW k \in Nat \ {0}
    PROVE  OddUpTo(v, k) <=> ~(OddUpTo(v, k - 1) <=> k \in v)
<1> DEFINE low == v \cap (0 .. k - 1)
<1>1. IsFiniteSet(low) /\ Cardinality(low) \in Nat
  <2>1. IsFiniteSet(0 .. k - 1)
    BY FS_Interval
  <2> QED
    BY <2>1, FS_Subset, FS_CardinalityType
<1>2. k \notin low
  OBVIOUS
<1>3. CASE k \in v
  <2>1. v \cap (0 .. k) = low \cup {k}
    BY <1>3
  <2>2. Cardinality(v \cap (0 .. k)) = Cardinality(low) + 1
    BY <1>1, <1>2, <2>1, FS_AddElement
  <2> QED
    BY <1>1, <1>3, <2>2, OddAfterEven DEF OddUpTo
<1>4. CASE k \notin v
  <2>1. v \cap (0 .. k) = low
    BY <1>4
  <2> QED
    BY <1>4, <2>1 DEF OddUpTo
<1> QED
  BY <1>3, <1>4

\* The first bit alone.
LEMMA FirstBit == ASSUME NEW v PROVE OddUpTo(v, 0) <=> 0 \in v
<1>1. CASE 0 \in v
  <2>1. v \cap (0 .. 0) = {0}
    BY <1>1
  <2>2. Cardinality({0}) = 1
    BY FS_Singleton
  <2> QED
    BY <1>1, <2>1, <2>2 DEF OddUpTo
<1>2. CASE 0 \notin v
  <2>1. v \cap (0 .. 0) = {}
    BY <1>2
  <2>2. Cardinality({}) = 0
    BY FS_EmptySet
  <2> QED
    BY <1>2, <2>1, <2>2 DEF OddUpTo
<1> QED
  BY <1>1, <1>2

\* A bit of a word, exclusive or the bit k above it.
LEMMA XorBit ==
    ASSUME NEW v \in SUBSET Nat, NEW k \in Nat \ {0}
    PROVE  /\ XorShift(v, k) \in SUBSET Nat
           /\ \A i \in Nat : i \in XorShift(v, k) <=> ~(i \in v <=> i + k \in v)
<1>1. ShiftRight(v, k) \in SUBSET Nat
  BY DEF ShiftRight
<1>2. \A i \in Nat : i \in ShiftRight(v, k) <=> i + k \in v
  BY DEF ShiftRight
<1> QED
  BY <1>1, <1>2 DEF XorShift, SymDiff

\* The driver's four shifts find out whether an odd number of bits are set.
LEMMA ParityOfBits ==
    ASSUME NEW v \in SUBSET Bits
    PROVE  EvenParity(v) <=> Cardinality(v) % 2 = 1
<1> DEFINE eight == XorShift(v, 8)
           four == XorShift(eight, 4)
           two == XorShift(four, 2)
           one == XorShift(two, 1)
           odd == [k \in Bits |-> OddUpTo(v, k)]
<1>1. v \in SUBSET Nat
  BY DEF Bits
<1>2. /\ eight \in SUBSET Nat
      /\ \A i \in Nat : i \in eight <=> ~(i \in v <=> i + 8 \in v)
  <2>1. 8 \in Nat \ {0}
    OBVIOUS
  <2> QED
    BY <1>1, <2>1, XorBit
<1>3. /\ four \in SUBSET Nat
      /\ \A i \in Nat : i \in four <=> ~(i \in eight <=> i + 4 \in eight)
  <2>1. 4 \in Nat \ {0}
    OBVIOUS
  <2> HIDE DEF eight
  <2> QED
    BY <1>2, <2>1, XorBit
<1>4. /\ two \in SUBSET Nat
      /\ \A i \in Nat : i \in two <=> ~(i \in four <=> i + 2 \in four)
  <2>1. 2 \in Nat \ {0}
    OBVIOUS
  <2> HIDE DEF four
  <2> QED
    BY <1>3, <2>1, XorBit
<1>5. \A i \in Nat : i \in one <=> ~(i \in two <=> i + 1 \in two)
  <2>1. 1 \in Nat \ {0}
    OBVIOUS
  <2> HIDE DEF two
  <2> QED
    BY <1>4, <2>1, XorBit
<1>6. EvenParity(v) <=> 0 \in one
  BY DEF EvenParity
<1> HIDE DEF eight, four, two, one, odd
<1>7. /\ 0 \in eight <=> ~(0 \in v <=> 8 \in v)
      /\ 1 \in eight <=> ~(1 \in v <=> 9 \in v)
      /\ 2 \in eight <=> ~(2 \in v <=> 10 \in v)
      /\ 3 \in eight <=> ~(3 \in v <=> 11 \in v)
      /\ 4 \in eight <=> ~(4 \in v <=> 12 \in v)
      /\ 5 \in eight <=> ~(5 \in v <=> 13 \in v)
      /\ 6 \in eight <=> ~(6 \in v <=> 14 \in v)
      /\ 7 \in eight <=> ~(7 \in v <=> 15 \in v)
  BY <1>2
<1>8. /\ 0 \in four <=> ~(0 \in eight <=> 4 \in eight)
      /\ 1 \in four <=> ~(1 \in eight <=> 5 \in eight)
      /\ 2 \in four <=> ~(2 \in eight <=> 6 \in eight)
      /\ 3 \in four <=> ~(3 \in eight <=> 7 \in eight)
  BY <1>3
<1>9. /\ 0 \in two <=> ~(0 \in four <=> 2 \in four)
      /\ 1 \in two <=> ~(1 \in four <=> 3 \in four)
  BY <1>4
<1>10. 0 \in one <=> ~(0 \in two <=> 1 \in two)
  BY <1>5
<1>11. /\ odd[0] <=> 0 \in v
       /\ \A k \in 1 .. 15 : odd[k] <=> ~(odd[k - 1] <=> k \in v)
       /\ odd[15] <=> Cardinality(v) % 2 = 1
  <2>1. \A k \in 1 .. 15 : OddUpTo(v, k) <=> ~(OddUpTo(v, k - 1) <=> k \in v)
    BY OneMoreBit
  <2>2. \A k \in 0 .. 15 : odd[k] <=> OddUpTo(v, k)
    BY DEF odd, Bits
  <2>3. v \cap (0 .. 15) = v
    BY DEF Bits
  <2>4. odd[0] <=> OddUpTo(v, 0)
    BY <2>2
  <2>5. odd[15] <=> Cardinality(v \cap (0 .. 15)) % 2 = 1
    BY <2>2 DEF OddUpTo
  <2> QED
    BY <2>1, <2>2, <2>3, <2>4, <2>5, FirstBit
<1>12. /\ odd[1] <=> ~(odd[0] <=> 1 \in v)
       /\ odd[2] <=> ~(odd[1] <=> 2 \in v)
       /\ odd[3] <=> ~(odd[2] <=> 3 \in v)
       /\ odd[4] <=> ~(odd[3] <=> 4 \in v)
       /\ odd[5] <=> ~(odd[4] <=> 5 \in v)
       /\ odd[6] <=> ~(odd[5] <=> 6 \in v)
       /\ odd[7] <=> ~(odd[6] <=> 7 \in v)
       /\ odd[8] <=> ~(odd[7] <=> 8 \in v)
       /\ odd[9] <=> ~(odd[8] <=> 9 \in v)
       /\ odd[10] <=> ~(odd[9] <=> 10 \in v)
       /\ odd[11] <=> ~(odd[10] <=> 11 \in v)
       /\ odd[12] <=> ~(odd[11] <=> 12 \in v)
       /\ odd[13] <=> ~(odd[12] <=> 13 \in v)
       /\ odd[14] <=> ~(odd[13] <=> 14 \in v)
       /\ odd[15] <=> ~(odd[14] <=> 15 \in v)
  BY <1>11
<1> QED
  BY <1>6, <1>7, <1>8, <1>9, <1>10, <1>11, <1>12

\* One bit more or less turns the parity over.
LEMMA TurnedBit ==
    ASSUME NEW v \in SUBSET Bits, NEW b \in Bits
    PROVE  /\ Cardinality(v) \in Nat
           /\ Cardinality(SymDiff(v, {b})) % 2 = 1 <=> ~(Cardinality(v) % 2 = 1)
           /\ b \notin v => (Cardinality(v \cup {b}) % 2 = 1 <=> ~(Cardinality(v) % 2 = 1))
<1> DEFINE rest == v \ {b}
<1>1. /\ IsFiniteSet(rest) /\ Cardinality(rest) \in Nat
      /\ Cardinality(v) \in Nat
  <2>1. IsFiniteSet(Bits)
    <3>1. \A n \in Int : IsFiniteSet(0 .. n)
      BY FS_Interval
    <3>2. 15 \in Int
      OBVIOUS
    <3> QED
      BY <3>1, <3>2, Zenon DEF Bits
  <2>2. IsFiniteSet(v) /\ IsFiniteSet(rest)
    BY <2>1, FS_Subset
  <2> QED
    BY <2>2, FS_CardinalityType
<1>2. Cardinality(rest \cup {b}) = Cardinality(rest) + 1
  BY <1>1, FS_AddElement
<1>3. Cardinality(rest \cup {b}) % 2 = 1 <=> ~(Cardinality(rest) % 2 = 1)
  BY <1>1, <1>2, OddAfterEven
<1>4. CASE b \in v
  <2>1. v = rest \cup {b} /\ SymDiff(v, {b}) = rest
    BY <1>4 DEF SymDiff
  <2> QED
    BY <1>1, <1>3, <1>4, <2>1
<1>5. CASE b \notin v
  <2>1. v = rest /\ SymDiff(v, {b}) = rest \cup {b}
    BY <1>5 DEF SymDiff
  <2> QED
    BY <1>1, <1>3, <1>5, <2>1
<1> QED
  BY <1>4, <1>5

\* A number is even if it is not odd.
LEMMA EvenIsNotOdd == \A n \in Nat : n % 2 = 0 <=> ~(n % 2 = 1)
OBVIOUS

\* The parity bit of a word is right if it makes the bits even.
LEMMA ParityOkIsEven ==
    ASSUME NEW v \in SUBSET Bits
    PROVE  ParityOk(v) <=> ~(Cardinality(v) % 2 = 1)
<1> DEFINE body == v \ {15}
<1>1. EvenParity(body) <=> Cardinality(body) % 2 = 1
  BY ParityOfBits
<1>2. CASE 15 \in v
  <2>1. v = body \cup {15} /\ body \in SUBSET Bits /\ 15 \notin body /\ 15 \in Bits
    BY <1>2 DEF Bits
  <2> HIDE DEF body
  <2>2. Cardinality(body \cup {15}) % 2 = 1 <=> ~(Cardinality(body) % 2 = 1)
    BY <2>1, TurnedBit
  <2> QED
    BY <1>1, <1>2, <2>1, <2>2 DEF ParityOk, ParityBit, body
<1>3. CASE 15 \notin v
  <2>1. v = body
    BY <1>3
  <2> QED
    BY <1>1, <1>3, <2>1 DEF ParityOk, ParityBit
<1> QED
  BY <1>2, <1>3

\* The error flag and the parity bit are not data.
LEMMA NotData == 14 \notin Data /\ 15 \notin Data
BY DEF Data

\* The encoder takes a read command for what the driver meant.
LEMMA CommandIsTaken ==
    ASSUME NEW register \in SUBSET Data
    PROVE  Captured(ReadCmd(register)) = register
<1> DEFINE body == {14} \cup register
           command == WithParity(body)
<1>1. body \in SUBSET Bits /\ 15 \notin body /\ 15 \in Bits
  BY DEF Data, Bits
<1>2. EvenParity(body) <=> Cardinality(body) % 2 = 1
  BY <1>1, ParityOfBits
<1>3. Cardinality(body \cup {15}) % 2 = 1 <=> ~(Cardinality(body) % 2 = 1)
  BY <1>1, TurnedBit
<1>4. command \in SUBSET Bits /\ ~(Cardinality(command) % 2 = 1)
  BY <1>1, <1>2, <1>3 DEF WithParity, ParityBit
<1>5. Cardinality(command) % 2 = 0
  BY <1>1, <1>4, TurnedBit, EvenIsNotOdd
<1>6. command \cap Data = register
  <2>1. body \cap Data = register /\ (body \cup {15}) \cap Data = register
    BY NotData
  <2> QED
    BY <2>1 DEF WithParity, ParityBit
<1>7. ReadCmd(register) = command
  <2>1. register \cap Data = register
    OBVIOUS
  <2> QED
    BY <2>1 DEF ReadCmd, ErrorFlag
<1> QED
  BY <1>5, <1>6, <1>7 DEF Captured

\* A reply that passes the parity check after a turned bit at most brings the
\* data the encoder sent.
LEMMA ReplyIsSound ==
    ASSUME NEW bits \in SUBSET Data, NEW flag \in BOOLEAN,
           NEW rx \in Noisy(Reply(bits, flag)),
           ParityOk(rx)
    PROVE  rx \cap Data = bits
<1> DEFINE body == IF flag THEN bits \cup {14} ELSE bits
           word == Reply(bits, flag)
<1>1. body \in SUBSET Bits /\ 15 \notin body /\ 15 \in Bits
  BY DEF Data, Bits
<1>2. Cardinality(body \cup {15}) % 2 = 1 <=> ~(Cardinality(body) % 2 = 1)
  BY <1>1, TurnedBit
<1>3. Cardinality(body) % 2 = 0 <=> ~(Cardinality(body) % 2 = 1)
  BY <1>1, TurnedBit, EvenIsNotOdd
<1>4. word = IF Cardinality(body) % 2 = 0 THEN body ELSE body \cup {15}
  BY DEF Reply, ErrorFlag, ParityBit
<1>5. word \in SUBSET Bits /\ ~(Cardinality(word) % 2 = 1)
  BY <1>1, <1>2, <1>3, <1>4
<1>6. word \cap Data = bits
  <2>1. /\ bits \cap Data = bits
        /\ (bits \cup {14}) \cap Data = bits
    BY NotData
  <2>2. /\ body \cap Data = bits
        /\ (body \cup {15}) \cap Data = body \cap Data
    <3>1. \A S : (S \cup {15}) \cap Data = S \cap Data
      BY NotData
    <3> QED
      BY <2>1, <3>1
  <2> QED
    BY <1>4, <2>2
<1> HIDE DEF word
<1>7. ASSUME NEW b \in Bits, rx = SymDiff(word, {b}) PROVE FALSE
  <2>1. Cardinality(rx) % 2 = 1
    BY <1>5, <1>7, TurnedBit
  <2>2. rx \in SUBSET Bits
    BY <1>5, <1>7 DEF SymDiff
  <2> QED
    BY <2>1, <2>2, ParityOkIsEven
<1>8. rx = word \/ \E b \in Bits : rx = SymDiff(word, {b})
  BY DEF Noisy, Bits, word
<1> QED
  BY <1>6, <1>7, <1>8

-----------------------------------------------------------------------------
(* The encoder's driver *)

\* While read_raw runs, the error it would leave is what its replies said so
\* far, and its second transfer meets the angle in the encoder's pipeline.
RawSoFar ==
    call = "raw" =>
        /\ lastError = IF flagged THEN INVCOMM ELSE NONE
        /\ step = 2 => pending = REG_ANGLEC

EncoderInv ==
    EncoderTypeOK /\ RawSoFar /\ AngleIsSound /\ ReadRawErrorExact

LEMMA EncoderStarts == EncoderInit => EncoderInv
<1> SUFFICES ASSUME EncoderInit PROVE EncoderInv
  OBVIOUS
<1>1. NoRegister \in Registers /\ NONE \subseteq ErrorBits
  BY DEF Registers, NONE
<1>2. EncoderTypeOK
  <2>1. ret \in [call : Calls \cup {"none"}, ok : BOOLEAN, bits : SUBSET Data]
    BY DEF EncoderInit
  <2>2. sent \in [register : Registers, bits : SUBSET Data]
    BY <1>1 DEF EncoderInit
  <2>3. /\ call \in Calls \cup {"none"} /\ step \in 1 .. 2
        /\ pending \in Registers /\ damaged \in {"no", "spi", "parity"}
    BY DEF EncoderInit
  <2>4. lastError \subseteq ErrorBits
    BY <1>1 DEF EncoderInit
  <2>5. flagged \in BOOLEAN
    BY DEF EncoderInit
  <2> QED
    BY <2>1, <2>2, <2>3, <2>4, <2>5 DEF EncoderTypeOK
<1> QED
  BY <1>2 DEF EncoderInv, RawSoFar, EncoderInit, AngleIsSound,
              ReadRawErrorExact, ReadRawDone

\* The registers are different words, and so are the errors.
LEMMA RegistersDiffer ==
    /\ REG_ANGLEC # REG_ERRFL
    /\ REG_ANGLEC # REG_DIAAGC
    /\ REG_ERRFL # REG_DIAAGC
    /\ INVCOMM # NONE
<1>1. /\ 5 \in REG_ANGLEC /\ 5 \notin REG_ERRFL
      /\ 5 \notin REG_DIAAGC
  BY DEF REG_ANGLEC, REG_ERRFL, REG_DIAAGC, Data
<1>2. 1 \notin REG_ERRFL /\ 1 \in REG_DIAAGC
  BY DEF REG_ERRFL, REG_DIAAGC
<1>3. 1 \in INVCOMM /\ 1 \notin NONE
  BY DEF INVCOMM, NONE
<1> QED
  BY <1>1, <1>2, <1>3

\* What a register may hold is data.
LEMMA ContentsAreData ==
    ASSUME NEW register
    PROVE  Contents(register) \subseteq SUBSET Data
<1>1. SUBSET ErrorBits \subseteq SUBSET Data
  BY DEF ErrorBits, Data
<1>2. CASE register = REG_ANGLEC
  BY <1>2, RegistersDiffer, RegisterAssumption DEF Contents
<1>3. CASE register = REG_ERRFL
  BY <1>1, <1>3, RegistersDiffer DEF Contents
<1>4. CASE register = REG_DIAAGC
  BY <1>4, RegistersDiffer, RegisterAssumption DEF Contents
<1>5. CASE register \notin {REG_ANGLEC, REG_ERRFL, REG_DIAAGC}
  BY <1>5 DEF Contents
<1> QED
  BY <1>2, <1>3, <1>4, <1>5

\* A transfer leaves in the encoder's pipeline the register the call reads.
LEMMA RegisterIsTaken ==
    ASSUME NEW c \in Calls
    PROVE  /\ Captured(ReadCmd(RegisterOf(c))) = RegisterOf(c)
           /\ RegisterOf(c) \in Registers
           /\ c = "raw" => RegisterOf(c) = REG_ANGLEC
<1>1. /\ RegisterOf(c) \in Registers
      /\ c = "raw" => RegisterOf(c) = REG_ANGLEC
      /\ RegisterOf(c) \in {REG_ANGLEC, REG_ERRFL, REG_DIAAGC}
  BY DEF RegisterOf, Registers, Calls
<1>2. {REG_ANGLEC, REG_ERRFL, REG_DIAAGC} \subseteq SUBSET Data
  BY DEF REG_ANGLEC, REG_ERRFL, REG_DIAAGC, Data
<1> QED
  BY <1>1, <1>2, CommandIsTaken

\* Nothing happens, read_raw gives up, the first transfer is over, or the call
\* is: read_raw with the data of its last reply.
LEMMA Outcomes ==
    ASSUME NEW ok \in BOOLEAN, NEW error \in SUBSET ErrorBits, NEW words,
           call \in Calls, step \in 1 .. 2,
           AfterTransfer(ok, error, words)
    PROVE  \/ /\ call = "raw" /\ ~ok
              /\ Return(FALSE, {}) /\ lastError' = error
           \/ /\ call = "raw" => ok
              /\ step = 1 /\ step' = 2
              /\ lastError' = error /\ UNCHANGED <<call, ret>>
           \/ /\ call = "raw" /\ ok /\ step = 2
              /\ lastError' = error
              /\ \E word \in words : Return(TRUE, word \cap Data)
           \/ /\ call # "raw"
              /\ lastError' \subseteq ErrorBits
              /\ \E bits \in SUBSET Data : Return(TRUE, bits)
<1>1. CASE call = "raw" /\ ~ok
  BY <1>1 DEF AfterTransfer
<1>2. CASE ~(call = "raw" /\ ~ok) /\ step = 1
  BY <1>2 DEF AfterTransfer
<1>3. CASE ~(call = "raw" /\ ~ok) /\ step = 2
  <2>1. step # 1
    BY <1>3
  <2>2. CASE call = "raw"
    <3>1. PICK word \in words :
             Return(TRUE, word \cap Data) /\ lastError' = error
      BY <1>3, <2>1, <2>2 DEF AfterTransfer
    <3> QED
      BY <1>3, <2>2, <3>1
  <2>3. CASE call = "errors"
    <3>1. PICK word \in words :
             /\ Return(TRUE, word \cap ErrorBits)
             /\ lastError' = word \cap ErrorBits
      BY <1>3, <2>1, <2>3 DEF AfterTransfer
    <3>2. word \cap ErrorBits \in SUBSET Data
      BY DEF ErrorBits, Data
    <3> QED
      BY <2>3, <3>1, <3>2
  <2>4. CASE call = "diag"
    <3>1. PICK word \in words :
             Return(TRUE, word \cap DiagBits) /\ lastError' = error
      BY <1>3, <2>1, <2>4 DEF AfterTransfer
    <3>2. word \cap DiagBits \in SUBSET Data
      BY DEF DiagBits, Data
    <3> QED
      BY <2>4, <3>1, <3>2
  <2> QED
    BY <2>2, <2>3, <2>4 DEF Calls
<1>4. step = 1 \/ step = 2
  OBVIOUS
<1> QED
  BY <1>1, <1>2, <1>3, <1>4

\* The errors a transfer may note are error bits.
LEMMA NotedIsError ==
    ASSUME lastError \subseteq ErrorBits, NEW rx
    PROVE  /\ Noted(rx) \in SUBSET ErrorBits
           /\ FRERR \in SUBSET ErrorBits
           /\ ParityOk(rx) \in BOOLEAN
<1>1. {FRERR, PARERR, INVCOMM} \subseteq SUBSET ErrorBits
  BY DEF FRERR, PARERR, INVCOMM, ErrorBits
<1> QED
  BY <1>1 DEF Noted, ParityOk

\* What a call returns is of its type.
LEMMA ReturnType ==
    ASSUME NEW ok \in BOOLEAN, NEW bits \in SUBSET Data,
           call \in Calls, Return(ok, bits)
    PROVE  /\ call' = "none" /\ step' = 1
           /\ ret' \in [call : Calls \cup {"none"}, ok : BOOLEAN, bits : SUBSET Data]
           /\ ret'.call = call /\ ret'.ok = ok /\ ret'.bits = bits
BY DEF Return

LEMMA BeginStep ==
    ASSUME EncoderInv, NEW c \in Calls, Begin(c)
    PROVE  EncoderInv'
<1>1. c # "none" /\ call' = c
  BY DEF Begin, Calls
<1>2. EncoderTypeOK'
  <2>1. lastError' \subseteq ErrorBits
    BY DEF EncoderInv, EncoderTypeOK, Begin, NONE
  <2>2. flagged' \in BOOLEAN
    BY DEF Begin
  <2>3. step' \in 1 .. 2 /\ damaged' \in {"no", "spi", "parity"}
    BY DEF Begin
  <2>4. UNCHANGED <<pending, ret, sent>>
    BY DEF Begin
  <2> QED
    BY <1>1, <2>1, <2>2, <2>3, <2>4 DEF EncoderInv, EncoderTypeOK
<1>3. RawSoFar'
  BY DEF RawSoFar, Begin, NONE, INVCOMM, REG_ANGLEC
<1>4. AngleIsSound' /\ ReadRawErrorExact'
  BY <1>1 DEF AngleIsSound, ReadRawErrorExact, ReadRawDone
<1> QED
  BY <1>2, <1>3, <1>4 DEF EncoderInv

LEMMA FailureStep ==
    ASSUME EncoderInv, TransferFails
    PROVE  EncoderInv'
<1> DEFINE words == SUBSET (ErrorBits \cup DiagBits)
<1>1. /\ call \in Calls /\ step \in 1 .. 2
      /\ lastError \subseteq ErrorBits
      /\ AfterTransfer(FALSE, FRERR, words)
      /\ damaged' = "spi" /\ UNCHANGED <<flagged, sent>>
  BY DEF EncoderInv, EncoderTypeOK, TransferFails
<1>2. FRERR \in SUBSET ErrorBits
  BY <1>1, NotedIsError
<1>3. pending' \in Registers
  <2>1. Captured(ReadCmd(RegisterOf(call))) \in Registers
    BY <1>1, RegisterIsTaken
  <2> QED
    BY <2>1 DEF EncoderInv, EncoderTypeOK, TransferFails
<1>4. CASE /\ call = "raw"
           /\ Return(FALSE, {}) /\ lastError' = FRERR
  <2>1. /\ call' = "none" /\ step' = 1
        /\ ret' \in [call : Calls \cup {"none"}, ok : BOOLEAN, bits : SUBSET Data]
        /\ ret'.call = "raw" /\ ~ret'.ok
    BY <1>1, <1>4, ReturnType
  <2>2. EncoderTypeOK'
    BY <1>1, <1>2, <1>3, <1>4, <2>1 DEF EncoderInv, EncoderTypeOK
  <2> QED
    BY <1>1, <1>4, <2>1, <2>2
    DEF EncoderInv, RawSoFar, AngleIsSound, ReadRawErrorExact, ReadRawDone
<1>5. CASE /\ call # "raw" /\ step' = 2
           /\ lastError' = FRERR /\ UNCHANGED <<call, ret>>
  <2>1. EncoderTypeOK'
    BY <1>1, <1>2, <1>3, <1>5 DEF EncoderInv, EncoderTypeOK
  <2> QED
    BY <1>1, <1>5, <2>1
    DEF EncoderInv, RawSoFar, AngleIsSound, ReadRawErrorExact,
        ReadRawDone, Calls
<1>6. CASE /\ call # "raw"
           /\ lastError' \subseteq ErrorBits
           /\ \E bits \in SUBSET Data : Return(TRUE, bits)
  <2>1. /\ call' = "none" /\ step' = 1
        /\ ret' \in [call : Calls \cup {"none"}, ok : BOOLEAN, bits : SUBSET Data]
        /\ ret'.call # "raw"
    BY <1>1, <1>6, ReturnType
  <2>2. EncoderTypeOK'
    BY <1>1, <1>2, <1>3, <1>6, <2>1 DEF EncoderInv, EncoderTypeOK
  <2> QED
    BY <2>1, <2>2
    DEF EncoderInv, RawSoFar, AngleIsSound, ReadRawErrorExact, ReadRawDone
<1> QED
  <2> HIDE DEF words
  <2>1. FALSE \in BOOLEAN
    OBVIOUS
  <2> QED
    BY <1>1, <1>2, <1>4, <1>5, <1>6, <2>1, Outcomes

LEMMA TransferStep ==
    ASSUME EncoderInv,
           NEW bits \in Contents(pending), NEW flag \in BOOLEAN,
           NEW rx \in Noisy(Reply(bits, flag)),
           Transfer(bits, flag, rx)
    PROVE  EncoderInv'
<1> DEFINE ok == ParityOk(rx)
           error == Noted(rx)
<1>1. /\ call \in Calls /\ step \in 1 .. 2
      /\ lastError \subseteq ErrorBits /\ flagged \in BOOLEAN
      /\ AfterTransfer(ok, error, {rx})
      /\ damaged' = IF ok THEN "no" ELSE "parity"
      /\ sent' = [register |-> pending, bits |-> bits]
      /\ pending' = Captured(ReadCmd(RegisterOf(call)))
  BY DEF EncoderInv, EncoderTypeOK, Transfer
<1>2. ok \in BOOLEAN /\ error \in SUBSET ErrorBits
  BY <1>1, NotedIsError
<1>3. /\ pending' \in Registers
      /\ call = "raw" => pending' = REG_ANGLEC
  BY <1>1, RegisterIsTaken
<1>4. bits \in SUBSET Data
  BY ContentsAreData
<1>5. /\ sent' \in [register : Registers, bits : SUBSET Data]
      /\ sent'.register = pending /\ sent'.bits = bits
  BY <1>1, <1>4 DEF EncoderInv, EncoderTypeOK
<1>6. flagged' \in BOOLEAN /\ damaged' \in {"no", "spi", "parity"}
  <2>1. flagged' \in BOOLEAN
    BY DEF Transfer
  <2> QED
    BY <1>1, <2>1
\* What read_raw notes of a reply that passed the check, and of one that did not.
<1>7. call = "raw" =>
        /\ ok => error = IF flagged' THEN INVCOMM ELSE NONE
        /\ ~ok => error = PARERR
  <2>1. flagged' <=> flagged \/ (ok /\ ErrorFlag \in rx)
    BY DEF Transfer
  <2> QED
    BY <2>1, RegistersDiffer DEF EncoderInv, RawSoFar, Noted
<1>8. ASSUME call' = "none", step' = 1, lastError' \subseteq ErrorBits,
             ret' \in [call : Calls \cup {"none"}, ok : BOOLEAN, bits : SUBSET Data]
      PROVE  EncoderTypeOK'
  BY <1>3, <1>5, <1>6, <1>8 DEF EncoderTypeOK
<1> HIDE DEF error
<1>9. CASE /\ call = "raw" /\ ~ok
           /\ Return(FALSE, {}) /\ lastError' = error
  <2>1. /\ call' = "none" /\ step' = 1
        /\ ret' \in [call : Calls \cup {"none"}, ok : BOOLEAN, bits : SUBSET Data]
        /\ ret'.call = "raw" /\ ~ret'.ok
    BY <1>1, <1>9, ReturnType
  <2>2. EncoderTypeOK'
    BY <1>2, <1>8, <1>9, <2>1
  <2> QED
    BY <1>1, <1>7, <1>9, <2>1, <2>2
    DEF EncoderInv, RawSoFar, AngleIsSound, ReadRawErrorExact, ReadRawDone
<1>10. CASE /\ call = "raw" => ok
            /\ step = 1 /\ step' = 2
            /\ lastError' = error /\ UNCHANGED <<call, ret>>
  <2>1. EncoderTypeOK'
    BY <1>1, <1>2, <1>3, <1>5, <1>6, <1>10 DEF EncoderInv, EncoderTypeOK
  <2>2. call' # "none"
    BY <1>1, <1>10 DEF Calls
  <2>3. RawSoFar'
    BY <1>3, <1>7, <1>10 DEF RawSoFar, INVCOMM, NONE, REG_ANGLEC
  <2> QED
    BY <2>1, <2>2, <2>3
    DEF EncoderInv, AngleIsSound, ReadRawErrorExact, ReadRawDone
<1>11. CASE /\ call = "raw" /\ ok /\ step = 2
            /\ lastError' = error
            /\ \E word \in {rx} : Return(TRUE, word \cap Data)
  <2>1. Return(TRUE, rx \cap Data)
    BY <1>11
  <2>2. rx \cap Data = bits
    BY <1>4, <1>11, ReplyIsSound
  <2>3. /\ call' = "none" /\ step' = 1
        /\ ret' \in [call : Calls \cup {"none"}, ok : BOOLEAN, bits : SUBSET Data]
        /\ ret'.call = "raw" /\ ret'.bits = bits
    BY <1>1, <1>4, <1>11, <2>1, <2>2, ReturnType
  <2>4. EncoderTypeOK'
    BY <1>2, <1>8, <1>11, <2>3
  <2>5. sent'.register = REG_ANGLEC
    BY <1>5, <1>11 DEF EncoderInv, RawSoFar
  <2>6. AngleIsSound'
    BY <1>5, <2>3, <2>5 DEF AngleIsSound, REG_ANGLEC
  <2>7. ReadRawErrorExact'
    BY <1>1, <1>7, <1>11 DEF ReadRawErrorExact, INVCOMM, NONE
  <2> QED
    BY <2>3, <2>4, <2>6, <2>7 DEF EncoderInv, RawSoFar
<1>12. CASE /\ call # "raw"
            /\ lastError' \subseteq ErrorBits
            /\ \E b \in SUBSET Data : Return(TRUE, b)
  <2>1. /\ call' = "none" /\ step' = 1
        /\ ret' \in [call : Calls \cup {"none"}, ok : BOOLEAN, bits : SUBSET Data]
        /\ ret'.call # "raw"
    BY <1>1, <1>12, ReturnType
  <2>2. EncoderTypeOK'
    BY <1>8, <1>12, <2>1
  <2> QED
    BY <2>1, <2>2
    DEF EncoderInv, RawSoFar, AngleIsSound, ReadRawErrorExact, ReadRawDone
<1> QED
  <2> HIDE DEF ok
  <2> QED
    BY <1>1, <1>2, <1>9, <1>10, <1>11, <1>12, Outcomes

\* The driver keeps to its invariant for any contents of the registers.
THEOREM EncoderInvariance == EncoderSpec => []EncoderInv
<1>1. EncoderInv /\ [EncoderNext]_encoderVars => EncoderInv'
  <2> SUFFICES ASSUME EncoderInv, [EncoderNext]_encoderVars PROVE EncoderInv'
    OBVIOUS
  <2>1. ASSUME NEW c \in Calls, Begin(c) PROVE EncoderInv'
    BY <2>1, BeginStep
  <2>2. CASE TransferFails
    BY <2>2, FailureStep
  <2>3. ASSUME NEW bits \in Contents(pending), NEW flag \in BOOLEAN,
               NEW rx \in Noisy(Reply(bits, flag)),
               Transfer(bits, flag, rx)
        PROVE  EncoderInv'
    BY <2>3, TransferStep
  <2>4. CASE UNCHANGED encoderVars
    BY <2>4 DEF EncoderInv, RawSoFar, encoderVars, EncoderTypeOK, AngleIsSound,
                ReadRawErrorExact, ReadRawDone
  <2> QED
    BY <2>1, <2>2, <2>3, <2>4 DEF EncoderNext
<1> QED
  BY <1>1, EncoderStarts, PTL DEF EncoderSpec

\* Whatever the registers may hold, an angle read_raw accepts is the one the
\* encoder held (as5047p.cpp:53-59, 81-90).
THEOREM AngleIsSoundTheorem == EncoderSpec => []AngleIsSound
<1>1. EncoderInv => AngleIsSound
  BY DEF EncoderInv
<1> QED
  BY <1>1, EncoderInvariance, PTL

\* After read_raw, last_error_ says how this call ended (as5047p.cpp:46-67, 79).
THEOREM ReadRawErrorExactTheorem == EncoderSpec => []ReadRawErrorExact
<1>1. EncoderInv => ReadRawErrorExact
  BY DEF EncoderInv
<1> QED
  BY <1>1, EncoderInvariance, PTL
==============================================================================
