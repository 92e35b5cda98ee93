------------------------- MODULE LocalDeviceProofs -------------------------
(***************************************************************************)
(* That a turn is over when it is called over, that the conversation       *)
(* implements ChatTurn and so keeps its outcomes, and that a cancel        *)
(* reaches the run in progress, for any number of turns, retries,          *)
(* connections and troubles.  The first two rest on OneAtATime: a turn     *)
(* that was never cut off is at one place at a time, in a dispatch, in the *)
(* device, or in an event.                                                 *)
(***************************************************************************)
EXTENDS LocalDevice, TLAPS

Busy(r) == dispatch[r] # "idle" \/ r \in Active

\* The run r is the only dispatch, run or event of its turn that is under way, and
\* the status of the turn says so.
Alone(r) ==
  /\ report[r[1]] # "none" => status[r[1]] = "running" /\ ~Busy(r)
  /\ dispatch[r] = "routing" => status[r[1]] = "pending"
  /\ dispatch[r] = "begun" => status[r[1]] \in {"pending", "running"}
  /\ dispatch[r] \in {"runs", "claimed"} \/ r \in Active => status[r[1]] = "running"
  /\ dispatch[r] # "idle" => r \notin Active
  /\ \A q \in Runs : q[1] = r[1] /\ Busy(q) /\ Busy(r) => q = r

OneAtATime == \A r \in Runs : r[1] \notin cut => Alone(r)

IInv == TypeOK /\ OneAtATime

\* What the bounds are.
LEMMA Bounds ==
  /\ MaxTurns \in Nat /\ MaxConnections \in Nat
  /\ MaxRetries \in Nat /\ MaxTrouble \in Nat /\ 0 \in Attempts
BY DeviceBoundsAssumption DEF Attempts

LEMMA TypeInit == Init => TypeOK
<1> SUFFICES ASSUME Init PROVE TypeOK
  OBVIOUS
<1> USE Bounds DEF Init, TypeOK
<1>1. {up, known, key, overlapped} \subseteq BOOLEAN
  OBVIOUS
<1>3. {conn, made} \subseteq 0..MaxConnections /\ trouble \in 0..MaxTrouble
  OBVIOUS
<1>4. {todo, doomed, cut, forsaken} \subseteq SUBSET Turns
  OBVIOUS
<1>2. /\ status \in [Turns -> Statuses] /\ owned \subseteq Turns
      /\ attempt \in [Turns -> Attempts]
      /\ report \in [Turns -> Outcomes \cup {"none"}]
  BY DEF Statuses
<1> QED BY <1>1, <1>2, <1>3, <1>4

\* The process of the device may end.
LEMMA ExitKeepsTypes ==
  ASSUME TypeOK, Exit
  PROVE  /\ {up', known'} \subseteq BOOLEAN /\ conn' \in 0..MaxConnections
         /\ run' \in [Runs -> {"none", "queued", "running", "stopping", "ended"}]
         /\ slot' \in Runs \cup {None}
<1> USE Bounds DEF TypeOK, Exit
<1>1. {up', known'} \subseteq BOOLEAN
  OBVIOUS
<1>2. conn' \in 0..MaxConnections
  OBVIOUS
<1>3. run' \in [Runs -> {"none", "queued", "running", "stopping", "ended"}]
  OBVIOUS
<1>4. slot' \in Runs \cup {None}
  OBVIOUS
<1> QED BY <1>1, <1>2, <1>3, <1>4

LEMMA TypeStep == ASSUME TypeOK, [Next]_vars PROVE TypeOK'
<1> USE Bounds DEF TypeOK
<1>1. CASE DeviceStops
  BY <1>1, ExitKeepsTypes DEF DeviceStops, online, turn, monitor, history
<1>2. CASE DeviceConnects
  BY <1>2 DEF DeviceConnects, turn, work, monitor, history, Connections
<1>3. CASE LinkBreaks
  BY <1>3, ExitKeepsTypes DEF LinkBreaks, online, turn, monitor, history
<1>4. ASSUME NEW c \in Connections, RegisterStep(c) PROVE TypeOK'
  <2>1. CASE RegisterSetsOnline(c)
    BY <2>1 DEF RegisterSetsOnline, device, turn, work, monitor, history
  <2>2. CASE RegisterSaves(c)
    BY <2>2 DEF RegisterSaves, turn, work, monitor, history
  <2>3. CASE RegisterFails(c)
    BY <2>3, ExitKeepsTypes DEF RegisterFails, Troubled, device, turn, monitor, history
  <2> QED BY <1>4, <2>1, <2>2, <2>3 DEF RegisterStep
<1>5. ASSUME NEW c \in Connections, DisconnectStep(c) PROVE TypeOK'
  <2>1. CASE DisconnectNoticed(c)
    BY <2>1 DEF DisconnectNoticed, device, turn, work, monitor, history
  <2>2. CASE DisconnectHandled(c)
    BY <2>2 DEF DisconnectHandled, Troubled, Fail, RunningHere, device, work, monitor, Statuses, Outcomes
  <2> QED BY <1>5, <2>1, <2>2 DEF DisconnectStep
<1>6. ASSUME NEW r \in Runs, DispatchStep(r) PROVE TypeOK'
  <2>1. r[1] \in Turns
    BY DEF Runs
  <2> USE <2>1 DEF Statuses, Outcomes
  <2>2. CASE RouteToDevice(r)
    BY <2>2 DEF RouteToDevice, device, online, work, monitor, history
  <2>3. CASE DispatchRuns(r)
    BY <2>3 DEF DispatchRuns, device, online, work, monitor, history
  <2>4. CASE DispatchClaims(r)
    BY <2>4 DEF DispatchClaims, device, online, work, monitor, history
  <2>5. CASE DispatchEmits(r)
    BY <2>5 DEF DispatchEmits, device, online, monitor
  <2>6. CASE DispatchFails(r)
    BY <2>6 DEF DispatchFails, Troubled, device, online, work, monitor, history
  <2> QED BY <1>6, <2>2, <2>3, <2>4, <2>5, <2>6 DEF DispatchStep
<1>7. ASSUME NEW t \in Turns, EventHandled(t) PROVE TypeOK'
  BY <1>7 DEF EventHandled, device, online, monitor, history, Statuses, Outcomes
<1>8. ASSUME NEW c \in Connections, HeartbeatOvertaken(c) PROVE TypeOK'
  BY <1>8 DEF HeartbeatOvertaken, device, turn, work, monitor, history
<1>9. CASE Heartbeat
  BY <1>9 DEF Heartbeat, device, turn, work, monitor, history
<1>10. CASE StrangerDisconnects
  BY <1>10 DEF StrangerDisconnects, Troubled, Fail, RunningHere, device, online,
               work, monitor, Statuses, Outcomes
<1>11. CASE KeyExpires
  <2>1. trouble' \in 0..MaxTrouble
    BY <1>11 DEF KeyExpires, Troubled
  <2>2. UNCHANGED << device, sess, turn, work, monitor, history >> /\ key' = FALSE
    BY <1>11 DEF KeyExpires
  <2> QED BY <2>1, <2>2 DEF device, turn, work, monitor, history
<1>12. ASSUME NEW t \in Turns, Send(t) \/ SendFromChannel(t) PROVE TypeOK'
  <2>1. << t, 0 >> \in Runs
    BY DEF Runs
  <2> QED BY <1>12, <2>1 DEF Send, SendFromChannel, device, online, work, monitor,
                             history, Statuses
<1>13. ASSUME NEW t \in Turns, Retry(t) PROVE TypeOK'
  <2>1. attempt[t] + 1 \in Attempts
    BY <1>13 DEF Retry, Attempts
  <2> QED BY <1>13, <2>1 DEF Retry, Shown, device, online, work, monitor, Statuses
<1>14. ASSUME NEW t \in Turns, Cancel(t) PROVE TypeOK'
  BY <1>14 DEF Cancel, device, online, turn, monitor, history
<1>15. ASSUME NEW r \in Runs, RunStep(r) PROVE TypeOK'
  <2>1. r[1] \in Turns
    BY DEF Runs
  <2>2. CASE TaskStarts(r)
    BY <2>2 DEF TaskStarts, Executing, device, online, turn, monitor
  <2>3. ASSUME NEW o \in Outcomes, TaskEnds(r, o) PROVE TypeOK'
    BY <2>1, <2>3 DEF TaskEnds, device, online, turn, monitor, history
  <2> QED BY <1>15, <2>2, <2>3 DEF RunStep
<1>16. CASE CloseSession
  BY <1>16 DEF CloseSession, device, online, turn, monitor, history
<1>17. CASE MonitorStep
  <2>1. CASE MonitorReads
    BY <2>1 DEF MonitorReads, RunningHere, device, online, turn, work, history
  <2>2. CASE MonitorCommits
    BY <2>2 DEF MonitorCommits, Fail, device, online, work, Statuses, Outcomes
  <2>3. ASSUME NEW t \in Turns, MonitorChecks(t) PROVE TypeOK'
    BY <2>3 DEF MonitorChecks, Fail, device, online, work, Statuses, Outcomes
  <2> QED BY <1>17, <2>1, <2>2, <2>3 DEF MonitorStep
<1>18. CASE BackendRestarts
  BY <1>18, ExitKeepsTypes DEF BackendRestarts, Troubled
<1>19. CASE UNCHANGED vars
  BY <1>19 DEF vars, device, online, turn, work, monitor, history
<1> QED BY <1>1, <1>2, <1>3, <1>4, <1>5, <1>6, <1>7, <1>8, <1>9, <1>10, <1>11, <1>12,
           <1>13, <1>14, <1>15, <1>16, <1>17, <1>18, <1>19 DEF Next, BackendStep

\* Every state of the device and the backend is of the declared form.
THEOREM TypeCorrect == Spec => []TypeOK
BY TypeInit, TypeStep, PTL DEF Spec

LEMMA OneInit == Init => OneAtATime
<1> SUFFICES ASSUME Init PROVE OneAtATime
  OBVIOUS
<1>1. \A r \in Runs : r[1] \in Turns /\ dispatch[r] = "idle" /\ run[r] = "none"
  BY DEF Init, Runs
<1> QED BY <1>1 DEF Init, OneAtATime, Alone, Busy, Active

\* A step that starts nothing for the turns that stay uncut, and leaves their
\* status alone, keeps them one at a time.
LEMMA Less ==
  ASSUME OneAtATime,
         \A r \in Runs : r[1] \notin cut' =>
           /\ r[1] \notin cut /\ status'[r[1]] = status[r[1]]
           /\ report'[r[1]] \in {report[r[1]], "none"}
           /\ dispatch'[r] \in {dispatch[r], "idle"}
           /\ r \in Active' => r \in Active
  PROVE  OneAtATime'
<1> SUFFICES ASSUME NEW r \in Runs, r[1] \notin cut' PROVE Alone(r)'
  BY DEF OneAtATime
<1>1. Alone(r)
  BY DEF OneAtATime
<1>2. \A q \in Runs : q[1] = r[1] /\ Busy(q)' => Busy(q)
  BY DEF Busy
<1> QED BY <1>1, <1>2 DEF Alone, Busy

\* Nothing of the turns changes but where a run stands.
LEMMA Frame ==
  ASSUME OneAtATime, UNCHANGED << status, report, dispatch >>,
         cut \subseteq cut', Active' \subseteq Active
  PROVE  OneAtATime'
BY Less

\* Turns are cut off.
LEMMA FailKeeps ==
  ASSUME IInv, NEW T, Fail(T), UNCHANGED << report, dispatch, run >>
  PROVE  OneAtATime'
<1>1. Active' = Active
  BY DEF Active
<1>2. \A r \in Runs : r[1] \notin cut' => r[1] \notin cut /\ status'[r[1]] = status[r[1]]
  BY DEF Fail, IInv, Runs
<1> QED BY <1>1, <1>2, Less DEF IInv

\* The process of the device ends.
LEMMA ExitEnds == ASSUME TypeOK, Exit PROVE Active' \subseteq Active
BY DEF Exit, Active, TypeOK

LEMMA OneStep == ASSUME IInv, [Next]_vars PROVE OneAtATime'
<1> USE DEF IInv
<1>1. CASE DeviceStops
  BY <1>1, Frame, ExitEnds DEF DeviceStops, turn, history
<1>2. CASE DeviceConnects
  BY <1>2, Frame DEF DeviceConnects, turn, work, history, Active
<1>3. CASE LinkBreaks
  <2>1. Active' \subseteq Active
    BY <1>3, ExitEnds DEF LinkBreaks, Active
  <2> QED BY <1>3, <2>1, Frame DEF LinkBreaks, turn, history
<1>4. ASSUME NEW c \in Connections, RegisterStep(c) PROVE OneAtATime'
  <2>1. CASE RegisterSetsOnline(c)
    BY <2>1, Frame DEF RegisterSetsOnline, turn, work, history, Active
  <2>2. CASE RegisterSaves(c)
    BY <2>2, Frame DEF RegisterSaves, turn, work, history, Active
  <2>3. CASE RegisterFails(c)
    <3>1. Active' \subseteq Active
      BY <2>3, ExitEnds DEF RegisterFails, Active
    <3> QED BY <2>3, <3>1, Frame DEF RegisterFails, turn, history
  <2> QED BY <1>4, <2>1, <2>2, <2>3 DEF RegisterStep
<1>5. ASSUME NEW c \in Connections, DisconnectStep(c) PROVE OneAtATime'
  <2>1. CASE DisconnectNoticed(c)
    BY <2>1, Frame DEF DisconnectNoticed, turn, work, history, Active
  <2>2. CASE DisconnectHandled(c) /\ Fail(RunningHere)
    BY <2>2, FailKeeps DEF DisconnectHandled, work
  <2>3. CASE DisconnectHandled(c) /\ UNCHANGED << status, cut >>
    BY <2>3, Frame DEF DisconnectHandled, work, Active
  <2> QED BY <1>5, <2>1, <2>2, <2>3 DEF DisconnectStep, DisconnectHandled
<1>6. ASSUME NEW d \in Runs, DispatchStep(d) PROVE OneAtATime'
  <2>0. d[1] \in Turns
    BY DEF Runs
  <2> SUFFICES ASSUME NEW r \in Runs, r[1] \notin cut' PROVE Alone(r)'
    BY DEF OneAtATime
  <2>1. cut' = cut /\ report' = report /\ r[1] \in Turns
    BY <1>6 DEF DispatchStep, RouteToDevice, DispatchRuns, DispatchClaims, DispatchEmits,
                DispatchFails, history, work, Runs
  <2>2. Alone(r) /\ (r[1] = d[1] => Alone(d))
    BY <2>1 DEF OneAtATime
  <2>3. dispatch[d] # "idle" /\ \A q \in Runs \ {d} : dispatch'[q] = dispatch[q]
    BY <1>6 DEF DispatchStep, RouteToDevice, DispatchRuns, DispatchClaims, DispatchEmits,
                DispatchFails, TypeOK
  <2>4. \A q \in Runs \ {d} : Busy(q)' <=> Busy(q)
    <3>1. CASE DispatchEmits(d)
      BY <2>3, <3>1 DEF DispatchEmits, Busy, Active, TypeOK
    <3>2. CASE run' = run
      BY <2>3, <3>2 DEF Busy, Active
    <3> QED BY <1>6, <3>1, <3>2 DEF DispatchStep, RouteToDevice, DispatchRuns,
                DispatchClaims, DispatchFails, work
  <2>5. r[1] # d[1] => status'[r[1]] = status[r[1]] /\ (r \in Active' <=> r \in Active)
    BY <1>6, <2>0, <2>1 DEF DispatchStep, RouteToDevice, DispatchRuns, DispatchClaims,
                DispatchEmits, DispatchFails, work, Active, TypeOK
  <2>6. CASE r[1] # d[1]
    BY <2>1, <2>2, <2>3, <2>4, <2>5, <2>6 DEF Alone, Busy
  <2>7. CASE r[1] = d[1]
    <3>1. Busy(d) /\ d \notin Active /\ report[d[1]] = "none"
          /\ \A q \in Runs \ {d} : q[1] = d[1] => ~Busy(q) /\ ~Busy(q)'
      BY <2>2, <2>3, <2>4, <2>7 DEF Alone, Busy
    <3>2. CASE r # d
      BY <2>1, <2>7, <3>1, <3>2 DEF Alone, Busy
    <3>3. CASE r = d
      <4>1. \A q \in Runs : q[1] = r[1] /\ Busy(q)' => q = r
        BY <3>1, <3>3
      <4>2. CASE RouteToDevice(d)
        BY <2>0, <2>1, <3>1, <3>3, <4>1, <4>2 DEF RouteToDevice, Alone, Busy, Active, work, TypeOK
      <4>3. CASE DispatchRuns(d)
        BY <2>0, <2>1, <3>1, <3>3, <4>1, <4>3 DEF DispatchRuns, Alone, Busy, Active, work, TypeOK
      <4>4. CASE DispatchClaims(d)
        BY <2>0, <2>1, <2>2, <3>1, <3>3, <4>1, <4>4 DEF DispatchClaims, Alone, Busy, Active, work, TypeOK
      <4>5. CASE DispatchEmits(d)
        BY <2>0, <2>1, <2>2, <3>1, <3>3, <4>1, <4>5 DEF DispatchEmits, Alone, Busy, TypeOK
      <4>6. CASE DispatchFails(d)
        BY <2>0, <2>1, <3>1, <3>3, <4>1, <4>6 DEF DispatchFails, Alone, Busy, Active, work, TypeOK
      <4> QED BY <1>6, <4>2, <4>3, <4>4, <4>5, <4>6 DEF DispatchStep
    <3> QED BY <3>2, <3>3
  <2> QED BY <2>6, <2>7
<1>7. ASSUME NEW t \in Turns, EventHandled(t) PROVE OneAtATime'
  <2> SUFFICES ASSUME NEW r \in Runs, r[1] \notin cut' PROVE Alone(r)'
    BY DEF OneAtATime
  <2>1. cut' = cut /\ r[1] \in Turns /\ \A q \in Runs : Busy(q)' <=> Busy(q)
    BY <1>7 DEF EventHandled, history, Runs, Busy, Active
  <2>2. Alone(r)
    BY <2>1 DEF OneAtATime
  <2>3. CASE r[1] = t
    <3>1. ~Busy(r) /\ ~Busy(r)' /\ report'[t] = "none"
      BY <1>7, <2>1, <2>2, <2>3 DEF EventHandled, Alone, TypeOK
    <3> QED BY <2>3, <3>1 DEF Alone, Busy
  <2>4. CASE r[1] # t
    BY <1>7, <2>1, <2>2, <2>4 DEF EventHandled, Alone, Busy, Active, TypeOK
  <2> QED BY <2>3, <2>4
<1>8. ASSUME NEW c \in Connections, HeartbeatOvertaken(c) PROVE OneAtATime'
  BY <1>8, Frame DEF HeartbeatOvertaken, turn, work, history, Active
<1>9. CASE Heartbeat
  BY <1>9, Frame DEF Heartbeat, turn, work, history, Active
<1>10. CASE StrangerDisconnects
  BY <1>10, FailKeeps DEF StrangerDisconnects, work
<1>11. CASE KeyExpires
  BY <1>11, Frame DEF KeyExpires, turn, work, history, Active
<1>12. ASSUME NEW t \in Turns, Send(t) \/ SendFromChannel(t) PROVE OneAtATime'
  <2> DEFINE d == << t, 0 >>
  <2>0. d \in Runs /\ d[1] = t /\ status[t] = "new"
    BY <1>12, Bounds DEF Runs, Send, SendFromChannel, MayFollow
  <2> SUFFICES ASSUME NEW r \in Runs, r[1] \notin cut' PROVE Alone(r)'
    BY DEF OneAtATime
  <2>1. cut' = cut /\ report' = report /\ Active' = Active /\ r[1] \in Turns
    BY <1>12 DEF Send, SendFromChannel, history, work, Runs, Active
  <2>2. Alone(r)
    BY <2>1 DEF OneAtATime
  <2>3. /\ status' = [status EXCEPT ![t] = "pending"]
        /\ dispatch'[d] \in {"begun", "routing"}
        /\ \A q \in Runs \ {d} : dispatch'[q] = dispatch[q]
    BY <1>12, <2>0 DEF Send, SendFromChannel, TypeOK
  <2>4. CASE r[1] = t
    <3>1. \A q \in Runs : q[1] = t => ~Busy(q) /\ report[t] = "none"
      <4> SUFFICES ASSUME NEW q \in Runs, q[1] = t PROVE ~Busy(q) /\ report[t] = "none"
        OBVIOUS
      <4>1. Alone(q)
        BY <2>1, <2>4 DEF OneAtATime
      <4> QED BY <2>0, <4>1 DEF Alone, Busy, TypeOK
    <3>2. status'[t] = "pending"
      BY <2>3 DEF TypeOK
    <3> HIDE DEF d
    <3> QED BY <2>0, <2>1, <2>3, <2>4, <3>1, <3>2 DEF Alone, Busy
  <2>5. CASE r[1] # t
    <3>1. status'[r[1]] = status[r[1]] /\ \A q \in Runs : q[1] = r[1] => dispatch'[q] = dispatch[q]
      BY <2>0, <2>1, <2>3, <2>5 DEF TypeOK
    <3> QED BY <2>1, <2>2, <3>1 DEF Alone, Busy
  <2> QED BY <2>4, <2>5
<1>13. ASSUME NEW t \in Turns, Retry(t) PROVE OneAtATime'
  <2> DEFINE d == << t, attempt[t] + 1 >>
  <2>0. d \in Runs /\ d[1] = t
    BY <1>13, Bounds DEF Runs, Retry, Attempts, TypeOK
  <2> SUFFICES ASSUME NEW r \in Runs, r[1] \notin cut' PROVE Alone(r)'
    BY DEF OneAtATime
  <2>1. /\ cut \subseteq cut' /\ report' = report /\ Active' = Active /\ r[1] \in Turns
        /\ t \notin cut' => status[t] = "failed"
    BY <1>13 DEF Retry, work, Runs, Active
  <2>2. Alone(r)
    BY <2>1 DEF OneAtATime
  <2>3. /\ status' = [status EXCEPT ![t] = "pending"]
        /\ dispatch'[d] = "begun"
        /\ \A q \in Runs \ {d} : dispatch'[q] = dispatch[q]
    BY <1>13, <2>0 DEF Retry, TypeOK
  <2>4. CASE r[1] = t
    <3>1. \A q \in Runs : q[1] = t => ~Busy(q) /\ report[t] = "none"
      <4> SUFFICES ASSUME NEW q \in Runs, q[1] = t PROVE ~Busy(q) /\ report[t] = "none"
        OBVIOUS
      <4>1. Alone(q) /\ status[t] = "failed"
        BY <2>1, <2>4 DEF OneAtATime
      <4> QED BY <4>1 DEF Alone, Busy, TypeOK
    <3>2. status'[t] = "pending"
      BY <2>3 DEF TypeOK
    <3> HIDE DEF d
    <3> QED BY <2>0, <2>1, <2>3, <2>4, <3>1, <3>2 DEF Alone, Busy
  <2>5. CASE r[1] # t
    <3>1. status'[r[1]] = status[r[1]] /\ \A q \in Runs : q[1] = r[1] => dispatch'[q] = dispatch[q]
      BY <2>0, <2>1, <2>3, <2>5 DEF TypeOK
    <3> QED BY <2>1, <2>2, <3>1 DEF Alone, Busy
  <2> QED BY <2>4, <2>5
<1>14. ASSUME NEW t \in Turns, Cancel(t) PROVE OneAtATime'
  <2>1. Active' \subseteq Active
    BY <1>14 DEF Cancel, Active, TypeOK
  <2> QED BY <1>14, <2>1, Frame DEF Cancel, turn, history
<1>15. ASSUME NEW e \in Runs, RunStep(e) PROVE OneAtATime'
  <2>0. e[1] \in Turns
    BY DEF Runs
  <2>1. CASE TaskStarts(e)
    <3>1. Active' \subseteq Active
      BY <2>1 DEF TaskStarts, Active, TypeOK
    <3> QED BY <2>1, <3>1, Frame DEF TaskStarts, turn
  <2>2. ASSUME NEW o \in Outcomes, TaskEnds(e, o) PROVE OneAtATime'
    <3> SUFFICES ASSUME NEW r \in Runs, r[1] \notin cut' PROVE Alone(r)'
      BY DEF OneAtATime
    <3>1. /\ cut' = cut /\ status' = status /\ dispatch' = dispatch
          /\ r[1] \in Turns /\ Active' = Active \ {e} /\ e \in Active
          /\ \A u \in Turns \ {e[1]} : report'[u] = report[u]
      BY <2>0, <2>2 DEF TaskEnds, history, turn, Runs, Active, Executing, TypeOK
    <3>2. Alone(r) /\ (r[1] = e[1] => Alone(e))
      BY <3>1 DEF OneAtATime
    <3>3. CASE r[1] = e[1]
      <4>1. \A q \in Runs : q[1] = e[1] => ~Busy(q)'
        BY <3>1, <3>2, <3>3 DEF Alone, Busy
      <4> QED BY <3>1, <3>2, <3>3, <4>1 DEF Alone, Busy
    <3>4. CASE r[1] # e[1]
      BY <3>1, <3>2, <3>4 DEF Alone, Busy
    <3> QED BY <3>3, <3>4
  <2> QED BY <1>15, <2>1, <2>2 DEF RunStep
<1>16. CASE CloseSession
  <2>1. Active' \subseteq Active
    BY <1>16 DEF CloseSession, Active, Executing, TypeOK
  <2> QED BY <1>16, <2>1, Frame DEF CloseSession, turn, history
<1>17. CASE MonitorStep
  <2>1. CASE MonitorReads
    BY <2>1, Frame DEF MonitorReads, turn, work, history, Active
  <2>2. CASE MonitorCommits
    BY <2>2, FailKeeps DEF MonitorCommits, work
  <2>3. ASSUME NEW t \in Turns, MonitorChecks(t) PROVE OneAtATime'
    <3>1. CASE key
      BY <2>3, <3>1, Frame DEF MonitorChecks, work, Active
    <3>2. CASE ~key
      BY <2>3, <3>2, FailKeeps DEF MonitorChecks, work
    <3> QED BY <3>1, <3>2
  <2> QED BY <1>17, <2>1, <2>2, <2>3 DEF MonitorStep
<1>18. CASE BackendRestarts
  <2>1. Active' \subseteq Active
    BY <1>18, ExitEnds DEF BackendRestarts, Active
  <2> QED BY <1>18, <2>1, Less DEF BackendRestarts, Runs
<1>19. CASE UNCHANGED vars
  BY <1>19, Frame DEF vars, turn, work, history, Active
<1> QED BY <1>1, <1>2, <1>3, <1>4, <1>5, <1>6, <1>7, <1>8, <1>9, <1>10, <1>11, <1>12,
           <1>13, <1>14, <1>15, <1>16, <1>17, <1>18, <1>19 DEF Next, BackendStep

\* The invariant holds initially, and every step keeps it.
LEMMA Inductive ==
  /\ Init => IInv
  /\ IInv /\ [Next]_vars => IInv'
BY TypeInit, OneInit, TypeStep, OneStep DEF IInv

LEMMA Invariance == Spec => []IInv
BY Inductive, PTL DEF Spec

\* A turn that was not cut off goes on in the device at most once, and then it is
\* RUNNING.
THEOREM OverIsOver == Spec => []OverMeansOver
<1>1. IInv => OverMeansOver
  BY DEF IInv, OneAtATime, Alone, Busy, OverMeansOver, Active
<1> QED BY <1>1, Invariance, PTL

-----------------------------------------------------------------------------
(* The refinement. *)

LEMMA TurnInit == Init => Turn!Init
BY Bounds DEF Init, Turn!Init, Shown

\* A step that leaves the turns and the monitor alone is not seen.
LEMMA Unseen ==
  ASSUME UNCHANGED << status, attempt, cut, todo, doomed >>
  PROVE  UNCHANGED Turn!vars
BY DEF Turn!vars, Shown

\* Turns are cut off: all those that run in the device, or those that the monitor
\* has found to be offline.
LEMMA CutsOff ==
  ASSUME TypeOK, NEW T \in SUBSET Turns, Fail(T), UNCHANGED attempt,
         T \subseteq RunningHere \cup todo \cup doomed,
         todo' \cup doomed' \subseteq todo \cup doomed
  PROVE  Turn!Next
<1>1. Turn!CutOff(T)
  <2>1. T \subseteq Turn!Running \cup (todo \cup doomed)
    BY DEF RunningHere, Turn!Running
  <2>2. Shown' = Shown \cup {t \in Turns : status'[t] = "failed"}
    BY DEF Shown, Fail, TypeOK
  <2> QED BY <2>1, <2>2 DEF Turn!CutOff, Turn!NowFailed, Fail
<1> QED BY <1>1 DEF Turn!Next

\* What becomes visible when one turn changes its status.
LEMMA OneBecomes ==
  ASSUME TypeOK, NEW t \in Turns, NEW st, status' = [status EXCEPT ![t] = st],
         UNCHANGED << todo, doomed >>,
         Shown' = Shown \cup {u \in Turns : status'[u] = "failed"}
  PROVE  Turn!Becomes(t, st)
BY DEF Turn!Becomes, Turn!NowFailed

\* The retries, and what was cut off, stay as they are; a status that was not
\* failed, or that of a turn that is shown as failed anyway, changes.
LEMMA ShownGrows ==
  ASSUME TypeOK, NEW t \in Turns, NEW st, status' = [status EXCEPT ![t] = st],
         UNCHANGED << attempt, cut >>, status[t] # "failed" \/ t \in cut
  PROVE  Shown' = Shown \cup {u \in Turns : status'[u] = "failed"}
BY DEF Shown, TypeOK

LEMMA TurnStep == ASSUME IInv, [Next]_vars PROVE [Turn!Next]_(Turn!vars)
<1> USE DEF IInv
<1>0. ASSUME UNCHANGED << turn, history, monitor >> PROVE UNCHANGED Turn!vars
  BY <1>0, Unseen DEF turn, history, monitor
<1>1. CASE DeviceStops \/ DeviceConnects \/ LinkBreaks \/ Heartbeat \/ KeyExpires \/ CloseSession
  BY <1>0, <1>1 DEF DeviceStops, DeviceConnects, LinkBreaks, Heartbeat, KeyExpires, CloseSession
<1>2. ASSUME NEW c \in Connections, RegisterStep(c) \/ DisconnectNoticed(c) \/ HeartbeatOvertaken(c)
      PROVE UNCHANGED Turn!vars
  BY <1>0, <1>2 DEF RegisterStep, RegisterSetsOnline, RegisterSaves, RegisterFails,
     DisconnectNoticed, HeartbeatOvertaken
<1>3. ASSUME NEW c \in Connections, DisconnectHandled(c) PROVE [Turn!Next]_(Turn!vars)
  <2>1. CASE Fail(RunningHere)
    BY <1>3, <2>1, CutsOff DEF DisconnectHandled, RunningHere, monitor, TypeOK
  <2>2. CASE UNCHANGED << status, cut >>
    BY <1>3, <2>2, Unseen DEF DisconnectHandled, monitor
  <2> QED BY <1>3, <2>1, <2>2 DEF DisconnectHandled
<1>4. CASE StrangerDisconnects
  BY <1>4, CutsOff DEF StrangerDisconnects, RunningHere, monitor, TypeOK
<1>5. ASSUME NEW t \in Turns, Send(t) \/ SendFromChannel(t) PROVE Turn!Next
  <2>1. /\ status[t] = "new" /\ status' = [status EXCEPT ![t] = "pending"]
        /\ UNCHANGED << attempt, cut, todo, doomed >>
    BY <1>5 DEF Send, SendFromChannel, MayFollow, history, monitor
  <2>2. Turn!Becomes(t, "pending")
    BY <2>1, ShownGrows, OneBecomes
  <2>3. Turn!Accept(t)
    BY <2>1, <2>2 DEF Turn!Accept
  <2> QED BY <2>3 DEF Turn!Next
<1>6. ASSUME NEW t \in Turns, Retry(t) PROVE Turn!Next
  <2>1. /\ t \in Shown /\ status' = [status EXCEPT ![t] = "pending"]
        /\ UNCHANGED << todo, doomed >>
        /\ cut' = IF status[t] = "failed" THEN cut ELSE cut \cup {t}
        /\ attempt' = [attempt EXCEPT ![t] = @ + 1]
    BY <1>6 DEF Retry, monitor
  <2>2. Shown' = Shown \cup {u \in Turns : status'[u] = "failed"}
    <3>1. ASSUME NEW u \in Turns PROVE u \in Shown' <=> u \in Shown
      <4>1. CASE u = t
        <5>1. attempt'[t] = attempt[t] + 1 /\ attempt[t] \in Nat
          BY <2>1 DEF TypeOK, Attempts
        <5> QED BY <2>1, <4>1, <5>1 DEF Shown
      <4>2. CASE u # t
        BY <2>1, <4>2 DEF Shown, TypeOK
      <4> QED BY <4>1, <4>2
    <3> QED BY <3>1 DEF Shown
  <2>3. Turn!Becomes(t, "pending")
    BY <2>1, <2>2, OneBecomes
  <2>4. Turn!Retry(t)
    BY <2>1, <2>3 DEF Turn!Retry
  <2> QED BY <2>4 DEF Turn!Next
<1>7. ASSUME NEW r \in Runs, DispatchStep(r) PROVE [Turn!Next]_(Turn!vars)
  <2>0. r[1] \in Turns
    BY DEF Runs
  <2>1. UNCHANGED << attempt, cut, todo, doomed >>
    BY <1>7 DEF DispatchStep, RouteToDevice, DispatchRuns, DispatchClaims, DispatchEmits,
                DispatchFails, history, monitor
  <2>2. r[1] \notin cut => Alone(r)
    BY DEF OneAtATime
  <2>3. ASSUME status' = [status EXCEPT ![r[1]] = "running"],
               dispatch[r] = "routing" \/ dispatch[r] = "begun"
        PROVE  [Turn!Next]_(Turn!vars)
    <3>1. CASE status[r[1]] = "running"
      <4>1. status' = status
        BY <2>0, <2>3, <3>1 DEF TypeOK
      <4> QED BY <2>1, <4>1, Unseen
    <3>2. CASE status[r[1]] # "running"
      <4>1. status[r[1]] = "pending" \/ r[1] \in cut
        BY <2>2, <2>3, <3>2 DEF Alone
      <4>2. Turn!Becomes(r[1], "running")
        BY <2>0, <2>1, <2>3, <4>1, ShownGrows, OneBecomes
      <4>3. Turn!Run(r[1])
        BY <2>1, <4>1, <4>2 DEF Turn!Run
      <4> QED BY <2>0, <4>3 DEF Turn!Next
    <3> QED BY <3>1, <3>2
  <2>4. CASE UNCHANGED status
    BY <2>1, <2>4, Unseen
  <2>5. CASE DispatchFails(r)
    <3>1. status[r[1]] = "running" \/ r[1] \in cut
      BY <2>2, <2>5 DEF DispatchFails, Alone
    <3>2. Turn!Becomes(r[1], "failed")
      BY <2>0, <2>1, <2>5, <3>1, ShownGrows, OneBecomes DEF DispatchFails
    <3>3. Turn!Report(r[1])
      BY <2>1, <3>1, <3>2 DEF Turn!Report, Turn!Outcomes
    <3> QED BY <2>0, <3>3 DEF Turn!Next
  <2> QED BY <1>7, <2>3, <2>4, <2>5 DEF DispatchStep, RouteToDevice, DispatchRuns,
             DispatchClaims, DispatchEmits
<1>8. ASSUME NEW t \in Turns, EventHandled(t) PROVE Turn!Next
  <2> DEFINE r == << t, 0 >>
  <2>1. r \in Runs /\ r[1] = t
    BY Bounds DEF Runs
  <2>2. /\ report[t] \in Outcomes /\ status' = [status EXCEPT ![t] = report[t]]
        /\ UNCHANGED << attempt, cut, todo, doomed >>
    BY <1>8 DEF EventHandled, history, monitor, TypeOK
  <2>3. status[t] = "running" \/ t \in cut
    BY <1>8, <2>1 DEF EventHandled, OneAtATime, Alone
  <2>4. Turn!Becomes(t, report[t])
    BY <2>2, <2>3, ShownGrows, OneBecomes
  <2>5. Turn!Report(t)
    BY <2>2, <2>3, <2>4 DEF Turn!Report, Turn!Outcomes, Outcomes
  <2> QED BY <2>5 DEF Turn!Next
<1>9. ASSUME NEW t \in Turns, Cancel(t) PROVE UNCHANGED Turn!vars
  BY <1>0, <1>9 DEF Cancel
<1>10. ASSUME NEW r \in Runs, RunStep(r) PROVE UNCHANGED Turn!vars
  BY <1>10, Unseen DEF RunStep, TaskStarts, TaskEnds, turn, history, monitor
<1>11. CASE MonitorStep
  <2>1. CASE MonitorReads
    <3>1. Shown' = Shown /\ todo' \cup doomed' \subseteq Turn!Running
      BY <2>1 DEF MonitorReads, RunningHere, turn, history, Shown, Turn!Running, TypeOK
    <3>2. Turn!Look
      BY <2>1, <3>1 DEF MonitorReads, turn, history, Turn!Look
    <3> QED BY <3>2 DEF Turn!Next
  <2>2. CASE MonitorCommits
    BY <2>2, CutsOff DEF MonitorCommits, TypeOK
  <2>3. ASSUME NEW t \in Turns, MonitorChecks(t) PROVE Turn!Next
    <3>1. CASE key
      <4>1. Shown' = Shown
        BY <2>3, <3>1 DEF MonitorChecks, Shown
      <4>2. Turn!Look
        BY <2>3, <3>1, <4>1 DEF MonitorChecks, Turn!Look
      <4> QED BY <4>2 DEF Turn!Next
    <3>2. CASE ~key
      <4>1. /\ t \in todo /\ Fail({t}) /\ UNCHANGED attempt
            /\ todo' = todo \ {t} /\ doomed' = doomed \cup {t}
        BY <2>3, <3>2 DEF MonitorChecks
      <4> QED BY <4>1, CutsOff
    <3> QED BY <3>1, <3>2
  <2> QED BY <1>11, <2>1, <2>2, <2>3 DEF MonitorStep
<1>12. CASE BackendRestarts
  <2>1. Shown' = Shown
    BY <1>12 DEF BackendRestarts, Shown
  <2>2. Turn!Look
    BY <1>12, <2>1 DEF BackendRestarts, Turn!Look
  <2> QED BY <2>2 DEF Turn!Next
<1>13. CASE UNCHANGED vars
  BY <1>0, <1>13 DEF vars
<1> QED BY <1>1, <1>2, <1>3, <1>4, <1>5, <1>6, <1>7, <1>8, <1>9, <1>10, <1>11, <1>12,
           <1>13 DEF Next, BackendStep, DisconnectStep

\* The conversation keeps the promises of ChatTurn.
THEOREM KeepsItsTurns == Spec => KeepsTurns
<1>1. Init => Turn!Init
  BY TurnInit
<1>2. IInv /\ [Next]_vars => [Turn!Next]_(Turn!vars)
  BY TurnStep
<1> QED BY <1>1, <1>2, Invariance, PTL DEF Spec, KeepsTurns, Turn!Spec

\* A turn that completed or was cancelled stays so, whatever late events, old
\* connections, monitors and restarts come, unless a window may show it as failed or
\* it is cut off: ChatTurn implies it, and the conversation implements ChatTurn.
THEOREM OutcomesStay == Spec => Turn!OutcomeIsFinal
<1> DEFINE Final == \A t \in Turns :
             status[t] \in {"completed", "cancelled"} /\ t \notin Shown \cup cut'
               => status'[t] = status[t]
<1>1. Turn!Next => Final
  <2> SUFFICES ASSUME Turn!Next, NEW t \in Turns,
                      status[t] \in {"completed", "cancelled"}, t \notin Shown \cup cut'
               PROVE  status'[t] = status[t]
    OBVIOUS
  <2>1. ASSUME NEW u \in Turns,
               Turn!Accept(u) \/ Turn!Run(u) \/ Turn!Report(u) \/ Turn!Retry(u)
        PROVE  u # t
    BY <2>1 DEF Turn!Accept, Turn!Run, Turn!Report, Turn!Retry
  <2>2. ASSUME NEW u \in Turns,
               Turn!Accept(u) \/ Turn!Run(u) \/ Turn!Report(u) \/ Turn!Retry(u)
        PROVE  status'[t] = status[t]
    <3>1. PICK st : status' = [status EXCEPT ![u] = st]
      BY <2>2 DEF Turn!Accept, Turn!Run, Turn!Report, Turn!Retry, Turn!Becomes
    <3> QED BY <2>1, <2>2, <3>1
  <2>3. ASSUME NEW T \in SUBSET Turns, Turn!CutOff(T)
        PROVE  status'[t] = status[t]
    BY <2>3 DEF Turn!CutOff
  <2> QED BY <2>2, <2>3 DEF Turn!Next, Turn!Look
<1>2. UNCHANGED Turn!vars => Final
  BY DEF Turn!vars
<1>3. KeepsTurns => [][Final]_(Turn!vars)
  BY <1>1, <1>2, PTL DEF KeepsTurns, Turn!Spec
<1> QED BY <1>3, KeepsItsTurns, PTL DEF Turn!OutcomeIsFinal

-----------------------------------------------------------------------------
(* That a cancel reaches the run in progress. *)

\* As long as no two runs have overlapped one is executed at a time: only then does
\* the entry of the task, which the last run to start has set and the first to
\* end clears, name the one that is left.
OneExecutes == \A r, q \in Executing : r = q
Paced == ~overlapped => OneExecutes /\ \A r \in Executing : slot = r \/ run[r] = "stopping"

LEMMA ExitStopsAll == ASSUME TypeOK, Exit PROVE Executing' = {}
BY DEF Exit, Executing, Active, TypeOK

\* Steps that neither start, end nor stop a run.
LEMMA PacedFrame ==
  ASSUME Paced, overlapped' = overlapped,
         \/ Executing' = {}
         \/ /\ slot' = slot /\ Executing' \subseteq Executing
            /\ \A r \in Executing' : run'[r] = run[r]
  PROVE  Paced'
BY DEF Paced, OneExecutes

LEMMA ExitKeepsPaced ==
  ASSUME TypeOK, Paced, overlapped' = overlapped, Exit \/ UNCHANGED << run, slot >>
  PROVE  Paced'
<1>1. CASE Exit
  BY <1>1, ExitStopsAll, PacedFrame
<1>2. CASE UNCHANGED << run, slot >>
  BY <1>2, PacedFrame DEF Executing
<1> QED BY <1>1, <1>2

LEMMA PacedStep == ASSUME TypeOK, Paced, [Next]_vars PROVE Paced'
<1>1. ASSUME DeviceStops \/ DeviceConnects \/ LinkBreaks \/ BackendRestarts PROVE Paced'
  BY <1>1, ExitKeepsPaced DEF DeviceStops, DeviceConnects, LinkBreaks, BackendRestarts,
                              work, history
<1>2. ASSUME NEW c \in Connections, RegisterStep(c) PROVE Paced'
  BY <1>2, ExitKeepsPaced DEF RegisterStep, RegisterSetsOnline, RegisterSaves, RegisterFails,
                              work, history
<1>3. ASSUME NEW c \in Connections, DisconnectStep(c) \/ HeartbeatOvertaken(c) PROVE Paced'
  BY <1>3, ExitKeepsPaced DEF DisconnectStep, DisconnectNoticed, DisconnectHandled,
                              HeartbeatOvertaken, work, history
<1>4. ASSUME NEW d \in Runs, DispatchStep(d) PROVE Paced'
  <2>1. CASE DispatchEmits(d)
    <3>1. overlapped' = overlapped /\ slot' = slot
      BY <2>1 DEF DispatchEmits
    <3>2. \A r \in Executing' : r \in Executing /\ run'[r] = run[r]
      BY <2>1 DEF DispatchEmits, Executing, TypeOK
    <3> QED BY <3>1, <3>2, PacedFrame
  <2>2. CASE ~DispatchEmits(d)
    BY <1>4, <2>2, ExitKeepsPaced DEF DispatchStep, RouteToDevice, DispatchRuns,
         DispatchClaims, DispatchFails, work, history
  <2> QED BY <2>1, <2>2
<1>5. ASSUME NEW t \in Turns, Send(t) \/ SendFromChannel(t) \/ Retry(t) \/ EventHandled(t)
      PROVE  Paced'
  BY <1>5, ExitKeepsPaced DEF Send, SendFromChannel, Retry, EventHandled, work, history
<1>6. ASSUME Heartbeat \/ StrangerDisconnects \/ KeyExpires \/ MonitorStep PROVE Paced'
  BY <1>6, ExitKeepsPaced DEF Heartbeat, StrangerDisconnects, KeyExpires, MonitorStep,
       MonitorReads, MonitorCommits, MonitorChecks, work, history
<1>7. ASSUME NEW t \in Turns, Cancel(t) PROVE Paced'
  <2>1. /\ slot \in Runs /\ run[slot] = "running" /\ slot' = slot /\ overlapped' = overlapped
        /\ run' = [run EXCEPT ![slot] = "stopping"]
    BY <1>7 DEF Cancel, history, TypeOK
  <2>2. Executing' = Executing /\ run'[slot] = "stopping"
    BY <2>1 DEF Executing, TypeOK
  <2>3. \A r \in Executing : slot = r \/ run'[r] = run[r]
    BY <2>1 DEF Executing, TypeOK
  <2> QED BY <2>1, <2>2, <2>3 DEF Paced, OneExecutes
<1>8. ASSUME CloseSession PROVE Paced'
  <2>1. /\ slot \in Executing /\ overlapped' = overlapped
        /\ run' = [run EXCEPT ![slot] = "stopping"]
    BY <1>8 DEF CloseSession, history
  <2>2. Executing' = Executing /\ run'[slot] = "stopping"
    BY <2>1 DEF Executing, TypeOK
  <2>3. ~overlapped => \A r \in Executing : r = slot
    BY <2>1 DEF Paced, OneExecutes
  <2> QED BY <2>1, <2>2, <2>3 DEF Paced, OneExecutes
<1>9. ASSUME NEW q \in Runs, TaskStarts(q) PROVE Paced'
  <2>1. ~overlapped' => Executing = {} /\ slot' = q
    BY <1>9 DEF TaskStarts
  <2>2. \A r \in Executing' : r \in Executing \/ r = q
    BY <1>9 DEF TaskStarts, Executing, TypeOK
  <2> QED BY <2>1, <2>2 DEF Paced, OneExecutes
<1>10. ASSUME NEW q \in Runs, NEW o \in Outcomes, TaskEnds(q, o) PROVE Paced'
  <2>1. overlapped' = overlapped /\ q \in Executing
    BY <1>10 DEF TaskEnds, history
  <2>2. \A r \in Executing' : r \in Executing /\ r # q
    BY <1>10 DEF TaskEnds, Executing, TypeOK
  <2>3. ~overlapped' => Executing' = {}
    BY <2>1, <2>2 DEF Paced, OneExecutes
  <2> QED BY <2>3 DEF Paced, OneExecutes
<1>11. ASSUME UNCHANGED vars PROVE Paced'
  BY <1>11, ExitKeepsPaced DEF vars, work, history
<1> QED BY <1>1, <1>2, <1>3, <1>4, <1>5, <1>6, <1>7, <1>8, <1>9, <1>10, <1>11
        DEF Next, BackendStep, RunStep

\* As long as no two runs have overlapped, the entry of the task names the run in
\* progress, unless that one is stopping already.
THEOREM CancelAlwaysReaches == Spec => []CancelReaches
<1>1. Init => Paced
  <2>1. Init => Executing = {}
    BY DEF Init, Executing
  <2> QED BY <2>1 DEF Paced, OneExecutes
<1>2. TypeOK /\ Paced /\ [Next]_vars => Paced'
  BY PacedStep
<1>3. Paced => CancelReaches
  BY DEF Paced, CancelReaches
<1> QED BY <1>1, <1>2, <1>3, TypeCorrect, PTL DEF Spec
=============================================================================
