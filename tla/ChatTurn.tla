------------------------------ MODULE ChatTurn ------------------------------
(***************************************************************************)
(* What a chat turn promises to the people who look at it: it is accepted, *)
(* it runs, it has one outcome, and it is retried only if it has failed.   *)
(* The promise ends for a turn that was cut off: the backend called it     *)
(* failed without hearing from whoever executes it, or somebody retried    *)
(* it in a window that had not heard that it goes on.  Whoever executes it *)
(* may still report, and what is reported is believed.  A turn may be cut  *)
(* off on the strength of an old look at it, and have ended meanwhile.     *)
(***************************************************************************)
CONSTANT Turns

VARIABLES
  status,    \* the status of each turn (SubtaskStatus)
  cut,       \* the turns that were cut off at some time
  failed,    \* the turns that have been failed at some time
  suspected  \* the turns that were RUNNING when the backend last looked

vars == << status, cut, failed, suspected >>

Outcomes == {"completed", "failed", "cancelled"}

Init == /\ status = [t \in Turns |-> "new"]
        /\ cut = {} /\ failed = {} /\ suspected = {}

NowFailed == failed \cup {t \in Turns : status'[t] = "failed"}

Becomes(t, st) == /\ status' = [status EXCEPT ![t] = st]
                  /\ failed' = NowFailed
                  /\ UNCHANGED suspected

Accept(t) == status[t] = "new" /\ Becomes(t, "pending") /\ UNCHANGED cut

Run(t) == /\ status[t] = "pending" \/ t \in cut
          /\ Becomes(t, "running") /\ UNCHANGED cut

Report(t) == /\ status[t] = "running" \/ t \in cut
             /\ \E o \in Outcomes : Becomes(t, o)
             /\ UNCHANGED cut

\* The first retry after a failure goes on; one more cuts the turn off.
Retry(t) == /\ t \in failed
            /\ Becomes(t, "pending")
            /\ cut' = IF status[t] = "failed" THEN cut ELSE cut \cup {t}

Running == {t \in Turns : status[t] = "running"}

\* The backend looks at the turns, or forgets what it saw.
Look == /\ suspected' \in SUBSET (suspected \cup Running)
        /\ UNCHANGED << status, cut, failed >>

\* Several turns may be cut off at once.
CutOff(T) == /\ T \subseteq Running \cup suspected
             /\ status' = [t \in Turns |-> IF t \in T THEN "failed" ELSE status[t]]
             /\ cut' = cut \cup T /\ failed' = NowFailed
             /\ suspected' \in SUBSET suspected

Next == \/ \E t \in Turns : Accept(t) \/ Run(t) \/ Report(t) \/ Retry(t)
        \/ \E T \in SUBSET Turns : CutOff(T)
        \/ Look

Spec == Init /\ [][Next]_vars

\* What the promise is worth: an outcome that is no failure is never written over,
\* unless the turn was cut off, by then or by this very step, or has failed before.
OutcomeIsFinal ==
  [][\A t \in Turns :
       status[t] \in {"completed", "cancelled"} /\ t \notin failed \cup cut'
         => status'[t] = status[t]]_vars
=============================================================================
