---------------------------- MODULE GoalLifecycle ----------------------------
(***************************************************************************)
(* What the goal handles of the action server allow: the transitions of    *)
(* transition_goal_state (action/mod.rs) and one more, from executing to   *)
(* canceled, which that table calls invalid and GoalHandle::canceled does  *)
(* not refuse.  Terminal statuses are final, and a result is only ever     *)
(* reported for a goal that reached a terminal status, with that status.   *)
(* ActionServer is shown to implement this specification.                  *)
(***************************************************************************)
CONSTANT Goals

VARIABLES
    status,    \* the status of each goal's handle
    reported   \* the statuses result replies carried, per goal

vars == <<status, reported>>

Terminal == {"succeeded", "canceled", "aborted"}
Active == {"accepted", "executing", "canceling"}
Status == {"unknown"} \cup Active \cup Terminal

GoalEvent == {"execute", "cancel_goal", "succeed", "abort", "canceled"}

\* The table of transition_goal_state; every other pair is invalid.
transition_goal_state(current, event) ==
    CASE current = "accepted" /\ event = "execute" -> "executing"
      [] current = "accepted" /\ event = "cancel_goal" -> "canceling"
      [] current = "executing" /\ event = "cancel_goal" -> "canceling"
      [] current \in {"executing", "canceling"} /\ event = "succeed" -> "succeeded"
      [] current \in {"executing", "canceling"} /\ event = "abort" -> "aborted"
      [] current = "canceling" /\ event = "canceled" -> "canceled"
      [] OTHER -> "unknown"

Init ==
    /\ status = [g \in Goals |-> "unknown"]
    /\ reported = [g \in Goals |-> {}]

Accept(g) ==
    /\ status[g] = "unknown"
    /\ status' = [status EXCEPT ![g] = "accepted"]
    /\ UNCHANGED reported

Event(g) ==
    /\ \E event \in GoalEvent :
        /\ transition_goal_state(status[g], event) # "unknown"
        /\ status' = [status EXCEPT ![g] = transition_goal_state(@, event)]
    /\ UNCHANGED reported

\* GoalHandle::canceled consumes an executing handle, canceling or not.
CanceledUnasked(g) ==
    /\ status[g] = "executing"
    /\ status' = [status EXCEPT ![g] = "canceled"]
    /\ UNCHANGED reported

Report(g) ==
    /\ status[g] \in Terminal
    /\ reported' = [reported EXCEPT ![g] = {status[g]}]
    /\ UNCHANGED status

Next == \E g \in Goals : Accept(g) \/ Event(g) \/ CanceledUnasked(g) \/ Report(g)

Spec == Init /\ [][Next]_vars
=============================================================================
