---------------------------- MODULE TurnLifecycle ----------------------------
(***************************************************************************)
(* What the runtime promises about a turn and its approval, as an operator *)
(* who reads the store sees them: a turn is submitted once, runs only      *)
(* after an accepted approval if it asked for one, and ends once.          *)
(***************************************************************************)
CONSTANTS Turns

VARIABLES
    status,     \* status of the turn's record, "none" before there is one
    decision    \* status of the approval record, "none" before there is one

Ended == {"completed", "interrupted", "failed"}

Init == status = [t \in Turns |-> "none"] /\ decision = [t \in Turns |-> "none"]

(* A turn is recorded as running, as waiting for approval, or as refused. *)
Submit(t) ==
    /\ status[t] = "none"
    /\ \E new \in {"in_progress", "waiting_for_approval", "failed"} :
           status' = [status EXCEPT ![t] = new]
    /\ UNCHANGED decision

(* Only a turn that waits may ask, and only once. *)
Ask(t) ==
    /\ status[t] = "waiting_for_approval" /\ decision[t] = "none"
    /\ decision' = [decision EXCEPT ![t] = "pending"]
    /\ UNCHANGED status

Decide(t) ==
    /\ decision[t] = "pending"
    /\ \E answer \in {"accept", "decline"} : decision' = [decision EXCEPT ![t] = answer]
    /\ UNCHANGED status

Proceed(t) ==
    /\ status[t] = "waiting_for_approval" /\ decision[t] = "accept"
    /\ status' = [status EXCEPT ![t] = "in_progress"]
    /\ UNCHANGED decision

Reject(t) ==
    /\ status[t] = "waiting_for_approval" /\ decision[t] = "decline"
    /\ status' = [status EXCEPT ![t] = "interrupted"]
    /\ UNCHANGED decision

(* A restart gives up a turn that waits although nobody can be asked any more. *)
GiveUp(t) ==
    /\ status[t] = "waiting_for_approval" /\ decision[t] # "pending"
    /\ status' = [status EXCEPT ![t] = "failed"]
    /\ UNCHANGED decision

Finish(t) ==
    /\ status[t] = "in_progress"
    /\ \E outcome \in Ended : status' = [status EXCEPT ![t] = outcome]
    /\ UNCHANGED decision

Next == \E t \in Turns : \/ Submit(t) \/ Ask(t) \/ Decide(t) \/ Proceed(t)
                         \/ Reject(t) \/ GiveUp(t) \/ Finish(t)

Spec == Init /\ [][Next]_<<status, decision>>
=============================================================================
