--------------------------- MODULE MCTeamDelivery ---------------------------
(* Instances of TeamDelivery for TLC. *)
EXTENDS TeamDelivery, TLC

(* Messages and handlers are interchangeable: they are only compared. *)
Symmetry == Permutations(Messages) \cup Permutations(Tasks)

(***************************************************************************)
(* Three profiles, chosen at the start.  "clients": sends return no error  *)
(* while clients retry and cancel.  "errors": sends err, whether the turn  *)
(* was taken or not, and clients retry.  "recovery": sends err and the     *)
(* runtime restarts.  The theorems have all of it at once.                 *)
(***************************************************************************)
VARIABLE profile

Profiles == {"clients", "errors", "recovery"}

Cancels == \E d \in Deliveries : mem[d] # "cancelled" /\ mem'[d] = "cancelled"

KeepsTo ==
    /\ profile = "clients" => \A t \in Workers : ~SendErrs(t)
    /\ profile = "errors" => crashes' = 0 /\ ~Cancels
    /\ profile = "recovery" => touched' = touched

MCInit == Init /\ profile \in Profiles
MCNext == Next /\ KeepsTo /\ UNCHANGED profile
MCSpec == MCInit /\ [][MCNext]_<<vars, profile>>
MCFairInit == Init /\ profile = "clients"
MCFairSpec == MCFairInit /\ [][MCNext]_<<vars, profile>> /\ Fairness
=============================================================================
