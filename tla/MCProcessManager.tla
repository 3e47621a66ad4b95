-------------------------- MODULE MCProcessManager --------------------------
(* Instances of ProcessManager for TLC. *)
EXTENDS ProcessManager, TLC

(* Handlers are interchangeable: they are only compared. *)
Symmetry == Permutations(Calls)

(***************************************************************************)
(* Two profiles, chosen at the start: several processes that write         *)
(* nothing, or one process that writes.  Pumps of different processes      *)
(* share nothing.                                                          *)
(***************************************************************************)
VARIABLE profile

Profiles == {"silent", "writing"}

KeepsTo ==
    /\ profile = "silent" => \A p \in Ids, s \in Streams : out'[p][s].seen = 0
    /\ profile = "writing" => next_process_id' <= 2

MCInit == Init /\ profile \in Profiles
MCNext == Next /\ KeepsTo /\ UNCHANGED profile
MCSpec == MCInit /\ [][MCNext]_<<vars, profile>>
MCFairInit == Init /\ profile = "silent"
MCFairSpec == MCFairInit /\ [][MCNext]_<<vars, profile>> /\ Fairness
=============================================================================
