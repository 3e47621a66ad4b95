-------------------------- MODULE MCSessionRuntime --------------------------
(* Instances of SessionRuntime for TLC. *)
EXTENDS SessionRuntime, TLC

(* Turn ids and handlers are interchangeable: they are only compared. *)
Symmetry == Permutations(Turns) \cup Permutations(Calls)

(***************************************************************************)
(* One run covers several profiles: the clients of a behaviour keep to the *)
(* requests of one of them, chosen at the start.                           *)
(***************************************************************************)
VARIABLE profile

(* Requests about turns and approvals on a session that is not closed. *)
TurnProfile == {"create", "send", "send_for_approval", "accept", "decline", "interrupt",
                "set_worktree"}

(* Requests that change the session record while turns run or wait. *)
CloseProfile == {"create", "send", "send_for_approval", "close"}
ResumeProfile == {"create", "send", "resume"}

KeepsTo == \A c \in Calls : calls[c] = Idle /\ calls'[c] # Idle => calls'[c].arg \in profile

MCInit == Init /\ profile \in {TurnProfile, CloseProfile, ResumeProfile}
MCNext == Next /\ KeepsTo /\ UNCHANGED profile
MCSpec == MCInit /\ [][MCNext]_<<vars, profile>>

(* Two clients that only send. *)
MCSendSpec == Init /\ profile = {"create", "send"} /\ [][MCNext]_<<vars, profile>>

(* Two turns that race for one session. *)
RaceProfile == {"create", "send", "send_for_approval", "accept", "decline"}

(* Everything that may happen to the only turn of a session that is never resumed. *)
OneTurnProfile == AllOperations \ {"resume"}

TheTurn == CHOOSE t \in Turns : TRUE
OneTurn == \A t \in Turns : owner'[t] # None => t = TheTurn

MCLiveInit == Init /\ profile \in {RaceProfile, OneTurnProfile}
MCLiveNext == MCNext /\ (profile = OneTurnProfile => OneTurn)
MCLiveSpec == MCLiveInit /\ [][MCLiveNext]_<<vars, profile>> /\ Fairness
=============================================================================
