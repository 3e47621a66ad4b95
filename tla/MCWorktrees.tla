---------------------------- MODULE MCWorktrees ----------------------------
(* Instances of Worktrees for TLC. *)
EXTENDS Worktrees, TLC

(* Handlers are only compared. *)
Symmetry == Permutations(Calls)

Scope(requests, names, spawns, invocations, faults, restarts) ==
    [requests |-> requests, names |-> names, spawns |-> spawns, invocations |-> invocations,
     faults |-> faults, crashes |-> restarts]

OneName == {CHOOSE n \in Names : TRUE}

(* A worktree that is created, claimed, released and cleaned up. *)
ClaimScope ==
    Scope({"create", "claim", "release", "cleanup"}, OneName, {"none"}, {None}, {"git", "init"}, 1)

(* Two worktrees that are claimed by the same sessions. *)
RaceScope == Scope({"create", "claim"}, Names, {"none"}, {None}, {}, 1)

(* Spawns with and without a worktree, any step of which may fail. *)
SpawnScope == Scope({"remove"}, OneName, Modes, {None},
                    {"source", "store", "provider", "team", "close"}, 0)

(* What a failing store leaves of a member comes back with a restart. *)
RejoinScope == Scope({"remove"}, OneName, {"none"}, {None}, {"store", "team"}, 1)

(* One invocation of the gateway, repeated, dropped, expired. *)
AddScope == Scope({"remove"}, OneName, {"none", "create"}, Invocations, {"team", "drop", "ttl"}, 1)

(* An invocation whose spawn cannot be recorded is aborted and repeated. *)
RepeatScope == Scope({"remove"}, OneName, {"none"}, Invocations, {"store"}, 0)

(* The startup on a store that an older version or an operator left. *)
LegacyScope == Scope({}, {}, {}, {}, {}, 1)

SafetyScopes == {ClaimScope, RaceScope, SpawnScope, RejoinScope, AddScope, RepeatScope,
                 LegacyScope}

(* Cleanup against claims alone. *)
CleanupScopes == {[ClaimScope EXCEPT !.faults = {}, !.crashes = 0]}

(* Two rows of one worktree and a third row. *)
LegacyRows ==
    LET row(id, padded, policy, at) ==
            [identity |-> id, padded |-> padded, policy |-> policy, created_at |-> at]
    IN  {[i \in Ids |-> CASE i = 1 -> row(n, b, "retain_on_last_claim", 1)
                          [] i = 2 -> row(n, ~b, "delete_on_last_claim", at)
                          [] i = 3 -> other
                          [] OTHER -> None] :
         n \in OneName, b \in BOOLEAN, at \in {0, 2},
         other \in {None, row("blank", FALSE, "delete_on_last_claim", 1),
                    row("tombstone", FALSE, "retain_on_last_claim", 0)}}

LegacyClaims(rows) == {h \in Claims : Consistent(rows, h)}

(* Init on an empty store and on these ones. *)
EmptyStore == InitWith([i \in Ids |-> None], [i \in Ids |-> [s \in Sessions |-> None]])

MCInit == \/ EmptyStore /\ scope # LegacyScope
          \/ \E rows \in LegacyRows : \E h \in LegacyClaims(rows) :
                InitWith(rows, h) /\ scope = LegacyScope
MCSpec == MCInit /\ [][Next]_vars
=============================================================================
