----------------------------- MODULE Worktrees -----------------------------
(***************************************************************************)
(* The worktree service (runtime-tools/src/worktree) and the gateway calls *)
(* that add and remove team members through it.  Every operation reads the *)
(* store afresh, so the state is the rows of the store, the directories    *)
(* and branches of git, a lock per repository (here one repository), and   *)
(* how far each request has come.  An operation of the journal is named    *)
(* after the session that it would create.                                 *)
(***************************************************************************)
EXTENDS WorktreeStore

CONSTANTS Calls,        \* request handlers
          Invocations,  \* invocation ids of the tool gateway
          Scopes,       \* what clients ask for, what may fail and how often it restarts
          MaxCrashes    \* bound on the restarts

Faults == {"source", "git", "init", "store", "provider", "team", "close", "drop", "ttl"}
Requests == {"create", "claim", "release", "cleanup", "remove"}
Modes == {"none", "create", "reuse"}

ASSUME WorktreeConstants ==
    /\ MaxCrashes \in Nat /\ None \notin Sessions \cup Invocations \cup Calls
    /\ None \notin {"open", "closed", "running", "done"}
    /\ None \notin {"planned", "worktree_created", "session_created", "team_joined",
                    "onboarding_sent", "completed", "rolled_back"}
    /\ Scopes \subseteq [requests : SUBSET Requests, names : SUBSET Names, spawns : SUBSET Modes,
                         invocations : SUBSET (Invocations \cup {None}),
                         faults : SUBSET Faults, crashes : 0..MaxCrashes]

VARIABLES worktrees,   \* managed_worktrees
          claims,      \* managed_worktree_claims
          journal,     \* team_operation_journal: stage, and reason of a rollback
          session,     \* None, "open" or "closed"
          members,     \* sessions that are members of the team, in memory
          durableMembers,  \* and in the store
          strays,      \* members whose joining, recording or removal erred (history)
          unclosed,    \* sessions that their creation stored and then erred, or that the
                       \* store kept open (history)
          tree,        \* worktree directories that exist
          branch,      \* branches that exist
          lock,        \* who holds the lock of the repository
          calls,
          cache,       \* team_manage_add_idempotency: None, "running" or "done"
          added_by,    \* the invocation that an operation belongs to (history)
          forgotten,   \* invocations whose entry expired or was lost (history)
          scope,       \* which of Scopes a behaviour keeps to
          boot,        \* what repair_startup_state still has to write
          crashes

store == <<worktrees, claims, journal>>
git == <<tree, branch>>
memberships == <<members, durableMembers, strays>>
team == <<session, unclosed, memberships>>
rest == <<added_by, forgotten, scope, boot, crashes>>
vars == <<store, git, team, lock, calls, cache, rest>>

Stages == {None, "planned", "worktree_created", "session_created", "team_joined", "onboarding_sent",
           "completed", "rolled_back"}
Reasons == {None, "session_create_failed", "set_session_worktree_id_failed", "team_join_failed",
            "spawn_claim_failed_after_join", "spawn_onboarding_failed_after_join"}

(* What a handler keeps: where it is, where it goes on after a call of its *)
(* own, and the session, name and row it is about.  made is whether        *)
(* created_worktree_id is set, todo the claims of a removed member.        *)
Idle == [pc |-> "idle", after |-> "return", s |-> None, n |-> None, i |-> None,
         policy |-> "delete_on_last_claim", made |-> FALSE, inv |-> None, todo |-> {},
         reason |-> None]

Goto(c, pc) == calls' = [calls EXCEPT ![c].pc = pc] /\ UNCHANGED cache

(* The handler returns; an add by the gateway completes or aborts its entry. *)
Return(c, ok) ==
    /\ calls' = [calls EXCEPT ![c] = Idle]
    /\ LET inv == calls[c].inv
       IN  cache' = IF inv = None \/ cache[inv] = None THEN cache
                    ELSE [cache EXCEPT ![inv] = IF ok THEN "done" ELSE None]

(* A call inside a handler ends well. *)
Resume(c) == IF calls[c].after = "return" THEN Return(c, TRUE) ELSE Goto(c, calls[c].after)

Live(i) == worktrees[i] # None /\ ~is_record_tombstoned(worktrees[i])
active_claims_for(i) == {s \in Sessions : claims[i][s] = "active"}
has_live_artifacts(n) == n \in tree \cup branch

worktree_by_identity(rows, n) ==
    LET same == {i \in Known(rows) : rows[i].identity = n /\ ~rows[i].padded}
    IN  IF same = {} THEN None ELSE CHOOSE i \in same : TRUE

(* allocate_worktree_id: an id that no row has, as long as there is one. *)
FreshIds == {i \in Ids : worktrees[i] = None /\ \A j \in 1..(i - 1) : worktrees[j] # None}

NewRow(n, policy) == [identity |-> n, padded |-> FALSE, policy |-> policy,
                      created_at |-> Cardinality(Known(worktrees))]

Journal(s, stage, reason) ==
    journal' = [journal EXCEPT ![s] = [stage |-> stage, reason |-> reason]]
Advance(s, stage) == Journal(s, stage, None)

-----------------------------------------------------------------------------
(* create_worktree *)

create_worktree(c, n, policy) ==
    /\ calls[c].pc = "idle"
    /\ calls' = [calls EXCEPT ![c] = [Idle EXCEPT !.pc = "create_lock", !.n = n, !.policy = policy]]
    /\ UNCHANGED <<store, git, team, lock, cache, rest>>

(* The row that create_worktree or a reuse settles on. *)
Settle(c, i, made) ==
    IF calls[c].after = "return" THEN Return(c, TRUE)
    ELSE /\ calls' = [calls EXCEPT ![c].pc = calls[c].after, ![c].i = i, ![c].made = made]
         /\ UNCHANGED cache

(* With the lock: an existing row is returned unless it was cleaned up; the *)
(* branch and the directory must be new to git.                             *)
CreateUnderLock(c) ==
    LET n == calls[c].n
        e == worktree_by_identity(worktrees, n)
        stale_cleaned == /\ e # None /\ active_claims_for(e) = {} /\ ~has_live_artifacts(n)
                         /\ worktrees[e].policy = "delete_on_last_claim"
    IN  /\ calls[c].pc = "create_lock" /\ lock = None
        /\ \/ /\ e # None /\ ~stale_cleaned
              /\ Settle(c, e, TRUE)
              /\ UNCHANGED <<git, lock>>
           \/ /\ e = None \/ stale_cleaned
              /\ has_live_artifacts(n) \/ "git" \in scope.faults
              /\ Return(c, FALSE)
              /\ UNCHANGED <<git, lock>>
           \/ /\ e = None \/ stale_cleaned
              /\ ~has_live_artifacts(n)
              /\ tree' = tree \cup {n} /\ branch' = branch \cup {n}
              /\ lock' = c
              /\ Goto(c, "create_init")
        /\ UNCHANGED <<store, team, rest>>

(* Removal of the directory and of the branch; git may fail on each. *)
GitRemove(n) ==
    /\ tree' = tree \ {n} \/ ("git" \in scope.faults /\ tree' = tree)
    /\ branch' = branch \ {n} \/ ("git" \in scope.faults /\ branch' = branch)

(* Mutant: the repository stays locked. *)
run_worktree_init_script_locked(c) ==
    /\ calls[c].pc = "create_init"
    /\ \/ Goto(c, "create_record") /\ UNCHANGED <<git, lock>>
       \/ "init" \in scope.faults /\ GitRemove(calls[c].n) /\ UNCHANGED lock /\ Return(c, FALSE)
    /\ UNCHANGED <<store, team, rest>>

run_worktree_init_script(c) ==
    /\ calls[c].pc = "create_init"
    /\ \/ Goto(c, "create_record") /\ UNCHANGED <<git, lock>>
       \/ "init" \in scope.faults /\ GitRemove(calls[c].n) /\ lock' = None /\ Return(c, FALSE)
    /\ UNCHANGED <<store, team, rest>>

(* The row is written and read back by its identity; the guard is dropped. *)
upsert_worktree_record(c) ==
    /\ calls[c].pc = "create_record"
    /\ lock' = None
    /\ \/ /\ \E id \in FreshIds :
                worktrees' = upsert_managed_worktree(worktrees, id, NewRow(calls[c].n, calls[c].policy))
          /\ Settle(c, worktree_by_identity(worktrees', calls[c].n), TRUE)
       \/ "store" \in scope.faults /\ Return(c, FALSE) /\ UNCHANGED worktrees
    /\ UNCHANGED <<claims, journal, git, team, rest>>

-----------------------------------------------------------------------------
(* claim_worktree, release_worktree and cleanup_worktree *)

(* No other worktree is claimed by the session. *)
CanClaim(i, s) == Live(i) /\ \A j \in Ids \ {i} : claims[j][s] # "active"

claim_worktree(c, i, s) ==
    /\ calls[c].pc = "idle" /\ session[s] # None /\ CanClaim(i, s)
    /\ calls' = [calls EXCEPT ![c] = [Idle EXCEPT !.pc = "claim_write", !.i = i, !.s = s]]
    /\ UNCHANGED <<store, git, team, lock, cache, rest>>

(* The claim of a request, or of a spawn, which rolls back without it. *)
WriteClaim(c) ==
    /\ calls[c].pc = "claim_write"
    /\ \/ /\ claims' = [claims EXCEPT ![calls[c].i][calls[c].s] = "active"]
          /\ Resume(c)
       \/ /\ "store" \in scope.faults
          /\ IF calls[c].after = "return" THEN Return(c, FALSE)
             ELSE /\ calls' = [calls EXCEPT ![c].pc = "rollback",
                                            ![c].reason = "spawn_claim_failed_after_join"]
                  /\ UNCHANGED cache
          /\ UNCHANGED claims
    /\ UNCHANGED <<worktrees, journal, git, team, lock, rest>>

(* The claim is released at once; if cleanup_if_last_claim says so, cleanup *)
(* looks at the claims again.                                               *)
release_worktree(c, i, s, cleanup_if_last_claim) ==
    /\ calls[c].pc = "idle" /\ Live(i) /\ claims[i][s] # None
    /\ claims' = [claims EXCEPT ![i][s] = "released"]
    /\ calls' = IF cleanup_if_last_claim
                THEN [calls EXCEPT ![c] = [Idle EXCEPT !.pc = "cleanup_check", !.i = i]]
                ELSE calls
    /\ UNCHANGED <<worktrees, journal, git, team, lock, cache, rest>>

cleanup_worktree(c, i) ==
    /\ calls[c].pc = "idle" /\ Live(i)
    /\ calls' = [calls EXCEPT ![c] = [Idle EXCEPT !.pc = "cleanup_check", !.i = i]]
    /\ UNCHANGED <<store, git, team, lock, cache, rest>>

(* The claims are counted and the policy is read before the lock is taken. *)
CheckClaims(c) ==
    LET i == calls[c].i
    IN  /\ calls[c].pc = "cleanup_check"
        /\ IF /\ Live(i) /\ active_claims_for(i) = {}
              /\ worktrees[i].policy = "delete_on_last_claim"
           THEN Goto(c, "cleanup_lock")
           ELSE Resume(c)
        /\ UNCHANGED <<store, git, team, lock, rest>>

RemoveArtifacts(c) ==
    /\ calls[c].pc = "cleanup_lock" /\ lock = None
    /\ GitRemove(worktrees[calls[c].i].identity)
    /\ Resume(c)
    /\ UNCHANGED <<store, team, lock, rest>>

-----------------------------------------------------------------------------
(* spawn_team_member *)

(* Mutant: an invocation that still runs is started again. *)
begin_if_not_done(inv) == inv \in Invocations => cache[inv] # "done"

(* begin_manage_add_idempotent_execution: a request of the API has no id. *)
begin_manage_add(inv) == inv \in Invocations => cache[inv] = None

(* The operation is planned in the journal, then the source session is read. *)
spawn_team_member(c, s, mode, n, inv) ==
    /\ calls[c].pc = "idle"
    /\ journal[s].stage = None /\ session[s] = None  \* the ids are new
    /\ begin_manage_add(inv)
    /\ Advance(s, "planned")
    /\ \/ /\ calls' = [calls EXCEPT ![c] =
                [Idle EXCEPT !.pc = CASE mode = "create" -> "create_lock"
                                      [] mode = "reuse" -> "reuse"
                                      [] OTHER -> "session",
                             !.after = IF mode = "create" THEN "worktree_created" ELSE "session",
                             !.s = s, !.n = n, !.inv = inv]]
          /\ cache' = IF inv = None THEN cache ELSE [cache EXCEPT ![inv] = "running"]
       \/ "source" \in scope.faults /\ UNCHANGED <<calls, cache>>
    /\ added_by' = [added_by EXCEPT ![s] = inv]
    /\ UNCHANGED <<worktrees, claims, git, team, lock, forgotten, scope, boot, crashes>>

(* Reuse takes no lock: a known row needs a directory or a branch, an       *)
(* unknown directory gets a row of its own that is never cleaned up.        *)
ReuseWorktree(c) ==
    LET n == calls[c].n
        e == worktree_by_identity(worktrees, n)
    IN  /\ calls[c].pc = "reuse"
        /\ \/ /\ e # None /\ has_live_artifacts(n)
              /\ Settle(c, e, FALSE)
              /\ UNCHANGED worktrees
           \/ /\ e = None /\ n \in tree
              /\ \E id \in FreshIds :
                    worktrees' = upsert_managed_worktree(worktrees, id,
                                                         NewRow(n, "retain_on_last_claim"))
              /\ Settle(c, worktree_by_identity(worktrees', n), FALSE)
           \/ /\ \/ e # None /\ ~has_live_artifacts(n)
                 \/ e = None /\ (n \notin tree \/ "store" \in scope.faults)
              /\ Return(c, FALSE)
              /\ UNCHANGED worktrees
        /\ UNCHANGED <<claims, journal, git, team, lock, rest>>

(* A request that errs here leaves everything as it is, a member too. *)
ErrRecording(c) ==
    /\ "store" \in scope.faults
    /\ Return(c, FALSE)
    /\ strays' = strays \cup (members \cap {calls[c].s})

(* A stage is recorded, or the request ends there. *)
Record(c, stage, pc) ==
    \/ Advance(calls[c].s, stage) /\ Goto(c, pc) /\ UNCHANGED strays
    \/ ErrRecording(c) /\ UNCHANGED journal

WorktreeCreated(c) ==
    /\ calls[c].pc = "worktree_created"
    /\ Record(c, "worktree_created", "session")
    /\ UNCHANGED <<worktrees, claims, session, unclosed, members, durableMembers, git, lock, rest>>

(* A worktree that the operation made is cleaned up before the journal says *)
(* rolled_back.                                                             *)
Undo(c, reason) ==
    /\ calls' = [calls EXCEPT ![c].pc = IF calls[c].made THEN "cleanup_check" ELSE "rolled_back",
                              ![c].after = "rolled_back", ![c].reason = reason]
    /\ UNCHANGED cache

(* An error may come from the provider or the store before there is a      *)
(* session, or from the append of its event when there is one; it is        *)
(* handled as if there were none.                                           *)
create_session(c) ==
    /\ calls[c].pc = "session"
    /\ \/ /\ session' = [session EXCEPT ![calls[c].s] = "open"]
          /\ Record(c, "session_created", "assign")
          /\ UNCHANGED unclosed
       \/ /\ \/ /\ {"provider", "store"} \cap scope.faults # {}
                /\ UNCHANGED <<session, unclosed>>
             \/ /\ "store" \in scope.faults
                /\ session' = [session EXCEPT ![calls[c].s] = "open"]
                /\ unclosed' = unclosed \cup {calls[c].s}
          /\ Undo(c, "session_create_failed")
          /\ UNCHANGED <<journal, strays>>
    /\ UNCHANGED <<worktrees, claims, members, durableMembers, git, lock, rest>>

(* A close that fails is forced; the store, which is written first, may     *)
(* refuse that too, and the rollback goes on.                               *)
CloseOrForce(s) ==
    \/ session' = [session EXCEPT ![s] = "closed"] /\ UNCHANGED unclosed
    \/ "store" \in scope.faults /\ unclosed' = unclosed \cup {s} /\ UNCHANGED session

set_session_worktree_id(c) ==
    /\ calls[c].pc = "assign"
    /\ \/ Goto(c, "join") /\ UNCHANGED <<session, unclosed>>
       \/ /\ calls[c].i # None /\ "store" \in scope.faults
          /\ CloseOrForce(calls[c].s)
          /\ Undo(c, "set_session_worktree_id_failed")
    /\ UNCHANGED <<store, memberships, git, lock, rest>>

(* A failed join closes the session, and does not force it; a store that   *)
(* fails leaves the member in memory.                                      *)
join_team(c) ==
    /\ calls[c].pc = "join"
    /\ \/ /\ members' = members \cup {calls[c].s}
          /\ durableMembers' = durableMembers \cup {calls[c].s}
          /\ Goto(c, "claim")
          /\ UNCHANGED <<session, strays>>
       \/ /\ \/ "team" \in scope.faults /\ UNCHANGED <<members, strays>>
             \/ /\ "store" \in scope.faults
                /\ members' = members \cup {calls[c].s}
                /\ strays' = strays \cup {calls[c].s}
          /\ \/ session' = [session EXCEPT ![calls[c].s] = "closed"]
             \/ {"close", "store"} \cap scope.faults # {} /\ UNCHANGED session
          /\ Undo(c, "team_join_failed")
          /\ UNCHANGED durableMembers
    /\ UNCHANGED <<store, unclosed, git, lock, rest>>

ClaimForMember(c) ==
    /\ calls[c].pc = "claim"
    /\ calls' = IF calls[c].i = None THEN [calls EXCEPT ![c].pc = "joined"]
                ELSE IF CanClaim(calls[c].i, calls[c].s)
                THEN [calls EXCEPT ![c].pc = "claim_write", ![c].after = "joined"]
                ELSE [calls EXCEPT ![c].pc = "rollback",
                                   ![c].reason = "spawn_claim_failed_after_join"]
    /\ UNCHANGED <<store, git, team, lock, cache, rest>>

TeamJoined(c) ==
    /\ calls[c].pc = "joined"
    /\ Record(c, "team_joined", "onboard")
    /\ UNCHANGED <<worktrees, claims, session, unclosed, members, durableMembers, git, lock, rest>>

(* send_direct refuses a recipient that is no member any more. *)
SendOnboarding(c) ==
    /\ calls[c].pc = "onboard"
    /\ \/ /\ calls[c].s \in members
          /\ \/ Advance(calls[c].s, "completed") /\ Return(c, TRUE) /\ UNCHANGED strays
             \/ /\ ErrRecording(c)
                /\ UNCHANGED journal \/ Advance(calls[c].s, "onboarding_sent")
       \/ /\ calls[c].s \notin members \/ "team" \in scope.faults
          /\ calls' = [calls EXCEPT ![c].pc = "rollback",
                                    ![c].reason = "spawn_onboarding_failed_after_join"]
          /\ UNCHANGED <<journal, strays, cache>>
    /\ UNCHANGED <<worktrees, claims, session, unclosed, members, durableMembers, git, lock, rest>>

(* remove_team_member changes memory first; a store that fails keeps the    *)
(* member, which a restart brings back.                                     *)
MemberLeaves(s) ==
    /\ s \in members
    /\ members' = members \ {s} /\ durableMembers' = durableMembers \ {s}
    /\ UNCHANGED strays

MemberLeavesMemory(s) ==
    /\ s \in members /\ "store" \in scope.faults
    /\ members' = members \ {s} /\ strays' = strays \cup {s}
    /\ UNCHANGED durableMembers

(* The team is gone, or the member, or nobody else is left in the team. *)
MemberStays(s) ==
    /\ s \notin members \/ "team" \in scope.faults
    /\ strays' = strays \cup (members \cap {s})
    /\ UNCHANGED <<members, durableMembers>>

(* Mutant: the session is only asked to close. *)
rollback_without_force(c) ==
    /\ calls[c].pc = "rollback"
    /\ MemberLeaves(calls[c].s) \/ MemberLeavesMemory(calls[c].s) \/ MemberStays(calls[c].s)
    /\ \/ session' = [session EXCEPT ![calls[c].s] = "closed"]
       \/ "close" \in scope.faults /\ UNCHANGED session
    /\ Goto(c, "rollback_claim")
    /\ UNCHANGED <<store, unclosed, git, lock, rest>>

(* rollback_spawn_after_join: the member leaves and its session is closed, *)
(* whether or not the other fails; then its claim is released and a        *)
(* created worktree cleaned up.                                            *)
rollback_spawn_after_join(c) ==
    /\ calls[c].pc = "rollback"
    /\ MemberLeaves(calls[c].s) \/ MemberLeavesMemory(calls[c].s) \/ MemberStays(calls[c].s)
    /\ CloseOrForce(calls[c].s)
    /\ Goto(c, "rollback_claim")
    /\ UNCHANGED <<store, git, lock, rest>>

RollbackClaim(c) ==
    LET i == calls[c].i
        s == calls[c].s
    IN  /\ calls[c].pc = "rollback_claim"
        /\ \/ claims' = IF i \in Ids /\ claims[i][s] # None
                        THEN [claims EXCEPT ![i][s] = "released"] ELSE claims
           \/ "store" \in scope.faults /\ UNCHANGED claims
        /\ Undo(c, calls[c].reason)
        /\ UNCHANGED <<worktrees, journal, git, team, lock, rest>>

RolledBack(c) ==
    /\ calls[c].pc = "rolled_back"
    /\ \/ Journal(calls[c].s, "rolled_back", calls[c].reason)
       \/ "store" \in scope.faults /\ UNCHANGED journal
    /\ Return(c, FALSE)
    /\ UNCHANGED <<worktrees, claims, git, team, lock, rest>>

-----------------------------------------------------------------------------
(* Removing a member, requests that end early, and restarts *)

(* The member leaves; if the store fails, its claims are not looked at. *)
invoke_team_manage_remove(c, s) ==
    /\ calls[c].pc = "idle"
    /\ \/ /\ MemberLeaves(s)
          /\ calls' = [calls EXCEPT ![c] = [Idle EXCEPT !.pc = "removed", !.s = s]]
       \/ MemberLeavesMemory(s) /\ UNCHANGED calls
    /\ UNCHANGED <<store, session, unclosed, git, lock, cache, rest>>

(* on_member_removed: the claims are read once, then released one by one,  *)
(* each followed by a cleanup.                                             *)
on_member_removed(c) ==
    /\ calls[c].pc = "removed"
    /\ calls' = [calls EXCEPT ![c].pc = "member_claims", ![c].after = "member_claims",
                    ![c].todo = {i \in Ids : claims[i][calls[c].s] = "active"}]
    /\ UNCHANGED <<store, git, team, lock, cache, rest>>

ReleaseNextClaim(c) ==
    /\ calls[c].pc = "member_claims"
    /\ \/ /\ calls[c].todo = {} /\ Return(c, TRUE) /\ UNCHANGED claims
       \/ \E i \in calls[c].todo :
            /\ \/ /\ claims' = [claims EXCEPT ![i][calls[c].s] = "released"]
                  /\ calls' = [calls EXCEPT ![c].pc = "cleanup_check", ![c].i = i,
                                            ![c].todo = @ \ {i}]
               \/ /\ "store" \in scope.faults
                  /\ calls' = [calls EXCEPT ![c].todo = @ \ {i}]
                  /\ UNCHANGED claims
            /\ UNCHANGED cache
    /\ UNCHANGED <<worktrees, journal, git, team, lock, rest>>

(* The client goes away and the handler is dropped where it waits, with its *)
(* entry still running.                                                     *)
DropCall(c) ==
    /\ "drop" \in scope.faults
    /\ calls[c].pc \in {"create_lock", "cleanup_lock", "session", "assign", "join", "onboard",
                        "rollback"}
    /\ calls' = [calls EXCEPT ![c] = Idle]
    /\ UNCHANGED <<store, git, team, lock, cache, rest>>

(* An entry older than the time to live, running or not, is dropped. *)
Expire(inv) ==
    /\ "ttl" \in scope.faults /\ cache[inv] # None
    /\ cache' = [cache EXCEPT ![inv] = None]
    /\ forgotten' = forgotten \cup {inv}
    /\ UNCHANGED <<store, git, team, lock, calls, added_by, scope, boot, crashes>>

(* The process stops anywhere, also between two writes of the repair; what  *)
(* is in the store comes back.  A session is stored before it is in memory, *)
(* so that session stands for both.                                         *)
Crash ==
    /\ crashes < scope.crashes
    /\ crashes' = crashes + 1
    /\ lock' = None
    /\ calls' = [c \in Calls |-> Idle]
    /\ cache' = [k \in Invocations |-> None]
    /\ forgotten' = Invocations
    /\ boot' = repair_startup_state(worktrees, claims)
    /\ members' = durableMembers
    /\ UNCHANGED <<store, git, session, unclosed, durableMembers, strays, added_by, scope>>

StartupWrite ==
    /\ \E w \in boot :
          /\ \A v \in boot : w.phase <= v.phase
          /\ IF w.phase <= 3
             THEN /\ worktrees' = upsert_managed_worktree(worktrees, w.id, w.row)
                  /\ UNCHANGED claims
             ELSE /\ claims' = [claims EXCEPT ![w.id][w.session] = w.state]
                  /\ UNCHANGED worktrees
          /\ boot' = boot \ {w}
    /\ UNCHANGED <<journal, git, team, lock, calls, cache, added_by, forgotten, scope, crashes>>

-----------------------------------------------------------------------------
(* A store with some rows and claims, before its repair. *)
InitWith(rows, held) ==
    /\ worktrees = rows /\ claims = held
    /\ journal = [s \in Sessions |-> [stage |-> None, reason |-> None]]
    /\ session = [s \in Sessions |-> IF \E i \in Ids : held[i][s] # None THEN "open" ELSE None]
    /\ members = {} /\ durableMembers = {} /\ strays = {} /\ unclosed = {}
    /\ tree = {} /\ branch = {}
    /\ lock = None
    /\ calls = [c \in Calls |-> Idle]
    /\ cache = [k \in Invocations |-> None] /\ forgotten = {}
    /\ added_by = [s \in Sessions |-> None]
    /\ scope \in Scopes
    /\ boot = repair_startup_state(rows, held)
    /\ crashes = 0

(* The keys of the two tables: a row has an identity of its own, a claim  *)
(* belongs to a row.                                                       *)
Consistent(rows, held) ==
    /\ \A i, j \in Known(rows) : i # j /\ rows[i].identity \in Names =>
          rows[i].identity # rows[j].identity \/ rows[i].padded # rows[j].padded
    /\ \A i \in Ids, s \in Sessions : rows[i] = None => held[i][s] = None

(* Whatever an earlier run, an older version or an operator left. *)
Init == \E rows \in Rows, held \in Claims : Consistent(rows, held) /\ InitWith(rows, held)

(* A step of a handler that is running. *)
Step(c) ==
    \/ CreateUnderLock(c) \/ run_worktree_init_script(c) \/ upsert_worktree_record(c)
    \/ WriteClaim(c) \/ CheckClaims(c) \/ RemoveArtifacts(c)
    \/ ReuseWorktree(c) \/ WorktreeCreated(c) \/ create_session(c) \/ set_session_worktree_id(c)
    \/ join_team(c) \/ ClaimForMember(c) \/ TeamJoined(c) \/ SendOnboarding(c)
    \/ rollback_spawn_after_join(c) \/ RollbackClaim(c) \/ RolledBack(c)
    \/ on_member_removed(c) \/ ReleaseNextClaim(c)

Asks(request) == request \in scope.requests

Request(c) ==
    \/ Asks("create") /\ \E n \in scope.names, policy \in Policies : create_worktree(c, n, policy)
    \/ Asks("claim") /\ \E i \in Ids, s \in Sessions : claim_worktree(c, i, s)
    \/ Asks("release") /\ \E i \in Ids, s \in Sessions, last \in BOOLEAN :
                            release_worktree(c, i, s, last)
    \/ Asks("cleanup") /\ \E i \in Ids : cleanup_worktree(c, i)
    \/ Asks("remove") /\ \E s \in Sessions : invoke_team_manage_remove(c, s)
    \/ \E s \in Sessions, mode \in scope.spawns, inv \in scope.invocations :
          \E n \in IF mode = "none" THEN {None} ELSE scope.names : spawn_team_member(c, s, mode, n, inv)

Next ==
    \/ StartupWrite
    \/ boot = {} /\ \E c \in Calls : Request(c) \/ Step(c) \/ DropCall(c)
    \/ \E inv \in Invocations : Expire(inv)
    \/ Crash

Spec == Init /\ [][Next]_vars

-----------------------------------------------------------------------------
(* Properties *)

(* Every row, every directory and every handler has the shape the service  *)
(* gives it, and the repository is locked exactly while a creation runs    *)
(* its init script or writes its row: no error path keeps the lock.        *)
TypeOK ==
    /\ worktrees \in Rows /\ claims \in Claims
    /\ journal \in [Sessions -> [stage : Stages, reason : Reasons]]
    /\ session \in [Sessions -> {None, "open", "closed"}] 
    /\ members \subseteq Sessions /\ durableMembers \subseteq Sessions
    /\ strays \subseteq Sessions /\ unclosed \subseteq Sessions
    /\ tree \subseteq Names /\ branch \subseteq Names
    /\ cache \in [Invocations -> {None, "running", "done"}]
    /\ added_by \in [Sessions -> Invocations \cup {None}] /\ forgotten \subseteq Invocations
    /\ crashes \in 0..MaxCrashes
    /\ \A c \in Calls : /\ calls[c].s \in Sessions \cup {None} /\ calls[c].i \in Ids \cup {None}
                         /\ calls[c].n \in Names \cup {None} /\ calls[c].todo \subseteq Ids
                         /\ lock = c <=> calls[c].pc \in {"create_init", "create_record"}

(* A spawn whose journal says rolled_back has left a member only if the     *)
(* joining or the removal of that member erred, and an open session only if *)
(* the store refused to close it or its creation erred after storing it, or *)
(* if it was the join that failed, where a refused close is not forced      *)
(* (spawn.rs, rollback_spawn_after_join and the error paths before it).     *)
RolledBackIsUndone ==
    \A s \in Sessions : journal[s].stage = "rolled_back" =>
        /\ s \in members => s \in strays
        /\ session[s] = "open" =>
              s \in unclosed \/ journal[s].reason = "team_join_failed"

(* A gateway invocation adds one member however often it is repeated, as   *)
(* long as its entry has neither expired nor been lost in a restart; a      *)
(* spawn that erred after joining aborts the entry, and the member it has   *)
(* left comes on top (gateway/team.rs,                                      *)
(* begin_manage_add_idempotent_execution; spawn.rs, record_journal).        *)
AddedOnce ==
    \A k \in Invocations \ forgotten :
        Cardinality({s \in members \ strays : added_by[s] = k}) <= 1

(* After startup a session holds one worktree at most, whatever two racing *)
(* claims, an older version or an interrupted repair left in the store     *)
(* (mod.rs, repair_startup_state).                                         *)
OneClaimAfterRepair ==
    [][boot # {} /\ boot' = {} =>
        \A s \in Sessions : Cardinality({i \in Ids : claims'[i][s] = "active"}) <= 1]_vars

(* Repair never gives a session back the worktree it has released, even     *)
(* when a duplicate of the row still has its claim (mod.rs,                 *)
(* merge_released_at).                                                      *)
RepairRevivesNothing ==
    [][boot # {} => \A i \in Ids, s \in Sessions :
                        claims[i][s] = "released" => claims'[i][s] = "released"]_vars

(* No directory is removed by a cleanup while a session holds its worktree  *)
(* (docs/worktrees.md, Cleanup).                                            *)
CleanupRespectsClaims ==
    [][\A i \in Ids : /\ Live(i) /\ active_claims_for(i) # {}
                      /\ \E c \in Calls : calls[c].pc = "cleanup_lock" /\ calls[c].i = i
                      /\ worktrees[i].identity \in tree
                      => worktrees[i].identity \in tree']_vars
=============================================================================
