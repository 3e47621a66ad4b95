--------------------------- MODULE SessionRuntime ---------------------------
(***************************************************************************)
(* The session manager of the runtime (crates/runtime-core/src/runtime):   *)
(* sessions, turns and approvals, kept in memory behind one RwLock each    *)
(* and in the SQLite store, and changed by concurrent request handlers, by *)
(* one background waiter per running turn and, after a restart, by startup *)
(* recovery.  The provider is the turn table of runtime-provider-codex.    *)
(*                                                                         *)
(* A handler is a task: it is cut into steps at every await, every lock    *)
(* acquisition and every store write another task can come between.  A     *)
(* section that holds the turns and sessions locks is one step, with a     *)
(* parameter w for how many of its store writes succeed before the `?`     *)
(* leaves it.  Of a session only its status and active turn are kept.      *)
(***************************************************************************)
EXTENDS Naturals

CONSTANTS
    Sessions,       \* session ids
    Turns,          \* turn ids; an approval has the id of the turn that asks for it
    Calls,          \* request handlers that may be in flight at the same time
    None,           \* Option::None
    Operations,     \* the requests clients make: a subset of AllOperations
    Faults,         \* the tasks whose store writes may fail, "handlers" or "waiters"
    RefsMayChange,  \* TRUE: provider.resume_session may return new references
    MaxCrashes      \* bound: how many times the process dies

AllOperations == {"create", "send", "send_for_approval", "accept", "decline",
                  "interrupt", "close", "force_close", "resume", "set_worktree"}

ASSUME OperationsAssumption == Operations \subseteq AllOperations
ASSUME FaultsAssumption == Faults \subseteq {"handlers", "waiters"} /\ RefsMayChange \in BOOLEAN
ASSUME MaxCrashesAssumption == MaxCrashes \in Nat

VARIABLES
    owner,              \* the session a turn id was allocated for, None if not allocated
    sessions,           \* memory: session id -> record
    turns,              \* memory: turn id -> status
    approvals,          \* memory: turn id -> status of its approval
    durableSessions, durableTurns, durableApprovals,    \* the same three in the store
    calls,              \* the request handlers in flight
    approvalsLock,      \* the handler that holds the approvals lock across an await
    waiter,             \* the background task that waits for a turn's result
    provLive,           \* provider: does it know the session
    prov,               \* provider: what it does with the turn
    phase,              \* "serving" requests or "recovering" from a restart
    todo,               \* recovery: sessions not looked at yet
    turnsSnapshot, approvalsSnapshot,   \* recovery: what it read at its start
    repair,             \* recovery: the session record it is about to write
    crashes

memory == <<sessions, turns, approvals>>
store == <<durableSessions, durableTurns, durableApprovals>>
provider == <<provLive, prov>>
recovery == <<phase, todo, turnsSnapshot, approvalsSnapshot, repair, crashes>>
vars == <<owner, memory, store, calls, approvalsLock, waiter, provider, recovery>>

-----------------------------------------------------------------------------
(* Records and statuses *)

Terminal == {"completed", "interrupted", "failed"}
TurnStatus == {"in_progress", "waiting_for_approval"} \cup Terminal
SessionStatus == {"ready", "turn_running", "waiting_for_approval", "closed", "failed"}
ApprovalStatus == {"none", "pending", "accept", "decline"}
SessionRecord == [status : SessionStatus, active : Turns \cup {None}]

ASSUME NoneAssumption == None \notin Sessions \cup Turns \cup Calls \cup SessionRecord

(* Mutants: one of the three outcomes is forgotten. *)
terminal_without_interrupted(status) == status \in {"completed", "failed"}
terminal_without_failed(status) == status \in {"completed", "interrupted"}

is_terminal_turn_status(status) == status \in Terminal

NewSession == [status |-> "ready", active |-> None]
ClosedSession == [status |-> "closed", active |-> None]

(* A status that ends a session is kept; any other goes back to ready. *)
ReadyUnlessEnded(status) == IF status \in {"closed", "failed"} THEN status ELSE "ready"

(* send_turn refuses a session that has ended or that has an active turn. *)
Writable(r) == r.status \notin {"closed", "failed"} /\ r.active = None

(* What send_turn writes over its snapshot of the session: both fields we keep. *)
WithActiveTurn(t, arg) ==
    [status |-> IF arg = "send_for_approval" THEN "waiting_for_approval" ELSE "turn_running",
     active |-> t]

(* What send_turn writes over its snapshot when the provider refuses. *)
WithoutActiveTurn(snap) == [status |-> ReadyUnlessEnded(snap.status), active |-> None]

(* What the end of turn t does to the session's current record. *)
AfterTurn(r, t) == [status |-> ReadyUnlessEnded(r.status),
                    active |-> IF r.active = t THEN None ELSE r.active]

(* What resume_session writes over its snapshot. *)
Resumed(snap) == [snap EXCEPT !.status = IF @ = "closed" THEN "closed" ELSE "ready"]

-----------------------------------------------------------------------------
(* Request handlers as tasks *)

PC == {"idle", "dispatch", "record", "record_failure", "publish", "publish_failure",
       "request", "publish_approval", "start", "respond", "resolve", "apply",
       "close", "resume", "store_session", "publish_session", "set_worktree"}

Call == [pc : PC, s : Sessions \cup {None}, t : Turns \cup {None},
         arg : AllOperations \cup {"none"}, snap : SessionRecord \cup {None}]

Idle == [pc |-> "idle", s |-> None, t |-> None, arg |-> "none", snap |-> None]

Serving == phase = "serving"

(* Handler c is free and the client makes request op. *)
Accepts(c, op) == Serving /\ calls[c] = Idle /\ op \in Operations

Begin(c, step, s, t, op, snap) ==
    calls' = [calls EXCEPT ![c] = [pc |-> step, s |-> s, t |-> t, arg |-> op, snap |-> snap]]

Goto(c, step) == calls' = [calls EXCEPT ![c].pc = step]

GotoWith(c, step, snap) == calls' = [calls EXCEPT ![c].pc = step, ![c].snap = snap]

Return(c) == calls' = [calls EXCEPT ![c] = Idle]

(* How many of a section's n consecutive store writes are made by a task of this kind. *)
Writes(task, n) == IF task \in Faults THEN 0..n ELSE {n}

Init ==
    /\ owner = [t \in Turns |-> None]
    /\ sessions = [s \in Sessions |-> None]
    /\ turns = [t \in Turns |-> "none"]
    /\ approvals = [t \in Turns |-> "none"]
    /\ durableSessions = sessions /\ durableTurns = turns /\ durableApprovals = approvals
    /\ calls = [c \in Calls |-> Idle]
    /\ approvalsLock = None
    /\ waiter = [t \in Turns |-> "none"]
    /\ provLive = [s \in Sessions |-> FALSE]
    /\ prov = [t \in Turns |-> "none"]
    /\ phase = "serving" /\ todo = {} /\ repair = Idle /\ crashes = 0
    /\ turnsSnapshot = turns /\ approvalsSnapshot = approvals

-----------------------------------------------------------------------------
(* Session requests: create, close, force close, resume, set worktree *)

(* create_session: a fresh id, the provider's session, then the record. *)
create_session(c, s) ==
    /\ Accepts(c, "create")
    /\ durableSessions[s] = None /\ ~provLive[s]
    /\ \A d \in Calls : calls[d].s # s
    /\ provLive' = [provLive EXCEPT ![s] = TRUE]
    /\ Begin(c, "store_session", s, None, "create", NewSession)
    /\ UNCHANGED <<owner, memory, store, approvalsLock, waiter, prov, recovery>>

(* close_session reads the session and asks the provider to close it. *)
close_session(c, s) ==
    /\ Accepts(c, "close")
    /\ sessions[s] # None
    /\ Begin(c, "close", s, None, "close", None)
    /\ UNCHANGED <<owner, memory, store, approvalsLock, waiter, provider, recovery>>

(* A turn of a closed session is forgotten; a process that ran it is killed. *)
Dropped(state) == IF state = "running" THEN "killed" ELSE "none"

(* The provider drops the session with all it knows about its turns, or refuses. *)
ProviderCloseSession(c) ==
    /\ calls[c].pc = "close"
    /\ \/ /\ provLive' = [provLive EXCEPT ![calls[c].s] = FALSE]
          /\ prov' = [t \in Turns |-> IF owner[t] = calls[c].s THEN Dropped(prov[t]) ELSE prov[t]]
          /\ GotoWith(c, "store_session", ClosedSession)
       \/ /\ Return(c)
          /\ UNCHANGED provider
    /\ UNCHANGED <<owner, memory, store, approvalsLock, waiter, recovery>>

(* force_close_session finalizes without asking the provider. *)
force_close_session(c, s) ==
    /\ Accepts(c, "force_close")
    /\ sessions[s] # None
    /\ Begin(c, "store_session", s, None, "force_close", ClosedSession)
    /\ UNCHANGED <<owner, memory, store, approvalsLock, waiter, provider, recovery>>

(* resume_session keeps a snapshot of the session across the provider's answer. *)
resume_session(c, s) ==
    /\ Accepts(c, "resume")
    /\ sessions[s] # None
    /\ Begin(c, "resume", s, None, "resume", sessions[s])
    /\ UNCHANGED <<owner, memory, store, approvalsLock, waiter, provider, recovery>>

ProviderResumeSession(c) ==
    /\ calls[c].pc = "resume"
    /\ \/ /\ provLive' = [provLive EXCEPT ![calls[c].s] = TRUE]
          /\ GotoWith(c, "store_session", Resumed(calls[c].snap))
       \/ /\ Return(c)
          /\ UNCHANGED provLive
    /\ UNCHANGED <<owner, memory, store, approvalsLock, waiter, prov, recovery>>

(* create, resume and finalize_session_close write the store, then memory. *)
StoreSession(c) ==
    /\ calls[c].pc = "store_session"
    /\ durableSessions' = [durableSessions EXCEPT ![calls[c].s] = calls[c].snap]
    /\ Goto(c, "publish_session")
    /\ UNCHANGED <<owner, memory, durableTurns, durableApprovals, approvalsLock, waiter,
                   provider, recovery>>

PublishSession(c) ==
    /\ calls[c].pc = "publish_session"
    /\ sessions' = [sessions EXCEPT ![calls[c].s] = calls[c].snap]
    /\ Return(c)
    /\ UNCHANGED <<owner, turns, approvals, store, approvalsLock, waiter, provider, recovery>>

(* set_session_worktree_id changes memory under the lock and stores the copy after it. *)
set_session_worktree_id(c, s) ==
    /\ Accepts(c, "set_worktree")
    /\ sessions[s] # None
    /\ Begin(c, "set_worktree", s, None, "set_worktree", sessions[s])
    /\ UNCHANGED <<owner, memory, store, approvalsLock, waiter, provider, recovery>>

StoreWorktree(c) ==
    /\ calls[c].pc = "set_worktree"
    /\ durableSessions' = [durableSessions EXCEPT ![calls[c].s] = calls[c].snap]
    /\ Return(c)
    /\ UNCHANGED <<owner, memory, durableTurns, durableApprovals, approvalsLock, waiter,
                   provider, recovery>>

-----------------------------------------------------------------------------
(* send_turn and interrupt_turn *)

(* The provider works on a turn of s or holds one for approval. *)
Busy(s) == \E u \in Turns : owner[u] = s /\ prov[u] \in {"pending", "running"}

(* send_turn reads the session once; everything it writes later is a copy of that. *)
send_turn(c, s, t, op) ==
    /\ Accepts(c, op)
    /\ sessions[s] # None
    /\ Writable(sessions[s])
    /\ owner[t] = None
    /\ owner' = [owner EXCEPT ![t] = s]
    /\ Begin(c, "dispatch", s, t, op, sessions[s])
    /\ UNCHANGED <<memory, store, approvalsLock, waiter, provider, recovery>>

(* The provider takes the turn; one that lost the session is resumed first. *)
ProviderTakesTurn(c) ==
    LET s == calls[c].s
        t == calls[c].t
    IN  /\ calls[c].pc = "dispatch"
        /\ ~Busy(s)
        /\ provLive' = [provLive EXCEPT ![s] = TRUE]
        /\ prov' = [prov EXCEPT ![t] =
                        IF calls[c].arg = "send_for_approval" THEN "pending" ELSE "running"]
        /\ Goto(c, "record")
        /\ UNCHANGED <<owner, memory, store, approvalsLock, waiter, recovery>>

(* The provider refuses (busy, spawn error, resume error), maybe after a resume. *)
ProviderRefusesTurn(c) ==
    /\ calls[c].pc = "dispatch"
    /\ provLive' \in {provLive, [provLive EXCEPT ![calls[c].s] = TRUE]}
    /\ Goto(c, "record_failure")
    /\ UNCHANGED <<owner, memory, store, approvalsLock, waiter, prov, recovery>>

(* Mutants: the turn gets the session's status; a turn that must wait is stored as running. *)
TurnStatusOfSession(arg) == IF arg = "send_for_approval" THEN "waiting_for_approval" ELSE "turn_running"
TurnStatusIgnoringApproval(arg) == "in_progress"

TurnStatusFor(arg) == IF arg = "send_for_approval" THEN "waiting_for_approval" ELSE "in_progress"

(* Mutants: the session is stored before the turn; the turn is not stored at all. *)
StoreSessionThenTurn(c, w, status, record) ==
    /\ durableSessions' = IF w >= 1 THEN [durableSessions EXCEPT ![calls[c].s] = record]
                                    ELSE durableSessions
    /\ durableTurns' = IF w = 2 THEN [durableTurns EXCEPT ![calls[c].t] = status]
                                ELSE durableTurns

StoreSessionOnly(c, w, status, record) ==
    /\ durableTurns' = durableTurns
    /\ durableSessions' = IF w = 2 THEN [durableSessions EXCEPT ![calls[c].s] = record]
                                   ELSE durableSessions

(* Two store writes of a handler, turn first: w of them are made. *)
StoreTurnThenSession(c, w, status, record) ==
    /\ durableTurns' = IF w >= 1 THEN [durableTurns EXCEPT ![calls[c].t] = status]
                                 ELSE durableTurns
    /\ durableSessions' = IF w = 2 THEN [durableSessions EXCEPT ![calls[c].s] = record]
                                   ELSE durableSessions

(* upsert_turn and upsert_session; an error in either leaves the handler. *)
RecordTurn(c, w) ==
    /\ calls[c].pc = "record"
    /\ StoreTurnThenSession(c, w, TurnStatusFor(calls[c].arg),
                            WithActiveTurn(calls[c].t, calls[c].arg))
    /\ IF w = 2 THEN Goto(c, "publish") ELSE Return(c)
    /\ UNCHANGED <<owner, memory, durableApprovals, approvalsLock, waiter, provider, recovery>>

(* The turn and the session enter memory. *)
PublishTurn(c) ==
    LET s == calls[c].s
        t == calls[c].t
    IN  /\ calls[c].pc = "publish"
        /\ turns' = [turns EXCEPT ![t] = TurnStatusFor(calls[c].arg)]
        /\ sessions' = [sessions EXCEPT ![s] = WithActiveTurn(t, calls[c].arg)]
        /\ Goto(c, IF calls[c].arg = "send_for_approval" THEN "request" ELSE "start")
        /\ UNCHANGED <<owner, approvals, store, approvalsLock, waiter, provider, recovery>>

(* The approval is stored, then enters memory once its lock is free. *)
RequestApproval(c) ==
    /\ calls[c].pc = "request"
    /\ durableApprovals' = [durableApprovals EXCEPT ![calls[c].t] = "pending"]
    /\ Goto(c, "publish_approval")
    /\ UNCHANGED <<owner, memory, durableSessions, durableTurns, approvalsLock, waiter,
                   provider, recovery>>

(* Mutant: a turn that waits for approval is started as well. *)
PublishApprovalAndStart(c) ==
    /\ calls[c].pc = "publish_approval"
    /\ approvalsLock = None
    /\ approvals' = [approvals EXCEPT ![calls[c].t] = "pending"]
    /\ Goto(c, "start")
    /\ UNCHANGED <<owner, sessions, turns, store, approvalsLock, waiter, provider, recovery>>

PublishApproval(c) ==
    /\ calls[c].pc = "publish_approval"
    /\ approvalsLock = None
    /\ approvals' = [approvals EXCEPT ![calls[c].t] = "pending"]
    /\ Return(c)
    /\ UNCHANGED <<owner, sessions, turns, store, approvalsLock, waiter, provider, recovery>>

(* turn.started is appended and the waiter is spawned. *)
spawn_wait_for_turn(c) ==
    /\ calls[c].pc = "start"
    /\ waiter' = [waiter EXCEPT ![calls[c].t] = "waiting"]
    /\ Return(c)
    /\ UNCHANGED <<owner, memory, store, approvalsLock, provider, recovery>>

(* A refused turn is stored as failed, with the snapshot made ready again. *)
RecordFailure(c, w) ==
    /\ calls[c].pc = "record_failure"
    /\ StoreTurnThenSession(c, w, "failed", WithoutActiveTurn(calls[c].snap))
    /\ IF w = 2 THEN Goto(c, "publish_failure") ELSE Return(c)
    /\ UNCHANGED <<owner, memory, durableApprovals, approvalsLock, waiter, provider, recovery>>

PublishFailure(c) ==
    /\ calls[c].pc = "publish_failure"
    /\ turns' = [turns EXCEPT ![calls[c].t] = "failed"]
    /\ sessions' = [sessions EXCEPT ![calls[c].s] = WithoutActiveTurn(calls[c].snap)]
    /\ Return(c)
    /\ UNCHANGED <<owner, approvals, store, approvalsLock, waiter, provider, recovery>>

(* interrupt_turn changes no record: the provider kills the turn's process. *)
interrupt_turn(s, t) ==
    /\ Serving /\ "interrupt" \in Operations
    /\ sessions[s] # None
    /\ sessions[s].active = t
    /\ prov[t] = "running"
    /\ prov' = [prov EXCEPT ![t] = "interrupted"]
    /\ UNCHANGED <<owner, memory, store, calls, approvalsLock, waiter, provLive, recovery>>

-----------------------------------------------------------------------------
(* respond_approval *)

(* Mutant: an approval that was decided may be decided again. *)
MayRespondAgain(s, t) == owner[t] = s /\ approvals[t] # "none"

(* Only a pending approval of this session may be decided. *)
MayRespond(s, t) == owner[t] = s /\ approvals[t] = "pending"

(* The approvals lock is taken here and held across the provider's answer. *)
respond_approval(c, s, t, decision) ==
    /\ Accepts(c, decision)
    /\ sessions[s] # None
    /\ approvalsLock = None
    /\ MayRespond(s, t)
    /\ approvalsLock' = c
    /\ Begin(c, "respond", s, t, decision, None)
    /\ UNCHANGED <<owner, memory, store, waiter, provider, recovery>>

(* Accept starts a turn the provider holds; decline completes it, known or not. *)
ProviderTakesDecision(c) ==
    LET s == calls[c].s
        t == calls[c].t
    IN  /\ calls[c].pc = "respond"
        /\ \/ /\ calls[c].arg = "accept"
              /\ provLive[s] /\ prov[t] = "pending"
              /\ prov' = [prov EXCEPT ![t] = "running"]
           \/ /\ calls[c].arg = "decline"
              /\ prov' = IF provLive[s] THEN [prov EXCEPT ![t] = "interrupted"] ELSE prov
        /\ Goto(c, "resolve")
        /\ UNCHANGED <<owner, memory, store, approvalsLock, waiter, provLive, recovery>>

ProviderRefusesDecision(c) ==
    /\ calls[c].pc = "respond"
    /\ approvalsLock' = None
    /\ Return(c)
    /\ UNCHANGED <<owner, memory, store, waiter, provider, recovery>>

(* Mutants: the decision does not reach memory; the approvals lock is not dropped. *)
ResolveApprovalInStore(c) ==
    /\ calls[c].pc = "resolve"
    /\ durableApprovals' = [durableApprovals EXCEPT ![calls[c].t] = calls[c].arg]
    /\ approvalsLock' = None
    /\ Goto(c, "apply")
    /\ UNCHANGED <<owner, memory, durableSessions, durableTurns, waiter, provider, recovery>>

ResolveApprovalAndKeepLock(c) ==
    /\ calls[c].pc = "resolve"
    /\ durableApprovals' = [durableApprovals EXCEPT ![calls[c].t] = calls[c].arg]
    /\ approvals' = [approvals EXCEPT ![calls[c].t] = calls[c].arg]
    /\ Goto(c, "apply")
    /\ UNCHANGED <<owner, sessions, turns, durableSessions, durableTurns, approvalsLock, waiter,
                   provider, recovery>>

(* The decision is stored and enters memory; the lock is released. *)
ResolveApproval(c) ==
    LET t == calls[c].t
    IN  /\ calls[c].pc = "resolve"
        /\ durableApprovals' = [durableApprovals EXCEPT ![t] = calls[c].arg]
        /\ approvals' = [approvals EXCEPT ![t] = calls[c].arg]
        /\ approvalsLock' = None
        /\ Goto(c, "apply")
        /\ UNCHANGED <<owner, sessions, turns, durableSessions, durableTurns, waiter,
                       provider, recovery>>

(* Under the turns and sessions locks: memory is changed before each store write. *)
ApplyDecision(c, w, status, record) ==
    LET s == calls[c].s
        t == calls[c].t
    IN  /\ calls[c].pc = "apply"
        /\ turns' = [turns EXCEPT ![t] = status]
        /\ sessions' = IF w >= 1 THEN [sessions EXCEPT ![s] = record] ELSE sessions
        /\ StoreTurnThenSession(c, w, status, record)
        /\ UNCHANGED <<owner, approvals, durableApprovals, approvalsLock, waiter, provider,
                       recovery>>

(* Mutant: the accepted turn gets no waiter. *)
ApplyAcceptWithoutWaiter(c, w) ==
    /\ calls[c].arg = "accept"
    /\ ApplyDecision(c, w, "in_progress",
                     [sessions[calls[c].s] EXCEPT !.status = "turn_running"])
    /\ Return(c)

ApplyAccept(c, w) ==
    /\ calls[c].arg = "accept"
    /\ ApplyDecision(c, w, "in_progress",
                     [sessions[calls[c].s] EXCEPT !.status = "turn_running"])
    /\ IF w = 2 THEN Goto(c, "start") ELSE Return(c)

ApplyDecline(c, w) ==
    /\ calls[c].arg = "decline"
    /\ ApplyDecision(c, w, "interrupted", AfterTurn(sessions[calls[c].s], calls[c].t))
    /\ Return(c)

(* A store write or an event append fails, or the request is dropped at an await. *)
AbandonCall(c) ==
    /\ "handlers" \in Faults
    /\ calls[c] # Idle
    /\ approvalsLock' = IF approvalsLock = c THEN None ELSE approvalsLock
    /\ Return(c)
    /\ UNCHANGED <<owner, memory, store, waiter, provider, recovery>>

-----------------------------------------------------------------------------
(* The provider works on a turn, and the waiter takes the result *)

ProviderFinishesTurn(t, status) ==
    /\ prov[t] = "running"
    /\ prov' = [prov EXCEPT ![t] = status]
    /\ UNCHANGED <<owner, memory, store, calls, approvalsLock, waiter, provLive, recovery>>

(* The process of a closed session ends, killed or just before: complete_turn finds the *)
(* session resumed, or gone.                                                            *)
ProviderReapsTurn(t) ==
    /\ prov[t] = "killed"
    /\ \E status \in Terminal :
          prov' = [prov EXCEPT ![t] = IF provLive[owner[t]] THEN status ELSE "none"]
    /\ UNCHANGED <<owner, memory, store, calls, approvalsLock, waiter, provLive, recovery>>

(* Mutant: a waiter whose session was closed is left waiting. *)
wait_for_turn_forever(t) ==
    /\ waiter[t] = "waiting"
    /\ provLive[owner[t]] /\ prov[t] \in Terminal
    /\ waiter' = [waiter EXCEPT ![t] = prov[t]]
    /\ UNCHANGED <<owner, memory, store, calls, approvalsLock, provider, recovery>>

(* wait_for_turn returns the result, or an error for a session or turn it does not know. *)
wait_for_turn(t) ==
    /\ waiter[t] = "waiting"
    /\ \/ /\ provLive[owner[t]] /\ prov[t] \in Terminal
          /\ waiter' = [waiter EXCEPT ![t] = prov[t]]
       \/ /\ ~provLive[owner[t]] \/ prov[t] \in {"none", "killed"}
          /\ waiter' = [waiter EXCEPT ![t] = "error"]
    /\ UNCHANGED <<owner, memory, store, calls, approvalsLock, provider, recovery>>

(* One section under the turns and sessions locks, ended by its store writes. *)
ApplyTurnEnd(t, w, status, record) ==
    LET s == owner[t]
    IN  /\ turns' = [turns EXCEPT ![t] = status]
        /\ durableTurns' = IF w >= 1 THEN [durableTurns EXCEPT ![t] = status] ELSE durableTurns
        /\ sessions' = IF w >= 1 THEN [sessions EXCEPT ![s] = record] ELSE sessions
        /\ durableSessions' = IF w = 2 THEN [durableSessions EXCEPT ![s] = record]
                                       ELSE durableSessions

(* A turn that has ended with another status fails the session; the same one is a no-op. *)
TerminalConflict(t, w, status) ==
    LET s == owner[t]
        failed == [sessions[s] EXCEPT !.status = "failed"]
    IN  /\ UNCHANGED <<turns, durableTurns>>
        /\ IF turns[t] = status
           THEN UNCHANGED <<sessions, durableSessions>>
           ELSE /\ sessions' = [sessions EXCEPT ![s] = failed]
                /\ durableSessions' = IF w = 2 THEN [durableSessions EXCEPT ![s] = failed]
                                               ELSE durableSessions

apply_terminal_result(t, w) ==
    /\ waiter[t] \in Terminal
    /\ IF is_terminal_turn_status(turns[t])
       THEN TerminalConflict(t, w, waiter[t])
       ELSE ApplyTurnEnd(t, w, waiter[t], AfterTurn(sessions[owner[t]], t))
    /\ waiter' = [waiter EXCEPT ![t] = "none"]
    /\ UNCHANGED <<owner, approvals, durableApprovals, calls, approvalsLock, provider, recovery>>

(* apply_terminal_failure: the turn under its lock, later the session under its own. *)
FailTurn(t, w) ==
    /\ waiter[t] = "error"
    /\ IF is_terminal_turn_status(turns[t])
       THEN UNCHANGED <<turns, durableTurns>>
       ELSE /\ turns' = [turns EXCEPT ![t] = "failed"]
            /\ durableTurns' = IF w = 1 THEN [durableTurns EXCEPT ![t] = "failed"]
                                        ELSE durableTurns
    /\ waiter' = [waiter EXCEPT ![t] = IF is_terminal_turn_status(turns[t]) \/ w = 1
                                       THEN "failing" ELSE "none"]
    /\ UNCHANGED <<owner, sessions, approvals, durableSessions, durableApprovals, calls,
                   approvalsLock, provider, recovery>>

FailSession(t, w) ==
    LET s == owner[t]
        failed == [status |-> "failed", active |-> AfterTurn(sessions[s], t).active]
    IN  /\ waiter[t] = "failing"
        /\ sessions' = [sessions EXCEPT ![s] = failed]
        /\ durableSessions' = IF w = 1 THEN [durableSessions EXCEPT ![s] = failed]
                                       ELSE durableSessions
        /\ waiter' = [waiter EXCEPT ![t] = "none"]
        /\ UNCHANGED <<owner, turns, approvals, durableTurns, durableApprovals, calls,
                       approvalsLock, provider, recovery>>

-----------------------------------------------------------------------------
(* A crash, and recover_startup before requests are served again *)

(* The process dies: memory, tasks and provider are gone; new() hydrates the store. *)
Crash ==
    /\ crashes < MaxCrashes
    /\ crashes' = crashes + 1
    /\ sessions' = durableSessions /\ turns' = durableTurns /\ approvals' = durableApprovals
    /\ calls' = [c \in Calls |-> Idle]
    /\ approvalsLock' = None
    /\ waiter' = [t \in Turns |-> "none"]
    /\ provLive' = [s \in Sessions |-> FALSE]
    /\ prov' = [t \in Turns |-> "none"]
    /\ phase' = "recovering"
    /\ todo' = {s \in Sessions : durableSessions[s] # None}
    /\ turnsSnapshot' = durableTurns /\ approvalsSnapshot' = durableApprovals
    /\ repair' = Idle
    /\ UNCHANGED <<owner, store>>

(* Mutant: looks for a status that approvals do not have. *)
pending_approval_misread(t) == approvalsSnapshot[t] = "requested"

pending_approval_for_turn(t) == approvalsSnapshot[t] = "pending"

(* What recovery finds the active turn t of session s to be. *)
TurnVerdict(s, t) ==
    CASE t = None -> "no_turn"
      [] t # None /\ turnsSnapshot[t] = "none" -> "missing"
      [] t # None /\ turnsSnapshot[t] # "none" /\ owner[t] # s -> "foreign"
      [] t # None /\ is_terminal_turn_status(turnsSnapshot[t]) /\ owner[t] = s -> "over"
      [] t # None /\ turnsSnapshot[t] = "waiting_for_approval" /\ owner[t] = s ->
            IF pending_approval_for_turn(t) THEN "awaiting" ELSE "unapproved"
      [] OTHER -> "running"

(* Mutant: recovery leaves the active turn of a session although it is over. *)
ReconciledKeepingTurn(r, verdict) == IF verdict = "over" THEN r ELSE WithoutActiveTurn(r)

(* The session record recovery wants, from r after the provider's resume. *)
Reconciled(r, verdict) ==
    CASE verdict = "no_turn" ->
            [r EXCEPT !.status = IF @ \in {"turn_running", "waiting_for_approval"}
                                 THEN "ready" ELSE @]
      [] verdict \in {"missing", "over", "unapproved"} -> WithoutActiveTurn(r)
      [] verdict = "foreign" -> [status |-> "failed", active |-> None]
      [] verdict = "awaiting" -> [r EXCEPT !.status = "waiting_for_approval"]
      [] verdict = "running" ->
            [r EXCEPT !.status = IF @ \in {"closed", "failed"} THEN @ ELSE "turn_running"]

(* Mutant: a repaired session is only written when the provider changed it. *)
SessionChangedByProvider(r, resume, verdict) == resume \in {"changed", "error"}

(* A running turn is watched again, but its session is not marked as changed. *)
SessionChanged(r, resume, verdict) ==
    \/ resume \in {"changed", "error"}
    \/ verdict # "running" /\ Reconciled(r, verdict) # r

(* The outcomes of provider.resume_session for a session that recovery reads. *)
ResumeOutcomes(r) ==
    IF r.status \in {"closed", "failed"} THEN {"skipped"}
    ELSE {"same", "error"} \cup (IF RefsMayChange THEN {"changed"} ELSE {})

RecoverSession(s, resume) ==
    LET r == IF resume = "error" THEN [status |-> "failed", active |-> None] ELSE sessions[s]
        t == r.active
        verdict == TurnVerdict(s, t)
    IN  /\ phase = "recovering" /\ s \in todo /\ repair = Idle
        /\ resume \in ResumeOutcomes(sessions[s])
        /\ provLive' = IF resume \in {"same", "changed"} THEN [provLive EXCEPT ![s] = TRUE]
                                                         ELSE provLive
        /\ IF verdict = "unapproved"
           THEN /\ turns' = [turns EXCEPT ![t] = "failed"]
                /\ durableTurns' = [durableTurns EXCEPT ![t] = "failed"]
           ELSE UNCHANGED <<turns, durableTurns>>
        /\ waiter' = IF verdict = "running" THEN [waiter EXCEPT ![t] = "waiting"] ELSE waiter
        /\ todo' = todo \ {s}
        /\ repair' = IF SessionChanged(r, resume, verdict)
                     THEN [pc |-> "store_session", s |-> s, t |-> None, arg |-> "none",
                           snap |-> Reconciled(r, verdict)]
                     ELSE Idle
        /\ UNCHANGED <<owner, sessions, approvals, durableSessions, durableApprovals, calls,
                       approvalsLock, prov, phase, turnsSnapshot, approvalsSnapshot, crashes>>

(* The changed record is written while the waiter just spawned may already run. *)
StoreRepair ==
    /\ repair.pc = "store_session"
    /\ durableSessions' = [durableSessions EXCEPT ![repair.s] = repair.snap]
    /\ repair' = [repair EXCEPT !.pc = "publish_session"]
    /\ UNCHANGED <<owner, memory, durableTurns, durableApprovals, calls, approvalsLock, waiter,
                   provider, phase, todo, turnsSnapshot, approvalsSnapshot, crashes>>

PublishRepair ==
    /\ repair.pc = "publish_session"
    /\ sessions' = [sessions EXCEPT ![repair.s] = repair.snap]
    /\ repair' = Idle
    /\ UNCHANGED <<owner, turns, approvals, store, calls, approvalsLock, waiter, provider,
                   phase, todo, turnsSnapshot, approvalsSnapshot, crashes>>

(* A pending approval whose turn is missing or has ended is declined. *)
Orphaned(t) ==
    /\ approvalsSnapshot[t] = "pending"
    /\ turnsSnapshot[t] = "none" \/ is_terminal_turn_status(turnsSnapshot[t])

FinishRecovery ==
    LET Declined(f) == [t \in Turns |-> IF Orphaned(t) THEN "decline" ELSE f[t]]
    IN  /\ phase = "recovering" /\ todo = {} /\ repair = Idle
        /\ approvals' = Declined(approvals)
        /\ durableApprovals' = Declined(durableApprovals)
        /\ phase' = "serving"
        /\ turnsSnapshot' = [t \in Turns |-> "none"]
        /\ approvalsSnapshot' = [t \in Turns |-> "none"]
        /\ UNCHANGED <<owner, sessions, turns, durableSessions, durableTurns, calls,
                       approvalsLock, waiter, provider, todo, repair, crashes>>

-----------------------------------------------------------------------------

SessionRequest(c) ==
    \E s \in Sessions :
        \/ create_session(c, s)
        \/ close_session(c, s)
        \/ force_close_session(c, s)
        \/ resume_session(c, s)
        \/ set_session_worktree_id(c, s)
        \/ \E t \in Turns :
              \/ \E op \in {"send", "send_for_approval"} : send_turn(c, s, t, op)
              \/ \E decision \in {"accept", "decline"} : respond_approval(c, s, t, decision)

ProviderAnswer(c) ==
    \/ ProviderCloseSession(c)
    \/ ProviderResumeSession(c)
    \/ ProviderTakesTurn(c)
    \/ ProviderRefusesTurn(c)
    \/ ProviderTakesDecision(c)
    \/ ProviderRefusesDecision(c)

HandlerStep(c) ==
    \/ StoreSession(c)
    \/ PublishSession(c)
    \/ StoreWorktree(c)
    \/ \E w \in Writes("handlers", 2) :
          \/ RecordTurn(c, w)
          \/ RecordFailure(c, w)
          \/ ApplyAccept(c, w)
          \/ ApplyDecline(c, w)
    \/ PublishTurn(c)
    \/ PublishFailure(c)
    \/ RequestApproval(c)
    \/ PublishApproval(c)
    \/ spawn_wait_for_turn(c)
    \/ ResolveApproval(c)

WaiterStep(t) ==
    \/ wait_for_turn(t)
    \/ \E w \in Writes("waiters", 2) : apply_terminal_result(t, w)
    \/ \E w \in Writes("waiters", 1) : FailTurn(t, w) \/ FailSession(t, w)

RecoveryStep ==
    \/ \E s \in Sessions, resume \in {"same", "changed", "error", "skipped"} :
          RecoverSession(s, resume)
    \/ StoreRepair
    \/ PublishRepair
    \/ FinishRecovery

Next ==
    \/ \E c \in Calls : \/ SessionRequest(c)
                        \/ ProviderAnswer(c)
                        \/ HandlerStep(c)
                        \/ AbandonCall(c)
    \/ \E s \in Sessions, t \in Turns : interrupt_turn(s, t)
    \/ \E t \in Turns : \/ \E status \in Terminal : ProviderFinishesTurn(t, status)
                        \/ ProviderReapsTurn(t)
                        \/ WaiterStep(t)
    \/ RecoveryStep
    \/ Crash

Spec == Init /\ [][Next]_vars

(***************************************************************************)
(* The tasks of the async runtime are scheduled, a provider answers and    *)
(* ends a turn it runs; clients need not make requests.                    *)
(***************************************************************************)
Fairness ==
    /\ \A c \in Calls : WF_vars(ProviderAnswer(c)) /\ SF_vars(HandlerStep(c))
    /\ \A t \in Turns : /\ WF_vars(\E status \in Terminal : ProviderFinishesTurn(t, status))
                        /\ WF_vars(WaiterStep(t))
    /\ WF_vars(RecoveryStep)

FairSpec == Spec /\ Fairness

-----------------------------------------------------------------------------
(* Properties *)

TypeOK ==
    /\ owner \in [Turns -> Sessions \cup {None}]
    /\ sessions \in [Sessions -> SessionRecord \cup {None}]
    /\ turns \in [Turns -> TurnStatus \cup {"none"}]
    /\ approvals \in [Turns -> ApprovalStatus]
    /\ durableSessions \in [Sessions -> SessionRecord \cup {None}]
    /\ durableTurns \in [Turns -> TurnStatus \cup {"none"}]
    /\ durableApprovals \in [Turns -> ApprovalStatus]
    /\ calls \in [Calls -> Call]
    /\ approvalsLock \in Calls \cup {None}
    /\ waiter \in [Turns -> {"none", "waiting", "error", "failing"} \cup Terminal]
    /\ provLive \in [Sessions -> BOOLEAN]
    /\ prov \in [Turns -> {"none", "pending", "running", "killed"} \cup Terminal]
    /\ phase \in {"serving", "recovering"}
    /\ todo \subseteq Sessions
    /\ turnsSnapshot \in [Turns -> TurnStatus \cup {"none"}]
    /\ approvalsSnapshot \in [Turns -> ApprovalStatus]
    /\ repair \in Call
    /\ crashes \in 0..MaxCrashes

(***************************************************************************)
(* A turn somebody waits for has not ended: the result a waiter brings to  *)
(* apply_terminal_result never meets a terminal status, so the branch that *)
(* fails the session for a terminal conflict is never taken.               *)
(***************************************************************************)
NoTerminalConflict ==
    \A t \in Turns : waiter[t] \in {"waiting", "error"} \cup Terminal => turns[t] = "in_progress"

(***************************************************************************)
(* A handler about to spawn a waiter finds none for its turn: send_turn,   *)
(* an accepted approval and recovery never watch the same turn twice.      *)
(***************************************************************************)
OneWaiterPerTurn ==
    \A c \in Calls : calls[c].pc = "start" =>
        /\ waiter[calls[c].t] = "none"
        /\ \A d \in Calls \ {c} : calls[d].pc = "start" => calls[d].t # calls[c].t

(***************************************************************************)
(* An approval that can still be answered belongs to a turn that is        *)
(* recorded as waiting for it, in memory and in the store: an answer never *)
(* changes the record of a turn that runs or has ended.  What the provider *)
(* does is another matter: it may run the turn already, if the write of an *)
(* accepted approval has failed.                                           *)
(***************************************************************************)
PendingApprovalHasWaitingTurn ==
    \A t \in Turns :
        /\ approvals[t] = "pending" => turns[t] = "waiting_for_approval"
        /\ durableApprovals[t] = "pending" => durableTurns[t] = "waiting_for_approval"

(***************************************************************************)
(* The active turn of a session is a recorded turn of that session, in     *)
(* memory and in the store, whatever writes were lost.                     *)
(***************************************************************************)
ActiveTurnIsRecorded ==
    \A s \in Sessions :
        /\ sessions[s] # None /\ sessions[s].active # None =>
               turns[sessions[s].active] # "none" /\ owner[sessions[s].active] = s
        /\ durableSessions[s] # None /\ durableSessions[s].active # None =>
               durableTurns[durableSessions[s].active] # "none" /\ owner[durableSessions[s].active] = s

(***************************************************************************)
(* The store follows the lifecycle of TurnLifecycle through crashes, lost  *)
(* writes and concurrent handlers: what is proved durable about a turn and *)
(* its approval is never taken back.                                       *)
(***************************************************************************)
Lifecycle == INSTANCE TurnLifecycle WITH status <- durableTurns, decision <- durableApprovals
DurableLifecycle == Lifecycle!Spec

(* In memory too, a turn that has ended keeps its status until the process dies. *)
TerminalTurnIsFinal ==
    [][\A t \in Turns : turns[t] \in Terminal /\ crashes' = crashes => turns'[t] = turns[t]]_vars

(***************************************************************************)
(* When recovery ends, the active turn of a session still waits for an     *)
(* approval or is watched by a waiter that will clear it.  Only where      *)
(* resume_session may return new references, or a waiter may fail to       *)
(* write, it may be a turn that ran when recovery read it and has ended    *)
(* since: recovery writes the record it read over that of the waiter.      *)
(***************************************************************************)
RecoveryLeavesNoStaleTurn ==
    [][phase = "recovering" /\ phase' = "serving" =>
         \A s \in Sessions : sessions[s] # None /\ sessions[s].active # None =>
             LET t == sessions[s].active
             IN  \/ waiter[t] # "none"
                 \/ turns[t] = "waiting_for_approval" /\ approvals'[t] = "pending"
                 \/ /\ RefsMayChange \/ "waiters" \in Faults
                    /\ turnsSnapshot[t] = "in_progress" /\ turns[t] \in Terminal]_vars

(***************************************************************************)
(* Without faults, a turn that runs ends: send_turn, an accepted approval  *)
(* and the waiter leave no gap in which it is forgotten.                   *)
(***************************************************************************)
RunningTurnEnds == \A t \in Turns : turns[t] = "in_progress" ~> turns[t] \in Terminal

(* Every request is answered: no handler waits forever for the approvals lock. *)
RequestsReturn == \A c \in Calls : calls[c] # Idle ~> calls[c] = Idle

-----------------------------------------------------------------------------
(* What the documentation says and the code does not keep *)

(***************************************************************************)
(* "Every session has at most one active turn" (runtime-lifecycle.md:60):  *)
(* no two turns of a session are unfinished.  send_turn checks a snapshot. *)
(***************************************************************************)
OneActiveTurn ==
    \A t, u \in Turns :
        owner[t] = owner[u] /\ {turns[t], turns[u]} \subseteq {"in_progress", "waiting_for_approval"}
            => t = u
=============================================================================
