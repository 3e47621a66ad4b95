# Verification of the gooselake runtime

gooselake is a server that runs coding agents. A client opens a *session* with a
provider (Codex, Claude or an ACP agent), sends it *turns*, answers *approvals*,
and follows what happens through an event log. Agents form *teams* that send
each other messages, run *processes* and work in git *worktrees*. All state is
kept twice: in memory, behind async locks, and in a SQLite store from which a
restarted server rebuilds it.

This directory holds TLA+ models of that system, the TLC configurations that
check them on small instances and TLAPS proofs of what matters most for every
instance. `PROJECT.json` lists components, runs, mutants, the source lines each
definition stands for, the hazards of the code and the theorems.

    tlc -workers 2 -config session_safety.cfg MCSessionRuntime
    tlc -workers 2 -config team_delivery.cfg MCTeamDelivery
    tlapm SessionRuntimeProofs.tla
    tlapm EventStreamProofs.tla

## Inventory

Paths are under `src/crates/`.

| Component | State | Operations | What makes it correct |
|---|---|---|---|
| session manager, `runtime-core/src/runtime` | `sessions`, `turns`, `approvals` (one RwLock each), the same in the store | create, send, interrupt, respond, close, force close, resume, set worktree; one background waiter per turn | a turn ends once, is watched by one task, and starts only after its approval; nothing runs unwatched |
| startup recovery, `runtime/recovery.rs` | snapshots of turns and approvals | one pass over the sessions before requests are served | every half-written state a crash leaves is classified; no session stays stuck on a turn nobody will end |
| providers, `runtime-provider-*` | per session: active turns, pending approvals, completed turns, waiters | create, resume, send, interrupt, respond, wait, close | one turn at a time; a result is delivered to whoever waits, before or after it exists |
| event log and streams, `runtime/events.rs`, `runtime-store-sqlite/src/repository.rs`, `runtime-server/src/http/events.rs` | rows with a sequence number per scope, a bounded broadcast channel | append, page, subscribe, replay then live | a subscriber sees each event once, in order, across the hand-over from replay to live |
| team messaging, `runtime-core/src/team_comms` | teams, members, messages, deliveries, queue per recipient | create, join, leave, send, broadcast, retry, cancel, wake-up after a turn, startup recovery | first in first out per recipient, at most one injection per delivery, no delivery forgotten |
| process manager, `runtime-tools/src/process.rs` | records, child handles, spawn permits, log offsets | run, list, read logs, kill, timeout, retention | one final status, permits returned, owner checks |
| worktree manager, `runtime-tools/src/worktree` | worktrees, claims, operation journal, git | create, claim, release, cleanup, spawn member, repair | no deletion under a live claim, one claim per session, rollback leaves nothing behind |
| tool gateway, `runtime-tools/src/gateway` | the idempotency cache of `gg_team_manage` add | dispatch of a tool call to a service | an invocation that is repeated adds one member |
| store, `runtime-store-sqlite` | SQLite | upserts, hydration | a write replaces one record atomically |
| bootstrap and HTTP, `runtime-server` | none of their own | startup order, request decoding | recovery is over before requests are served |
| Claude bridge, `sidecars/claude-bridge` | sessions and their turns in a separate process | the provider's requests over a pipe | each request is answered once, a turn ends once |
| MCP server, `sidecars/gg-mcp-server` | none | MCP tool calls to HTTP requests | stateless adapter |

How they interact. An HTTP handler or a tool call enters the session manager,
the team service, the process manager or the worktree manager. Team messaging
calls `send_turn` and `interrupt_turn` of the session manager and is woken by
its turn events; spawning a team member drives worktrees, sessions and teams in
one long sequence; every service appends to the event log. Each request is a
task of the tokio runtime and can be suspended at every `await`; locks are held
for short sections, except the approvals lock, which is held across a provider
call.

What is hard here: handlers that read a record, await a provider and write the
record back; a waiter, a client and recovery that end the same turn; two store
writes of which one succeeds; a crash between any two of them; wake-ups that
look for work before it is there; a lagging subscriber. The list, at its lines,
is `hazards` in `PROJECT.json`.

## Modules

| Module | Content | Instances for TLC |
|---|---|---|
| `SessionRuntime` | session manager, startup recovery and the turn table of the Codex provider | `MCSessionRuntime` |
| `TurnLifecycle` | abstract specification: what a reader of the store sees of a turn and its approval | |
| `EventStream` | the event log, the broadcast channel, the streams of sessions and processes (replay, then live) and the polled streams | `MCEventStream` |
| `TeamDelivery` | team messages, their deliveries, attempts, wake-ups and recovery, composed with an abstract recipient session | `MCTeamDelivery` |
| `ProcessManager` | processes, permits, output pumps, kill, timeout, retention and restart | `MCProcessManager` |
| `WorktreeStore` | rows and claims of worktrees as the store keeps them, and the startup repair | |
| `Worktrees` | the worktree service on top of it: creation, claims, cleanup, spawning and removing team members through the gateway, git | `MCWorktrees` |
| `Providers` | what the two provider modules share | |
| `AcpProvider` | the ACP provider and its connection to an agent process | `MCProviders` |
| `ClaudeProvider` | the Claude provider with its pool, and the bridge processes | `MCProviders` |
| `SessionRuntimeProofs`, `EventStreamProofs`, `TeamDeliveryProofs`, `ProcessManagerProofs`, `WorktreesProofs`, `AcpProviderProofs`, `ClaudeProviderProofs` | the inductive invariant of the module named, and its theorems | |

Where components meet, one of them appears in the other's module as what it
promises. `SessionRuntime` has of a provider the turn table that
`RuntimeProvider` describes; that the ACP and Claude providers keep their side
of it (a result is found by whoever waits) is what the `providers` run is about.
`TeamDelivery` has of a recipient whether it is idle, busy or closed, because
`send_turn` and `interrupt_turn` answer by that, and receives its turn ends as
events. `Worktrees` contains `WorktreeStore` and has of sessions and teams the
calls that a spawn makes, each of which may fail.

Every operator whose comment begins with *Mutant* is a mistake that the code
does not make; no specification uses it. `PROJECT.json` pairs each with the
property that finds it.

### SessionRuntime

State. `sessions`, `turns`, `approvals` are the three maps in memory;
`durableSessions`, `durableTurns`, `durableApprovals` the same in the store. Of
a session the model keeps the status and the active turn, of a turn and an
approval the status; an approval has the id of its turn, because `send_turn`
allocates exactly one for a turn that needs it. `owner` is the `session_id` of a
turn's record and stands for id allocation as well. `prov` and `provLive` are
the provider's view. `calls` holds the handlers in flight, `waiter` the task
spawned per turn, `todo`, `repair` and the two snapshots the locals of
`recover_startup`.

Actions. A handler is cut where another task can come between its parts:

| Code | Actions |
|---|---|
| `send_turn` | `send_turn` (read and check the session, allocate the id), `ProviderTakesTurn` or `ProviderRefusesTurn`, `RecordTurn` (two store writes), `PublishTurn`, then `RequestApproval`, `PublishApproval` or `spawn_wait_for_turn`; after a refusal `RecordFailure`, `PublishFailure` |
| `respond_approval` | `respond_approval` (takes the approvals lock), `ProviderTakesDecision` or `ProviderRefusesDecision`, `ResolveApproval` (releases it), `ApplyAccept` and `spawn_wait_for_turn`, or `ApplyDecline` |
| `interrupt_turn` | `interrupt_turn` |
| `create_session`, `resume_session`, `close_session`, `force_close_session` | one action each for the entry, `ProviderResumeSession`, `ProviderCloseSession`, then `StoreSession`, `PublishSession` |
| `set_session_worktree_id` | `set_session_worktree_id`, `StoreWorktree` |
| `spawn_wait_for_turn` task | `wait_for_turn`, `apply_terminal_result`, or `FailTurn`, `FailSession` (`apply_terminal_failure` uses two lock sections) |
| provider processes | `ProviderFinishesTurn`, `ProviderReapsTurn` |
| restart | `Crash` (memory, tasks and provider are lost, `new` hydrates the store), `RecoverSession`, `StoreRepair`, `PublishRepair`, `FinishRecovery` |

Failure of a store write: a section with two writes has a parameter `w`, the
number that succeed before `?` leaves the handler. What precedes the failing
write stays changed, in memory too, as in the code. `AbandonCall` is a failing
event append or a request future dropped at an await. `Faults` says for which
tasks these faults are enabled.

Deliberate simplifications. `PublishTurn` inserts turn and session in one step:
the turn id is not known to anybody else in between. `interrupt_turn` is one
step: it changes no record, and the kill it asks for looks to the provider's
table like the turn ending as interrupted. `wait_for_turn` checks and registers
in one step, which is exact as long as no session is closed *and* resumed
between its two lock sections; the liveness run that closes sessions therefore
does not resume them. A provider that is not registered at all is left out.

### TurnLifecycle

The promise an operator relies on: a turn is submitted once; if it asked for
approval it runs only after *accept*; an approval is decided once and only while
its turn waits; a turn ends once. `DurableLifecycle` is this specification with
the two durable maps substituted, checked by TLC and proved by TLAPS. The store
is the right place to state it: memory is lost in a crash.

### EventStream

State. `log` is the table `runtime_events`, of a row only its id, scope and
sequence number; `pending` the row that a task has committed and not yet sent on
the channel; `sent` everything sent since the process started, of which a
receiver can still read the last `Capacity`. Per client of a session or process
stream: the connection (`replay_cursor`, the backlog not yet sent, the receiver's
position), what was sent on it, and `last`, the id that its browser or SDK will
give as `Last-Event-ID`. Per client of a polled stream the same without receiver.

| Code | Actions |
|---|---|
| `append_event`, `append_process_event` | `append_event` (the transaction), `broadcast` (`event_tx.send`) |
| `append_team_event`, `append_worktree_event` | `append_team_event`: stored, never broadcast |
| `stream_session_events`, `stream_process_events` | `subscribe_events`, `replay_session_events` (one page), `replay_stream`, `live_stream`, `Lagged` |
| `stream_global_events`, `stream_team_events` | `poll_connect`, `poll_page`, `poll_send` |
| the client, the process | `disconnect`, `poll_disconnect`, `Crash` |

The two kinds of live stream have one channel each in the code and never meet,
so one channel stands for either. An append that finds its event id in the table
returns the old row; ids are never used twice, so this branch is left out. A
query that fails ends a replay (`disconnect`) or is repeated by the next poll.
The 128 places between a poller and its connection are not bounded here: a full
channel only delays `poll_page`.

### TeamDelivery

State. `mem`, `known`, `team` are the maps of `TeamCommsState`, `disk`,
`diskKnown`, `diskTeam` their copies in the store. A delivery is a pair of
message and recipient and has only its status; a message stands for its
idempotency key, so a repeated send finds it and does nothing; `rank` is
`created_at`, from which the queue order follows. `guard` is
`recipient_injection_guards`, `tasks` what request handlers, the waker and
startup recovery are doing. A session is *stuck* when it has an active turn that no
task waits for. `sends`, `lost` and `touched` are history: how often the recipient
took the delivery as a turn, how often it did while `send_turn` returned an error,
how often a client retried or cancelled it.

| Code | Actions |
|---|---|
| `send_direct`, `send_broadcast` | `create_message_and_deliveries`, `StoreMessage`, `upsert_team_delivery`, `Saved`, then attempts |
| `retry_delivery`, `cancel_message`, `delete_team` | one action under the state lock, then the same writes (`StoreTeam` for the team) |
| `inject_delivery` | `Skip` or `inject_delivery` (guard, reading, queue), `CheckRecipient`, `InterruptRecipient`, `transition_delivery_status`, the writes, `SendTurn`, a second transition, `Leave` |
| the waker of `mod.rs` | `resume_deferred_for_recipient`, `WakerLags` |
| `recover_startup_deferred_deliveries` | `recover_startup_deferred_deliveries` |
| `new`, a crash | `Crash` with `Hydrated` |
| `send_turn` of the session manager when it errs | `ProviderErrs` (a refusal or a timeout, then `turn.failed`), `SendIsNotStored` (one of its writes fails) |
| recipients (external to the service) | `TurnEnds`, `SessionChanges` |

An attempt is cut at each await. `transition_delivery_status` returns *Ok* when
the comparison fails, and `inject_delivery` goes on to send: the second disjunct
of `Transition`. A cancelled message may therefore still be sent, which is why
`SentOnce` and `RecoveryRepeatsNothing` count requests of clients. An error of
`send_turn` does not mean that the turn was not taken: a request to the Claude bridge
that times out is an `InvalidState`, which `inject_delivery` takes for a refusal; the
two properties count such sends as well (`lost`). Left out:
message text, titles, creating, joining and leaving a team, listing; an attempt
reads none of it.

### ProcessManager

State. `record` and `disk` are the status of a process in memory and store,
`free` the semaphore, `child` the process of the operating system, `slot`
whether `ManagedProcess.child` still holds it, `life` the place of its lifecycle
task, `signalled` whether it was sent SIGKILL, after which it runs until it exits.
Of a pump there are the counters of the code (bytes read, bytes counted as written,
the flag) and of its tokio `File` the bytes of the write under way, the bytes in the
log, and whether an error is kept for the next write: `write_all` returns before the
blocking write is done, and the File is dropped without a flush.

| Code | Actions |
|---|---|
| `run_process` | `run_process`, `SpawnChild`, `StoreProcess`, `InsertProcess`, or `teardown_untracked_child` when the store fails |
| `kill_process` | `kill_process` (the flag), `KillChild` (only while the slot holds the child) |
| `run_lifecycle` | `run_lifecycle`, `TimeoutFires`, `WaitReturns` or `WaitFails`, `FinishLifecycle` (a child whose wait failed is dropped there, and so sent SIGKILL) |
| `pump_stream` | `pump_stream` (one read), `PumpEnds`; the thread behind the File (external) is `WriteEnds` |
| `cleanup_expired_terminal` | `cleanup_expired_terminal` |
| a dropped request future | `DropCall`: the signal of `kill_on_drop`, and the permit |
| a restart | `Crash` with `Recovered` and `HydratedId` |

Time is left out: a timeout may fire at any moment of the wait. Children of an
earlier run of the server become `gone`; no later run knows of them.

### WorktreeStore and Worktrees

State. `worktrees` and `claims` are the two tables, `journal` the stage of each
spawn, `tree` and `branch` what git has, `lock` the lock of the one repository,
`cache` the idempotency entries of the gateway, `boot` what the repair has still
to write. The service keeps nothing else in memory: each operation reads the
store afresh. Of the team service there are `members` in memory and
`durableMembers` in the store, of the session manager `session`. Two history sets
say where an error has left something behind: `strays` are the members whose joining,
removal or journal write erred, `unclosed` the sessions whose creation or closing
did.

| Code | Actions |
|---|---|
| `create_worktree` | `create_worktree`, `CreateUnderLock`, `run_worktree_init_script`, `upsert_worktree_record` |
| `claim_worktree`, `release_worktree`, `cleanup_worktree` | an entry action each, `WriteClaim`, `CheckClaims` (before the lock), `RemoveArtifacts` (with it) |
| `spawn_team_member` | `spawn_team_member`, the creation above or `ReuseWorktree`, `WorktreeCreated`, `create_session`, `set_session_worktree_id`, `join_team`, `ClaimForMember`, `TeamJoined`, `SendOnboarding` |
| its rollbacks | `Undo`, `rollback_spawn_after_join`, `RollbackClaim`, `RolledBack` |
| a step of a rollback that fails, its error ignored | `remove_team_member` as `MemberLeavesMemory` (the store refuses) or `MemberStays` (the team or the member is gone, or the last); `CloseOrForce` when the store refuses both |
| a journal write that fails | `ErrRecording`: the request ends there, without a rollback |
| `invoke_team_manage` add, remove | `begin_manage_add`, `Expire`, `Return`; `invoke_team_manage_remove`, `on_member_removed`, `ReleaseNextClaim` |
| `repair_startup_state` | the operator of this name computes the writes, `StartupWrite` does one of them, `Crash` may come between two |
| a store of an earlier version | `Init`: any rows and claims that keep the foreign keys (`Consistent`) |

A worktree is its identity, which may be written with blanks around it: those
rows are different keys to the store and the same worktree to the repair. The
contents of the init script, paths and names are left out. The repair writes
in five loops (merged rows, duplicates, malformed rows, the claims on merged and
malformed rows, the claims on duplicates), each in the order of ids, which are names
without an order here: its writes are a set in five phases, and `StartupWrite` takes
any write of the lowest phase left. New rows and spawned sessions get ids that
were never used (`FreshIds`, `session[s] = None`).

### AcpProvider and ClaudeProvider

`AcpProvider` has the sessions with their active turn, approvals and completed
turns (one lock), the connections with their request tables, the slot that holds
the current connection (another lock), the task that `execute_turn` spawns for
each turn, and the callers. A handler is cut wherever it lets go of a lock or
waits for the agent: the two sections of `wait_for_turn`, the reservation of a
slot and its activation, the check of `closed` and the entry into the request
table, the check of the slot in `reap_connection_if_current_and_closed` and the
taking of what is in it by then. The agent may answer, refuse, ask for a
permission, exit or write what is not a message. A request whose client goes is
dropped where it waits (`DropCall`); a waiter is a task of its own and is not. Two
history fields say what that and a closed connection leave behind: `left` a slot whose
request was dropped before it was activated, `late` a prompt that entered the request
table after the connection was closed. Starting an agent is one step
(`ensure_connection`).

`ClaudeProvider` has the two session tables (`table` by session, `keys` by bridge
and name), the handles, the pool with `bridge_allocation_lock`, and on the other
side of the pipe each bridge process with its sessions and turns. Responses go to
the caller, events to a worker of the session: in the model they arrive in either
order. A bridge names sessions and turns by counters of its own; a turn's bridge
name is represented by the turn itself together with whether the provider still
has the mapping (`mapped`). `wait_for_turn` looks for a result (`AskForTurn`), in a
later lock section for the bridge's name (`resolve_bridge_turn_id`), and then asks with
that name or, without a mapping, with the runtime's, which no bridge knows. A request
may be dropped at any step (`DropRequest`, which also lets go of
`bridge_allocation_lock`), except while bridges are being given up, after a close or a
recycle.

Left out of both: message text, MCP configuration, health checks. Left out of the
Claude provider: tool approvals, `expected_turn_id`, the sequence check of
events, credential files, forks and history.

## Runs

Each run asks one question of one component. Ids, crashes and other bounded
supplies run out in every instance, therefore deadlock is not checked; that
nothing blocks for another reason is what the liveness runs show. Handlers and
ids are only compared, so that safety runs use symmetry; liveness runs do not.

| Run | Instance | What it shows |
|---|---|---|
| `session_safety` | 1 session, 2 turns, 2 handlers that may fail at every write, 1 crash | `NoTerminalConflict`, `OneWaiterPerTurn`, `PendingApprovalHasWaitingTurn`, `ActiveTurnIsRecorded`, `TerminalTurnIsFinal`, `RecoveryLeavesNoStaleTurn`, refinement of `TurnLifecycle` (`DurableLifecycle`), `TypeOK` |
| `session_live` | 1 session, 2 turns, 2 handlers, fair | `RunningTurnEnds`, `RequestsReturn` |
| `event_live` | 2 scopes, 2 handlers, 1 client, 1 poller, 2 events, page and channel of 1, 1 crash, fair | `HandoverLosesNothing`, `NoRedelivery`, `PollerFollowsLog`, `EventIsPolled`, `EventIsStreamed`, `TypeOK` |
| `team_delivery` | 2 messages to 1 recipient, 2 handlers, 1 retry, failing store and provider, 1 lost acknowledgement, a waker that lags, 1 crash | `SentOnce`, `RecoveryRepeatsNothing`, `InjectedWasSent`, `QueueOrder`, `TypeOK` |
| `team_live` | 2 messages, 1 handler, all three policies, deletion, closing and turns by others, fair | `RequestsReturn`, `HeadIsResumed` |
| `process_manager` | 2 handlers, 1 permit, 2 silent processes or 1 that writes, a log of 2 bytes, reads of 1 or 2 bytes, all faults, 1 crash | `ChildrenHavePermits`, `KilledIsReported`, `LogIsPrefix`, `NothingAfterEnd`, `TypeOK` |
| `process_live` | 2 handlers, 1 permit, children that never end by themselves, fair | `RequestsReturn`, `ProcessEnds` |
| `worktrees` | 2 identities, 3 rows, 2 sessions, 2 handlers, 1 invocation, 1 crash | `RolledBackIsUndone`, `AddedOnce`, `OneClaimAfterRepair`, `RepairRevivesNothing`, `TypeOK` |
| `providers` | 2 sessions, 2 turns, 2 connections or bridges, 2 callers (3 around a recycle) | `NoMissedResult`, `SlotsAreOwned`, `ActiveTurnIsServed`, `EventsReachSession`, `WaitFindsTurn` |

Three further runs are expected to fail. Each shows a sentence of the
documentation that the code does not keep (`findings` in `PROJECT.json`):

| Run | What the trace shows |
|---|---|
| `one_active_turn` | two sends pass the check of `active_turn_id`; the provider takes the first turn and ends it, then takes the second; before the waiter of the first has applied its end, the second is published too, and both are in progress in the records |
| `team_wakeup` | an attempt finds its recipient busy; the turn ends and the waker finds nothing deferred; then the attempt defers the delivery, and no later event resumes it |
| `worktree_cleanup` | cleanup counts no claims and waits for the repository lock; a session claims the worktree; cleanup removes its directory |

### Profiles and scopes

Several behaviours of one component are asked about in one run. The initial state
chooses what the clients of a behaviour do and what may fail, and the choice stays:
states of different choices are not mixed, so that each stays small.

* `MCSessionRuntime`. Safety: *turns* (send, approvals, interrupt, worktree), *close*
  (sends and closes), *resume* (sends and resumes). Liveness: two turns that race
  for one session, or everything except resume on one turn.
* `MCTeamDelivery`. *Clients* (retry and cancel, sends return no error), *errors* (sends
  err and clients retry), *recovery* (sends err and the runtime restarts).
* `MCProcessManager`. *Silent* (several processes that write nothing) or *writing* (one
  process whose output is followed byte by byte); the pumps of two processes share
  nothing. Liveness is asked of silent processes.
* `MCWorktrees`. *Claim* (one worktree from creation to cleanup, failing git and init
  script), *race* (two sessions, two worktrees), *spawn* (each mode, each step
  failing), *add* (one invocation, repeated, dropped, expired), *rejoin* (a spawn whose
  store fails, and a restart that reads its members again), *repeat* (one invocation
  whose store fails, repeated), *legacy* (startup on a store with duplicates, blanks,
  malformed rows and any claims).
* `MCProviders`. One provider has requests, the other none, as they share no state.
  ACP: a turn that is interrupted, waited for and closed while the agent exits;
  approvals, with dropped requests; approvals and sends with two turns; a connection
  that breaks and is resumed; two sessions with room for one, with every fault. Claude:
  turns, waits and interrupts on bridges that exit or do not answer; two turns in
  sequence; a turn whose session is resumed, or closed by requests that are dropped; new
  credentials, with a third caller; two sessions in the pool whose bridges do not answer
  or whose requests are dropped.

### Why the bounds are enough

One session suffices for the session manager: handlers of different sessions share
only the approvals lock. Two turns and two handlers are the smallest numbers at
which a stale snapshot, a second waiter and a blocked lock occur, one crash the
smallest at which recovery runs. `RefsMayChange` is true in `session_safety`: a resumed
session of Claude comes back with a reference that its creation did not return.

A page of one row makes every page a full one, so that the loop always meets the
boundary case; two handlers broadcast in either order; with a channel of one, two
events make a client lag. The three safety invariants of this run are proved
without a bound.

Two messages to one recipient are a queue with a head and one that waits;
recipients share only the state lock, which no step holds across another. One
retry and one cancel per message meet each step of the first attempt, one lost
acknowledgement each later send. A backlog
of one makes turn ends wait for the waker, one lag stops it.

One permit and two handlers make one wait for the other; a log of two bytes is
reached exactly, and crossed inside a read of two, and holds a first write that
fails and a second that gets the error. Two ids let a restart hand out
an id that was used (`HydratedId` is the largest stored one plus one).

Two rows with one identity, and a third that is blank, a tombstone or absent, meet
every branch of the merge; two rows and two sessions race for a claim. Two
connections let the reader of the first empty the slot of the second; two bridges
that both count from one let names collide.

### Fairness

Clients need not do anything. In each liveness run spawned tasks are scheduled
(`WF`), as tokio polls every ready task, and there are no faults: a store that
fails does leave a turn unwatched or a delivery where it is.

* Sessions: provider calls return, a running turn ends, and a handler that waits for
  the approvals lock gets it when it is free again and again (`SF`): tokio's RwLock
  is first in, first out.
* Events: tasks and streams. Nobody need append, connect or leave.
* Teams: guards are tokio mutexes, also first in, first out (`SF` on `Attempt`); turns
  of recipients end. The waker does not lag.
* Processes: the semaphore is fair (`SF` on `RunStep`), timers fire, a child that got
  SIGKILL ends and no descendant keeps its pipe open. A child need not end by
  itself. With such a descendant the final status does wait for it.

### Known behaviour

Properties one might expect, which the code does not have and which no run states:

* A send that is in flight during a close writes its snapshot over the closed record.
* If a provider cannot resume a session at startup, the turn it was running stays
  `in_progress` in the store; the session is failed, so that nobody waits for it.
* If the provider's references change when a session is resumed, recovery writes the
  session it has read after spawning a waiter, which may have ended the turn by then: the
  session keeps an ended turn as its active one until it is force-closed or the server
  restarts again. A session of Claude has no canonical reference when it is created and
  one when it is resumed, so that this is what happens there at the first restart.
* If an approval that the provider has taken as accepted cannot be stored, it stays
  pending while the turn runs, and a decline that follows ends the running turn at the
  provider.
* Two handlers of one session may broadcast in another order than they stored; a client
  that leaves in between has a cursor past an event it has not got.
* A message cancelled while it is being injected may still be sent.
* A send whose acknowledgement is lost is taken for a refusal if it timed out: the
  delivery is deferred and sent again. The `turn.failed` of a refusal wakes the waker, so
  that a provider which keeps refusing is asked again at once.
* If a write of `send_turn` fails after the turn was published, the session keeps an
  active turn that nobody watches until the next restart.
* `kill_process` after the lifecycle task has taken the child sets a flag only: the
  process runs on to its end or timeout.
* If `child.wait()` fails, the process is recorded as failed, also one that was killed
  or has timed out. Its permit, and that of a request that is dropped or cannot store
  its record, comes back as soon as SIGKILL is sent (or after two seconds), so that for
  a moment more children than `max_concurrent` may exist.
* A failed write to a log is counted as made, and the log then misses bytes in the
  middle; the last write of a pump may reach the log after the final status.
* The first lagged receive ends the waker; deferred deliveries then wait for a retry
  or a restart.
* An ACP prompt that passes the check of `closed` before the connection closes and
  enters the table after it waits until its session is closed.
* An ACP request that is dropped after it reserved a slot leaves it reserved until the
  session is closed or a failing resume of it releases it. One that is dropped after it
  took out an approval loses the turn, whose waiter times out.
* A turn of Claude that completes between the two looks of `wait_for_turn` makes that
  wait ask for a name the bridge does not know, until its timeout; the turn is then
  recorded as failed, although it completed. The same happens to a wait that starts
  after its session was resumed: it looks in a new, empty handle.
* A Claude request that is dropped between the two lock sections of `remove_session`
  leaves the key, and the session cannot be opened again under its name on that bridge.
* An invocation of the gateway whose entry expired while its spawn runs can add a
  second member. So can one whose spawn joined and then failed to write its journal:
  the request ends without a rollback, its entry is aborted, and a repeat spawns anew.
* The rollback of a spawn ignores the errors of its own steps and calls the operation
  rolled back. A session whose closing the store refused stays open, as does one that
  `create_session` stored before it erred, and one whose join failed and that the
  provider did not close (that path never forces). A member whose removal the store
  refused is gone from memory and comes back after a restart.
* `recycle_after_live_auth_change` clears both session tables and shuts the bridges
  down later. In between, a resume that took its old handle out before the clearing
  drops the key after it, and may drop the key of the same session opened anew on the
  old bridge: its events find no session. That bridge is closed next, therefore
  `EventsReachSession` speaks of bridges that stay (`~ShuttingDown`). No test and no
  bounded run had shown this: the invariant was not inductive without the exception.
* A waiter whose write of a failed turn is refused gives up before it has cleared the
  session, which keeps an active turn that nobody watches until the next restart.

Every property of a passing run has a mutant: an operator defined just before
the one it replaces, with a plausible mistake in it, under which TLC finds the
property violated.

## Proofs

`SessionRuntimeProofs` proves for every set of sessions, turns and handlers, any
number of crashes, every selection of faults and operations:

| Theorem | Statement |
|---|---|
| `InductiveInvariant` | `Spec => []IInv` |
| `TypeCorrect` | `Spec => []TypeOK` |
| `NoConflict` | `Spec => []NoTerminalConflict` |
| `WaitersAreUnique` | `Spec => []OneWaiterPerTurn` |
| `ApprovalsAreAnswerable` | `Spec => []PendingApprovalHasWaitingTurn` |
| `ActiveTurnsAreRecorded` | `Spec => []ActiveTurnIsRecorded` |
| `EndedTurnsStayEnded` | `Spec => TerminalTurnIsFinal` |
| `RecoveredTurnsAreTended` | `Spec => RecoveryLeavesNoStaleTurn` |
| `StoreImplementsLifecycle` | `Spec => DurableLifecycle` |

Assumptions: the named `ASSUME`s of `SessionRuntime` (operations and faults are
of the listed kinds, the crash bound is a number, `None` is not an id).

The argument. None of the properties is inductive alone: that a waiter finds its
turn in progress depends on who may still change the turn. `IInv` therefore says,
besides the types,

* `SessionsOK`: a session in memory is stored, and the active turn of either
  record is a recorded turn of that session;
* `TurnsOK`: which combinations the four records of a turn (turn and approval,
  memory and store), its waiter and its provider state may have;
* `CallsOK`: what a handler at each program counter may rely on, for instance
  that the turn of a handler about to record it is still unknown everywhere;
* `OneHandlerPerTurn`: two handlers never work on the same turn, because a turn
  id is allocated once and an approval is answered under the approvals lock;
* `RecoveryOK`: recovery's snapshots agree with the store as long as they are
  used, and no request handler runs beside it.

Each action has a lemma that it preserves `IInv`, one step per conjunct it can
disturb; `RecoverSession` needs in addition that the verdicts *missing* and
*foreign* cannot occur. The refinement then follows action by action: a step
maps to the `TurnLifecycle` action of its turn or leaves both durable maps alone.
A by-product: recovery never declines an approval (`NothingOrphaned`), its last
loop is a safeguard.

`RecoveredTurnsAreTended` has two invariants besides `IInv`. Where references stay as
they were and waiters can write, a session that recovery has passed is tended and a
record it has still to write names no turn that runs (`NothingStale`). In general such a
record may name a turn that has ended since (`AllSettled`): its waiter wrote the end and
recovery writes over it. The property allows that one case, and only then.

`EventStreamProofs` proves for every set of scopes, handlers, clients and pollers,
any number of events and crashes, every page size and capacity:

| Theorem | Statement |
|---|---|
| `InductiveInvariant` | `Spec => []IInv` |
| `TypeCorrect` | `Spec => []TypeOK` |
| `HandoverIsComplete` | `Spec => []HandoverLosesNothing` |
| `EventsAreSentOnce` | `Spec => []NoRedelivery` |
| `PollersFollowTheLog` | `Spec => []PollerFollowsLog` |

Assumptions: the followed and polled scopes are scopes, page size and capacity
are positive, `None` is neither scope nor row.

The argument rests on `LogOK`: numbers are taken in an immediate transaction, so
the keys of a scope are exactly `1..Top`, without holes. A page is then the run of
keys after the cursor, and one that is not full ends at `Top` (`PageIs`).
`ChannelOK` says that a row is broadcast at most once. `ClientOK` says of a
connection that its backlog is the interval up to the watermark, sent from the
front; that events of the channel follow only when it is empty; and that a row
above the watermark was sent, or is in the channel ahead of the receiver, or
still with its task. The last part holds when the connection goes live because
no row is left above the watermark then, and stays true because the receiver has
been subscribed since before the replay. A poller has simply been sent
`1, 2, ..., n`.

`TeamDeliveryProofs` proves for any messages, recipients, handlers, policies and
faults, and any number of retries, turns and restarts:

| Theorem | Statement |
|---|---|
| `InductiveInvariant` | `Spec => []IInv` |
| `TypeCorrect` | `Spec => []TypeOK` |
| `DeliveredOnce` | `Spec => []SentOnce` |
| `RecoveryIsSafe` | `Spec => []RecoveryRepeatsNothing` |
| `InjectedIsTrue` | `Spec => []InjectedWasSent` |
| `QueuesKeepOrder` | `Spec => QueueOrder` |

The hard case is a client's cancel, retry or deletion between two steps of an
attempt: the comparison of `transition_delivery_status` fails, and the attempt goes
on to send. `AttemptOK` therefore says what an attempt still knows at each step: it
holds the guard, only clients change its delivery, and a client that did has left a
trace in `touched` (`Recalled`); a send that is taken and reports an error adds to both
sides of the account. The budget of `SentOnce` is kept by `WaitingOK`
(what may still be tried is `Unspent`), and the order of the queue by
`HeadOfQueue`: what precedes a delivery that is being injected has ended or was
called back. `StoredOK` is what a crash leaves of this.

`ProcessManagerProofs` proves for any finite set of handlers, any number of permits,
processes, streams and restarts, any limit of the log and any faults:

| Theorem | Statement |
|---|---|
| `InductiveInvariant` | `Spec => []IInv` |
| `TypeCorrect` | `Spec => []TypeOK` |
| `PermitsBoundChildren` | `Spec => []ChildrenHavePermits` |
| `KillsAreReported` | `Spec => []KilledIsReported` |
| `LogsArePrefixes` | `Spec => []LogIsPrefix` |
| `EndedLogsAreFinal` | `Spec => NothingAfterEnd` |

The argument counts: `Permits` says that the permits free and the processes a request
or a lifecycle task holds one for (`Held`) add up to the size of the semaphore, which
each hand-over from request to task keeps because nobody else knows the process yet
(`CallsOK`, `FreshOK`). `LivesOK` relates the place of the lifecycle task to record,
child, signal and pumps; a running child is then in `Held` or was sent SIGKILL.
`PumpOK` relates the counters of a pump to its log: what is in the log and under way
is what was counted, less failed writes (`gap`). That ids do not run out
while a request waits for a permit is a fact of the bound only.

`WorktreesProofs` proves for any names, sessions, handlers and invocations, any
faults and restarts, and any store that keeps the foreign keys:

| Theorem | Statement |
|---|---|
| `InductiveInvariant` | `Spec => []IInv` |
| `TypeCorrect` | `Spec => []TypeOK` |
| `RollbacksAreComplete` | `Spec => []RolledBackIsUndone` |
| `InvocationsAddOnce` | `Spec => []AddedOnce` |
| `RepairLeavesOneClaim` | `Spec => OneClaimAfterRepair` |
| `ReleasesAreFinal` | `Spec => RepairRevivesNothing` |

`OwnerOK` says how far a spawn has come from what it has left behind, less what erred
(`strays`, `unclosed`), and `Owners` that no two handlers work on one spawn; rollback
is complete because each error leads to the undo of exactly that. `InvOK` says of an
invocation that is not forgotten that one handler at most works for it, and none once
it has added a member that is not a stray: such a member's entry is never aborted.
For the repair a lemma about `repair_startup_state` shows that, of any store, the
writes it computes write each claim once, revive none and would leave each session at
most one (`WillHold`, `OneEach`); every write, in whatever order, keeps this of the
rest, so the state in which none is left has it of the store. A crash starts over with
the repair of the store as it then is.

`AcpProviderProofs` proves `ASpec`, for any sessions, callers, requests and faults,
any capacity and any number of turns and agent processes:

| Theorem | Statement |
|---|---|
| `InductiveInvariant` | `ASpec => []IInv` |
| `TypeCorrect` | `ASpec => []ATypeOK` |
| `ResultsAreHeard` | `ASpec => []NoMissedResult` |
| `SlotsDoNotLeak` | `ASpec => []SlotsAreOwned` |
| `ActiveTurnsAreServed` | `ASpec => []ActiveTurnIsServed` |

`SessionOK` says that the active turn of a session has a task and no result and that
a turn which waits for an approval never ran; `DecisionOK` that a decision under way
is the only one on its turn, because the approval was taken out of the session
first; `SlotsHeld` that a slot which is not ready belongs to a call that will
activate or release it (`Reserving`) unless its request was dropped, the stronger form
of `SlotsAreOwned`. A second invariant, `Wired`, holds the requests: a task that waits is in the
table of its connection, and of no other (`Tended`), and only a closed connection
loses its reader (`IsRead`). Whatever closes a connection drains its table, so
`ActiveTurnIsServed` is the two invariants together.

`ClaudeProviderProofs` proves `CSpec`, for any sessions, callers, requests and
faults, any pool and any number of bridge processes, handles and turns:

| Theorem | Statement |
|---|---|
| `InductiveInvariant` | `CSpec => []IInv` |
| `TypeCorrect` | `CSpec => []CTypeOK` |
| `EventsArrive` | `CSpec => []EventsReachSession` |
| `WaitsFindTheirTurn` | `CSpec => []WaitFindsTurn` |

`TurnOK` says that an acknowledged turn has its result or its name in its handle
(`Finds`), `CallOK` the same of a send that has still to acknowledge it, and of a wait
what it may still find (`Waiting`): on the handle of its turn, a name or a result. A
mapping goes only when a result comes, which is why nothing else can make a wait ask
in vain. For the keys
the invariant has to follow a removal between its two lock sections: `KeysHeld` says
that it has the handle to itself and that the key leads to this handle until a
recycle clears the tables. `HandleOK` says that the bridge of a handle stays in the
pool as long as it is open, so that a recycle closes every bridge whose keys it took.

Assumptions, in all modules: the named `ASSUME` of the module. Besides the kinds of
operations and faults, bounds that are numbers and pools that are not empty, they
say that `None` is not one of the values it stands beside (ids, statuses, records,
deliveries, stages), which holds of an `Option`, and for processes that finitely many
requests are in flight at any time.

Only model-checked: the liveness properties (`RunningTurnEnds`, `RequestsReturn`,
`EventIsPolled`, `EventIsStreamed`, `HeadIsResumed`, `ProcessEnds`), as fairness and
`ENABLED` are beyond the prover; and the three expected violations, whose traces are
the evidence. Every other property of a passing run is a theorem.

## Not modelled

Left out for good, because no property here tells the outcomes apart: parsing,
formatting and configuration, HTTP decoding, credentials, command lines, paths, SQL
text, the MCP server (a stateless adapter), the contents of prompts and of output.

Left out although they keep state: creating, joining and leaving teams and the
titles of members (single store writes that an attempt does not read); tool
approvals and `expected_turn_id` of the Claude provider, and the check that the
numbers of its events grow (a bridge takes them from one counter); the fork and the
history of a bridge session; the text that an ACP turn collects
(`apply_session_update`); paging of process logs.
The Codex provider appears as the turn table in `SessionRuntime`; its two lock
sections of `wait_for_turn` are the ones `AcpProvider` has.

## Plan

Every safety property of a passing run is proved. Worth doing next, in this order:

1. `ProcessManager`: that the store follows memory, as an abstract lifecycle of one
   process (started, ended once) that the detailed specification implements.
2. `TeamDelivery`: the same for the status of a delivery in the store.
3. The steps behind the liveness properties that are safety: that a handler which
   waits for a lock or guard waits for a task that holds it and can go on.
4. Lemmas about `repair_startup_state` that no run states: a second repair changes
   nothing.
