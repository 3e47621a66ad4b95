------------------------ MODULE SessionRuntimeProofs ------------------------
(***************************************************************************)
(* Proofs about SessionRuntime for every number of sessions, turns and     *)
(* handlers, any faults and any number of crashes.                         *)
(***************************************************************************)
EXTENDS SessionRuntime, TLAPS

-----------------------------------------------------------------------------
(* The inductive invariant *)

Watching == {"waiting", "error"} \cup Terminal

(* An active turn named in a session record of s is a recorded turn of s. *)
Recorded(r, s, status) ==
    r # None /\ r.active # None => owner[r.active] = s /\ status[r.active] # "none"

(* A session in memory is stored; its active turn is recorded; a turn's session exists. *)
SessionsOK ==
    /\ \A s \in Sessions :
          /\ sessions[s] # None => durableSessions[s] # None
          /\ Recorded(sessions[s], s, turns)
          /\ Recorded(durableSessions[s], s, durableTurns)
    /\ \A t \in Turns : owner[t] # None => sessions[owner[t]] # None
    /\ \A s \in todo : sessions[s] # None

(* What the four records of one turn may be at the same time. *)
TurnsOK ==
    \A t \in Turns :
        /\ owner[t] = None => durableTurns[t] = "none"
        /\ turns[t] # "none" => durableTurns[t] # "none"
        /\ durableTurns[t] = "none" => approvals[t] = "none" /\ durableApprovals[t] = "none"
        /\ waiter[t] \in Watching => turns[t] = "in_progress" /\ durableTurns[t] = "in_progress"
        /\ waiter[t] = "failing" => turns[t] = "failed"
        /\ approvals[t] = "pending" =>
              turns[t] = "waiting_for_approval" /\ durableApprovals[t] = "pending"
        /\ durableApprovals[t] = "pending" => durableTurns[t] = "waiting_for_approval"

SessionPCs == {"close", "resume", "store_session", "publish_session", "set_worktree"}

(* What a handler at each of its steps has read and written. *)
CallOK(c) ==
    LET pc == calls[c].pc
        s == calls[c].s
        t == calls[c].t
        arg == calls[c].arg
        snap == calls[c].snap
    IN  /\ pc = "idle" => calls[c] = Idle
        /\ pc # "idle" => s \in Sessions
        /\ pc \in SessionPCs => t = None
        /\ pc \in SessionPCs \ {"close"} => snap \in SessionRecord /\ Recorded(snap, s, turns)
        /\ pc \in {"close", "resume", "set_worktree"} => sessions[s] # None
        /\ pc = "publish_session" => durableSessions[s] # None
        /\ pc \notin SessionPCs \cup {"idle"} => t \in Turns /\ owner[t] = s
        /\ pc \in {"dispatch", "record", "record_failure", "publish", "publish_failure"} =>
              snap \in SessionRecord /\ turns[t] = "none"
        /\ pc \in {"dispatch", "record", "record_failure"} => durableTurns[t] = "none"
        /\ pc = "publish" => durableTurns[t] = TurnStatusFor(arg)
        /\ pc = "publish_failure" => durableTurns[t] = "failed"
        /\ pc \in {"publish", "publish_failure", "request"} =>
              approvals[t] = "none" /\ durableApprovals[t] = "none"
        /\ pc \in {"request", "publish_approval", "apply"} =>
              turns[t] = "waiting_for_approval" /\ durableTurns[t] = "waiting_for_approval"
        /\ pc = "publish_approval" => approvals[t] = "none" /\ durableApprovals[t] = "pending"
        /\ pc = "start" => /\ turns[t] = "in_progress" /\ durableTurns[t] = "in_progress"
                           /\ waiter[t] = "none"
        /\ pc \in {"respond", "resolve"} => approvalsLock = c /\ approvals[t] = "pending"
        /\ pc \in {"respond", "resolve", "apply"} => arg \in {"accept", "decline"}
        /\ pc = "apply" => approvals[t] = arg /\ durableApprovals[t] = arg

CallsOK == \A c \in Calls : CallOK(c)

(* No two handlers work on the same turn. *)
OneHandlerPerTurn ==
    \A c, d \in Calls : c # d /\ calls[c].t # None => calls[d].t # calls[c].t

(* While recovery runs, nothing it has not looked at yet has changed since it started. *)
RecoveryOK ==
    /\ repair.pc \in {"idle", "store_session", "publish_session"}
    /\ repair.pc # "idle" => /\ repair.s \in Sessions /\ repair.snap \in SessionRecord
                             /\ Recorded(repair.snap, repair.s, turns)
                             /\ durableSessions[repair.s] # None
    /\ phase = "recovering" =>
          /\ \A c \in Calls : calls[c] = Idle
          /\ approvals = approvalsSnapshot /\ durableApprovals = approvalsSnapshot
          /\ \A t \in Turns :
                /\ approvalsSnapshot[t] = "pending" => turnsSnapshot[t] = "waiting_for_approval"
                /\ owner[t] \in todo =>
                      /\ waiter[t] = "none"
                      /\ turns[t] = turnsSnapshot[t] /\ durableTurns[t] = turnsSnapshot[t]

IInv == TypeOK /\ SessionsOK /\ TurnsOK /\ CallsOK /\ OneHandlerPerTurn /\ RecoveryOK

-----------------------------------------------------------------------------
(* The vocabulary every proof below may expand. *)
USE NoneAssumption
    DEF memory, store, provider, recovery, Terminal, TurnStatus, SessionStatus, ApprovalStatus,
        Idle, AllOperations, Serving, Accepts, Begin, Watching, Recorded,
        SessionPCs

(* What the helpers make of a session record: a record, and which turn it names. *)
LEMMA RecordHelpers ==
    ASSUME NEW r \in SessionRecord, NEW t \in Turns, NEW arg
    PROVE  /\ WithActiveTurn(t, arg) \in SessionRecord /\ WithActiveTurn(t, arg).active = t
           /\ WithoutActiveTurn(r) \in SessionRecord /\ WithoutActiveTurn(r).active = None
           /\ AfterTurn(r, t) \in SessionRecord /\ AfterTurn(r, t).active \in {None, r.active}
           /\ Resumed(r) \in SessionRecord /\ Resumed(r).active = r.active
           /\ TurnStatusFor(arg) \in {"in_progress", "waiting_for_approval"}
BY DEF WithActiveTurn, WithoutActiveTurn, AfterTurn, Resumed, ReadyUnlessEnded, TurnStatusFor,
       SessionRecord

(* A handler that moves on keeps all but its step. *)
LEMMA GotoFacts ==
    ASSUME calls \in [Calls -> Call], NEW c \in Calls, NEW step \in PC, Goto(c, step)
    PROVE  /\ calls' \in [Calls -> Call]
           /\ \A d \in Calls \ {c} : calls'[d] = calls[d]
           /\ calls'[c].pc = step /\ calls'[c].s = calls[c].s /\ calls'[c].t = calls[c].t
           /\ calls'[c].arg = calls[c].arg /\ calls'[c].snap = calls[c].snap
BY DEF Goto, Call

(* A handler that moves on with a new record keeps the rest. *)
LEMMA GotoWithFacts ==
    ASSUME calls \in [Calls -> Call], NEW c \in Calls, NEW step \in PC, NEW snap \in SessionRecord,
           GotoWith(c, step, snap)
    PROVE  /\ calls' \in [Calls -> Call]
           /\ \A d \in Calls \ {c} : calls'[d] = calls[d]
           /\ calls'[c].pc = step /\ calls'[c].s = calls[c].s /\ calls'[c].t = calls[c].t
           /\ calls'[c].arg = calls[c].arg /\ calls'[c].snap = snap
BY DEF GotoWith, Call

(* A handler that returns is idle. *)
LEMMA ReturnFacts ==
    ASSUME calls \in [Calls -> Call], NEW c \in Calls, Return(c)
    PROVE  /\ calls' \in [Calls -> Call]
           /\ \A d \in Calls \ {c} : calls'[d] = calls[d]
           /\ calls'[c] = Idle
BY DEF Return, Call, PC

(* Handlers that keep or drop their turn keep it to themselves. *)
LEMMA KeepOneHandler ==
    ASSUME OneHandlerPerTurn, \A d \in Calls : calls'[d].t \in {calls[d].t, None}
    PROVE  OneHandlerPerTurn'
BY DEF OneHandlerPerTurn

(* Recovery writes a session record that names the same turn or none. *)
LEMMA ReconciledRecord ==
    ASSUME NEW r \in SessionRecord,
           NEW verdict \in {"no_turn", "over", "awaiting", "unapproved", "running"}
    PROVE  /\ Reconciled(r, verdict) \in SessionRecord
           /\ Reconciled(r, verdict).active \in {None, r.active}
BY DEF Reconciled, WithoutActiveTurn, ReadyUnlessEnded, SessionRecord

(* create_session touches a session that no turn and no other handler knows. *)
LEMMA create_session_step ==
    ASSUME IInv, NEW c \in Calls, NEW s \in Sessions, create_session(c, s)
    PROVE  IInv'
<1>1. TypeOK'
  BY DEF IInv, TypeOK, Call, PC, SessionRecord, CallsOK, CallOK, NewSession, create_session
<1>2. CallsOK'
  BY DEF IInv, CallsOK, TypeOK, Call, PC, SessionRecord, CallOK, NewSession, create_session
<1>3. SessionsOK' /\ TurnsOK' /\ OneHandlerPerTurn' /\ RecoveryOK'
  BY DEF IInv, SessionsOK, TurnsOK, OneHandlerPerTurn, RecoveryOK, create_session
<1> QED BY <1>1, <1>2, <1>3 DEF IInv

(* close_session only starts a handler. *)
LEMMA close_session_step ==
    ASSUME IInv, NEW c \in Calls, NEW s \in Sessions, close_session(c, s)
    PROVE  IInv'
<1>1. TypeOK'
  BY DEF IInv, TypeOK, Call, PC, SessionRecord, CallsOK, CallOK, close_session
<1>2. CallsOK'
  BY DEF IInv, CallsOK, TypeOK, Call, CallOK, close_session
<1>3. SessionsOK' /\ TurnsOK' /\ OneHandlerPerTurn' /\ RecoveryOK'
  BY DEF IInv, SessionsOK, TurnsOK, OneHandlerPerTurn, RecoveryOK, close_session
<1> QED BY <1>1, <1>2, <1>3 DEF IInv

(* force_close_session only starts a handler, with the closed record to write. *)
LEMMA force_close_session_step ==
    ASSUME IInv, NEW c \in Calls, NEW s \in Sessions, force_close_session(c, s)
    PROVE  IInv'
<1>1. TypeOK'
  BY DEF IInv, TypeOK, Call, PC, SessionRecord, CallsOK, CallOK, ClosedSession,
      force_close_session
<1>2. CallsOK'
  BY DEF IInv, CallsOK, TypeOK, Call, PC, SessionRecord, CallOK, ClosedSession,
      force_close_session
<1>3. SessionsOK' /\ TurnsOK' /\ OneHandlerPerTurn' /\ RecoveryOK'
  BY DEF IInv, SessionsOK, TurnsOK, OneHandlerPerTurn, RecoveryOK, force_close_session
<1> QED BY <1>1, <1>2, <1>3 DEF IInv

(* resume_session keeps a snapshot whose active turn is recorded. *)
LEMMA resume_session_step ==
    ASSUME IInv, NEW c \in Calls, NEW s \in Sessions, resume_session(c, s)
    PROVE  IInv'
<1>1. TypeOK'
  BY DEF IInv, TypeOK, Call, PC, SessionRecord, CallsOK, CallOK, resume_session
<1>2. CallsOK'
  BY DEF IInv, CallsOK, TypeOK, SessionsOK, CallOK, resume_session
<1>3. SessionsOK' /\ TurnsOK' /\ OneHandlerPerTurn' /\ RecoveryOK'
  BY DEF IInv, SessionsOK, TurnsOK, OneHandlerPerTurn, RecoveryOK, resume_session
<1> QED BY <1>1, <1>2, <1>3 DEF IInv

(* set_session_worktree_id keeps a snapshot whose active turn is recorded. *)
LEMMA set_session_worktree_id_step ==
    ASSUME IInv, NEW c \in Calls, NEW s \in Sessions, set_session_worktree_id(c, s)
    PROVE  IInv'
<1>1. TypeOK'
  BY DEF IInv, TypeOK, Call, PC, SessionRecord, CallsOK, CallOK, set_session_worktree_id
<1>2. CallsOK'
  BY DEF IInv, CallsOK, TypeOK, SessionsOK, CallOK, set_session_worktree_id
<1>3. SessionsOK' /\ TurnsOK' /\ OneHandlerPerTurn' /\ RecoveryOK'
  BY DEF IInv, SessionsOK, TurnsOK, OneHandlerPerTurn, RecoveryOK, set_session_worktree_id
<1> QED BY <1>1, <1>2, <1>3 DEF IInv

(* send_turn allocates a turn that no record and no handler knows yet. *)
LEMMA send_turn_step ==
    ASSUME IInv, NEW c \in Calls, NEW s \in Sessions, NEW t \in Turns, NEW op \in AllOperations,
           send_turn(c, s, t, op)
    PROVE  IInv'
<1>1. TypeOK'
  BY DEF IInv, TypeOK, Call, PC, SessionRecord, CallsOK, CallOK, Writable, send_turn
<1>2. CallsOK'
  BY DEF IInv, CallsOK, TypeOK, TurnsOK, CallOK, Writable, send_turn
<1>3. OneHandlerPerTurn'
  BY DEF IInv, OneHandlerPerTurn, TypeOK, Call, CallsOK, CallOK, send_turn
<1>4. SessionsOK' /\ TurnsOK' /\ RecoveryOK'
  BY DEF IInv, SessionsOK, TurnsOK, RecoveryOK, send_turn
<1> QED BY <1>1, <1>2, <1>3, <1>4 DEF IInv

(* respond_approval takes a turn no handler has: its approval is pending and the lock was free. *)
LEMMA respond_approval_step ==
    ASSUME IInv, NEW c \in Calls, NEW s \in Sessions, NEW t \in Turns,
           NEW decision \in {"accept", "decline"}, respond_approval(c, s, t, decision)
    PROVE  IInv'
<1>1. TypeOK'
  BY DEF IInv, TypeOK, Call, PC, SessionRecord, CallsOK, CallOK, MayRespond, respond_approval
<1>2. CallsOK'
  BY DEF IInv, CallsOK, TypeOK, CallOK, MayRespond, respond_approval
<1>3. OneHandlerPerTurn'
  BY DEF IInv, OneHandlerPerTurn, TypeOK, TurnsOK, RecoveryOK, Call, PC, SessionRecord,
      CallsOK, CallOK, MayRespond, respond_approval
<1>4. SessionsOK' /\ TurnsOK' /\ RecoveryOK'
  BY DEF IInv, SessionsOK, TurnsOK, RecoveryOK, respond_approval
<1> QED BY <1>1, <1>2, <1>3, <1>4 DEF IInv

(* The closed record that the handler goes on with names no turn. *)
LEMMA ProviderCloseSession_step ==
    ASSUME IInv, NEW c \in Calls, ProviderCloseSession(c)
    PROVE  IInv'
<1> DEFINE record == ClosedSession
<1>1. calls[c].s \in Sessions /\ calls[c].t = None
  BY DEF IInv, CallsOK, CallOK, ProviderCloseSession
<1>2. record \in SessionRecord /\ record.active = None
  BY DEF ClosedSession, SessionRecord
<1> HIDE DEF record
<1>3. /\ calls' \in [Calls -> Call]
      /\ \A d \in Calls \ {c} : calls'[d] = calls[d]
      /\ \/ calls'[c] = Idle
         \/ /\ calls'[c].pc = "store_session" /\ calls'[c].s = calls[c].s
            /\ calls'[c].t = None /\ calls'[c].snap = record
  BY <1>1, <1>2, GotoWithFacts, ReturnFacts DEF IInv, TypeOK, PC, ProviderCloseSession, record
<1>4. UNCHANGED <<owner, memory, store, approvalsLock, waiter, recovery>>
  BY DEF ProviderCloseSession
<1>5. TypeOK'
  <2>1. provLive' \in [Sessions -> BOOLEAN]
    BY DEF IInv, TypeOK, ProviderCloseSession
  <2>2. prov' \in [Turns -> {"none", "pending", "running", "killed"} \cup Terminal]
    <3>1. \A state : Dropped(state) \in {"none", "killed"}
      BY DEF Dropped
    <3> QED BY <3>1 DEF IInv, TypeOK, ProviderCloseSession
  <2> QED BY <1>3, <1>4, <2>1, <2>2 DEF IInv, TypeOK
<1>6. SessionsOK' /\ TurnsOK'
  BY <1>4 DEF IInv, SessionsOK, TurnsOK
<1>7. CallsOK'
  <2> SUFFICES ASSUME NEW d \in Calls PROVE CallOK(d)'
    BY DEF CallsOK
  <2>1. CASE d # c
    BY <1>3, <1>4, <2>1 DEF IInv, CallsOK, CallOK
  <2>2. CASE d = c
    BY <1>1, <1>2, <1>3, <1>4, <2>2 DEF IInv, TypeOK, CallOK
  <2> QED BY <2>1, <2>2
<1>8. OneHandlerPerTurn'
  BY <1>1, <1>3, KeepOneHandler DEF IInv
<1>9. RecoveryOK'
  BY <1>3, <1>4 DEF IInv, RecoveryOK, ProviderCloseSession
<1> QED BY <1>5, <1>6, <1>7, <1>8, <1>9 DEF IInv

(* The resumed record keeps the active turn of the snapshot. *)
LEMMA ProviderResumeSession_step ==
    ASSUME IInv, NEW c \in Calls, ProviderResumeSession(c)
    PROVE  IInv'
<1> DEFINE record == Resumed(calls[c].snap)
<1>1. calls[c].s \in Sessions /\ calls[c].t = None
      /\ calls[c].snap \in SessionRecord /\ Recorded(calls[c].snap, calls[c].s, turns)
  BY DEF IInv, CallsOK, CallOK, ProviderResumeSession
<1>2. record \in SessionRecord /\ record.active = calls[c].snap.active
  BY <1>1 DEF Resumed, SessionRecord
<1> HIDE DEF record
<1>3. /\ calls' \in [Calls -> Call]
      /\ \A d \in Calls \ {c} : calls'[d] = calls[d]
      /\ \/ calls'[c] = Idle
         \/ /\ calls'[c].pc = "store_session" /\ calls'[c].s = calls[c].s
            /\ calls'[c].t = None /\ calls'[c].snap = record
  BY <1>1, <1>2, GotoWithFacts, ReturnFacts DEF IInv, TypeOK, PC, ProviderResumeSession, record
<1>4. UNCHANGED <<owner, memory, store, approvalsLock, waiter, prov, recovery>>
  BY DEF ProviderResumeSession
<1>5. TypeOK'
  <2>1. provLive' \in [Sessions -> BOOLEAN]
    BY DEF IInv, TypeOK, ProviderResumeSession
  <2> QED BY <1>3, <1>4, <2>1 DEF IInv, TypeOK
<1>6. SessionsOK' /\ TurnsOK'
  BY <1>4 DEF IInv, SessionsOK, TurnsOK
<1>7. CallsOK'
  <2> SUFFICES ASSUME NEW d \in Calls PROVE CallOK(d)'
    BY DEF CallsOK
  <2>1. CASE d # c
    BY <1>3, <1>4, <2>1 DEF IInv, CallsOK, CallOK
  <2>2. CASE d = c
    BY <1>1, <1>2, <1>3, <1>4, <2>2 DEF IInv, TypeOK, CallOK
  <2> QED BY <2>1, <2>2
<1>8. OneHandlerPerTurn'
  BY <1>1, <1>3, KeepOneHandler DEF IInv
<1>9. RecoveryOK'
  BY <1>3, <1>4 DEF IInv, RecoveryOK, ProviderResumeSession
<1> QED BY <1>5, <1>6, <1>7, <1>8, <1>9 DEF IInv

(* The provider takes a turn: no record changes. *)
LEMMA ProviderTakesTurn_step ==
    ASSUME IInv, NEW c \in Calls, ProviderTakesTurn(c)
    PROVE  IInv'
<1>1. TypeOK'
  <2>1. calls' \in [Calls -> Call]
    BY GotoFacts DEF IInv, TypeOK, CallsOK, CallOK, PC, ProviderTakesTurn
  <2> QED BY <2>1 DEF IInv, TypeOK, CallsOK, CallOK, ProviderTakesTurn
<1>2. CallsOK'
  BY DEF IInv, CallsOK, TypeOK, Call, CallOK, Goto, ProviderTakesTurn
<1>3. SessionsOK' /\ TurnsOK' /\ OneHandlerPerTurn' /\ RecoveryOK'
  BY DEF IInv, SessionsOK, TurnsOK, OneHandlerPerTurn, RecoveryOK, Goto, ProviderTakesTurn
<1> QED BY <1>1, <1>2, <1>3 DEF IInv

(* The provider refuses a turn: no record changes. *)
LEMMA ProviderRefusesTurn_step ==
    ASSUME IInv, NEW c \in Calls, ProviderRefusesTurn(c)
    PROVE  IInv'
<1>1. TypeOK'
  <2>1. calls' \in [Calls -> Call]
    BY GotoFacts DEF IInv, TypeOK, PC, ProviderRefusesTurn
  <2>2. provLive' \in [Sessions -> BOOLEAN]
    BY DEF IInv, TypeOK, ProviderRefusesTurn
  <2> QED BY <2>1, <2>2 DEF IInv, TypeOK, ProviderRefusesTurn
<1>2. CallsOK'
  BY DEF IInv, CallsOK, TypeOK, Call, CallOK, Goto, ProviderRefusesTurn
<1>3. SessionsOK' /\ TurnsOK' /\ OneHandlerPerTurn' /\ RecoveryOK'
  BY DEF IInv, SessionsOK, TurnsOK, OneHandlerPerTurn, RecoveryOK, Goto, ProviderRefusesTurn
<1> QED BY <1>1, <1>2, <1>3 DEF IInv

(* The provider takes a decision: the approval stays pending and locked. *)
LEMMA ProviderTakesDecision_step ==
    ASSUME IInv, NEW c \in Calls, ProviderTakesDecision(c)
    PROVE  IInv'
<1>1. TypeOK'
  <2>1. calls' \in [Calls -> Call]
    BY GotoFacts DEF IInv, TypeOK, CallsOK, CallOK, PC, ProviderTakesDecision
  <2> QED BY <2>1 DEF IInv, TypeOK, CallsOK, CallOK, ProviderTakesDecision
<1>2. CallsOK'
  BY DEF IInv, CallsOK, TypeOK, Call, CallOK, Goto, ProviderTakesDecision
<1>3. SessionsOK' /\ TurnsOK' /\ OneHandlerPerTurn' /\ RecoveryOK'
  BY DEF IInv, SessionsOK, TurnsOK, OneHandlerPerTurn, RecoveryOK, Goto, ProviderTakesDecision
<1> QED BY <1>1, <1>2, <1>3 DEF IInv

(* The provider refuses a decision: the approval stays pending. *)
LEMMA ProviderRefusesDecision_step ==
    ASSUME IInv, NEW c \in Calls, ProviderRefusesDecision(c)
    PROVE  IInv'
<1>1. TypeOK'
  BY DEF IInv, TypeOK, Call, PC, SessionRecord, CallsOK, CallOK, Return,
      ProviderRefusesDecision
<1>2. CallsOK'
  BY DEF IInv, CallsOK, TypeOK, Call, CallOK, Return, ProviderRefusesDecision
<1>3. SessionsOK' /\ TurnsOK' /\ OneHandlerPerTurn' /\ RecoveryOK'
  BY DEF IInv, SessionsOK, TurnsOK, OneHandlerPerTurn, RecoveryOK, Return,
      ProviderRefusesDecision
<1> QED BY <1>1, <1>2, <1>3 DEF IInv

(* A session record is written to the store; its active turn is stored already. *)
LEMMA StoreSession_step ==
    ASSUME IInv, NEW c \in Calls, StoreSession(c)
    PROVE  IInv'
<1>1. TypeOK'
  BY DEF IInv, TypeOK, Call, PC, SessionRecord, CallsOK, CallOK, Goto, StoreSession
<1>2. SessionsOK'
  BY DEF IInv, SessionsOK, TypeOK, TurnsOK, Call, SessionRecord, CallsOK, CallOK, Goto,
      StoreSession
<1>3. CallsOK'
  BY DEF IInv, CallsOK, TypeOK, Call, CallOK, Goto, StoreSession
<1>4. RecoveryOK'
  BY DEF IInv, RecoveryOK, TypeOK, Call, CallsOK, CallOK, Goto, StoreSession
<1>5. TurnsOK' /\ OneHandlerPerTurn'
  BY DEF IInv, TurnsOK, OneHandlerPerTurn, Goto, StoreSession
<1> QED BY <1>1, <1>2, <1>3, <1>4, <1>5 DEF IInv

(* A session record enters memory after it was stored. *)
LEMMA PublishSession_step ==
    ASSUME IInv, NEW c \in Calls, PublishSession(c)
    PROVE  IInv'
<1>1. TypeOK'
  BY DEF IInv, TypeOK, Call, PC, SessionRecord, CallsOK, CallOK, Return, PublishSession
<1>2. SessionsOK'
  BY DEF IInv, SessionsOK, TypeOK, Call, CallsOK, CallOK, Return, PublishSession
<1>3. CallsOK'
  BY DEF IInv, CallsOK, TypeOK, Call, CallOK, Return, PublishSession
<1>4. TurnsOK' /\ OneHandlerPerTurn' /\ RecoveryOK'
  BY DEF IInv, TurnsOK, OneHandlerPerTurn, RecoveryOK, Return, PublishSession
<1> QED BY <1>1, <1>2, <1>3, <1>4 DEF IInv

(* The copy of the session is stored; its active turn is stored already. *)
LEMMA StoreWorktree_step ==
    ASSUME IInv, NEW c \in Calls, StoreWorktree(c)
    PROVE  IInv'
<1>1. TypeOK'
  BY DEF IInv, TypeOK, Call, PC, SessionRecord, CallsOK, CallOK, Return, StoreWorktree
<1>2. SessionsOK'
  BY DEF IInv, SessionsOK, TypeOK, TurnsOK, RecoveryOK, Call, PC, SessionRecord, CallsOK,
      CallOK, Return, StoreWorktree
<1>3. CallsOK'
  BY DEF IInv, CallsOK, TypeOK, Call, CallOK, Return, StoreWorktree
<1>4. RecoveryOK'
  BY DEF IInv, RecoveryOK, TypeOK, Call, CallsOK, CallOK, Return, StoreWorktree
<1>5. TurnsOK' /\ OneHandlerPerTurn'
  BY DEF IInv, TurnsOK, OneHandlerPerTurn, Return, StoreWorktree
<1> QED BY <1>1, <1>2, <1>3, <1>4, <1>5 DEF IInv

(* A new turn is stored, then the session that names it: w of the two writes are made. *)
LEMMA RecordTurn_step ==
    ASSUME IInv, NEW c \in Calls, NEW w \in 0..2, RecordTurn(c, w)
    PROVE  IInv'
<1> DEFINE s == calls[c].s
           t == calls[c].t
           arg == calls[c].arg
           record == WithActiveTurn(t, arg)
<1>1. /\ s \in Sessions /\ t \in Turns /\ owner[t] = s /\ calls[c].snap \in SessionRecord
      /\ turns[t] = "none" /\ durableTurns[t] = "none"
      /\ approvals[t] = "none" /\ durableApprovals[t] = "none"
  BY DEF IInv, TypeOK, TurnsOK, CallsOK, CallOK, RecordTurn
<1>2. /\ record \in SessionRecord /\ record.active = t
      /\ TurnStatusFor(arg) \in {"in_progress", "waiting_for_approval"}
  BY <1>1, RecordHelpers
<1>3. /\ calls' \in [Calls -> Call]
      /\ \A d \in Calls \ {c} : calls'[d] = calls[d]
      /\ \/ calls'[c] = Idle /\ w # 2
         \/ /\ calls'[c].pc = "publish" /\ w = 2 /\ calls'[c].arg = arg
            /\ calls'[c].s = s /\ calls'[c].t = t /\ calls'[c].snap = calls[c].snap
  BY GotoFacts, ReturnFacts DEF IInv, TypeOK, PC, RecordTurn
<1>4. \/ durableTurns' = durableTurns /\ durableSessions' = durableSessions /\ w # 2
      \/ /\ durableTurns' = [durableTurns EXCEPT ![t] = TurnStatusFor(arg)]
         /\ durableSessions' \in {durableSessions, [durableSessions EXCEPT ![s] = record]}
  BY DEF RecordTurn, StoreTurnThenSession
<1>5. UNCHANGED <<owner, memory, durableApprovals, approvalsLock, waiter, provider, recovery>>
  BY DEF RecordTurn
<1> HIDE DEF record
<1>6. TypeOK'
  BY <1>1, <1>2, <1>3, <1>4, <1>5 DEF IInv, TypeOK
<1>7. SessionsOK'
  BY <1>1, <1>2, <1>4, <1>5 DEF IInv, TypeOK, SessionsOK, SessionRecord
<1>8. TurnsOK'
  BY <1>1, <1>2, <1>4, <1>5 DEF IInv, TypeOK, TurnsOK
<1>9. CallsOK'
  <2> SUFFICES ASSUME NEW d \in Calls PROVE CallOK(d)'
    BY DEF CallsOK
  <2>1. CASE d # c
    BY <1>1, <1>2, <1>3, <1>4, <1>5, <2>1 DEF IInv, TypeOK, CallsOK, CallOK, OneHandlerPerTurn, Call
  <2>2. CASE d = c
    BY <1>1, <1>2, <1>3, <1>4, <1>5, <2>2 DEF IInv, TypeOK, CallOK
  <2> QED BY <2>1, <2>2
<1>10. OneHandlerPerTurn'
  BY <1>3, KeepOneHandler DEF IInv
<1>11. RecoveryOK'
  BY <1>1, <1>2, <1>3, <1>4, <1>5 DEF IInv, TypeOK, RecoveryOK
<1> QED BY <1>6, <1>7, <1>8, <1>9, <1>10, <1>11 DEF IInv

(* A refused turn is stored as failed, then its session without an active turn. *)
LEMMA RecordFailure_step ==
    ASSUME IInv, NEW c \in Calls, NEW w \in 0..2, RecordFailure(c, w)
    PROVE  IInv'
<1> DEFINE s == calls[c].s
           t == calls[c].t
           record == WithoutActiveTurn(calls[c].snap)
<1>1. /\ s \in Sessions /\ t \in Turns /\ owner[t] = s
      /\ turns[t] = "none" /\ durableTurns[t] = "none"
      /\ approvals[t] = "none" /\ durableApprovals[t] = "none"
      /\ calls[c].snap \in SessionRecord /\ record \in SessionRecord /\ record.active = None
  BY RecordHelpers DEF IInv, TypeOK, TurnsOK, CallsOK, CallOK, RecordFailure
<1>2. /\ calls' \in [Calls -> Call]
      /\ \A d \in Calls \ {c} : calls'[d] = calls[d]
      /\ \/ calls'[c] = Idle /\ w # 2
         \/ /\ calls'[c].pc = "publish_failure" /\ w = 2
            /\ calls'[c].s = s /\ calls'[c].t = t /\ calls'[c].snap = calls[c].snap
  BY GotoFacts, ReturnFacts DEF IInv, TypeOK, PC, RecordFailure
<1>3. /\ w = 2 => durableTurns' = [durableTurns EXCEPT ![t] = "failed"]
      /\ durableTurns' \in {durableTurns, [durableTurns EXCEPT ![t] = "failed"]}
      /\ durableSessions' \in {durableSessions, [durableSessions EXCEPT ![s] = record]}
  BY DEF RecordFailure, StoreTurnThenSession
<1>4. UNCHANGED <<owner, memory, durableApprovals, approvalsLock, waiter, provider, recovery>>
  BY DEF RecordFailure
<1> HIDE DEF record
<1>5. TypeOK'
  BY <1>1, <1>2, <1>3, <1>4 DEF IInv, TypeOK
<1>6. SessionsOK'
  BY <1>1, <1>3, <1>4 DEF IInv, TypeOK, SessionsOK, SessionRecord
<1>7. TurnsOK'
  BY <1>1, <1>3, <1>4 DEF IInv, TypeOK, TurnsOK
<1>8. CallsOK'
  <2> SUFFICES ASSUME NEW d \in Calls PROVE CallOK(d)'
    BY DEF CallsOK
  <2>1. CASE d # c
    BY <1>1, <1>2, <1>3, <1>4, <2>1 DEF IInv, TypeOK, CallsOK, CallOK, OneHandlerPerTurn, Call
  <2>2. CASE d = c
    BY <1>1, <1>2, <1>3, <1>4, <2>2 DEF IInv, TypeOK, CallOK
  <2> QED BY <2>1, <2>2
<1>9. OneHandlerPerTurn'
  BY <1>2, KeepOneHandler DEF IInv
<1>10. RecoveryOK'
  BY <1>1, <1>2, <1>3, <1>4 DEF IInv, TypeOK, RecoveryOK
<1> QED BY <1>5, <1>6, <1>7, <1>8, <1>9, <1>10 DEF IInv

(* An accepted turn runs: it waited, and only this handler could change it. *)
LEMMA ApplyAccept_step ==
    ASSUME IInv, NEW c \in Calls, NEW w \in 0..2, ApplyAccept(c, w)
    PROVE  IInv'
<1> DEFINE s == calls[c].s
           t == calls[c].t
           record == [sessions[s] EXCEPT !.status = "turn_running"]
<1>1. /\ s \in Sessions /\ t \in Turns /\ owner[t] = s /\ calls[c].pc = "apply"
      /\ turns[t] = "waiting_for_approval" /\ durableTurns[t] = "waiting_for_approval"
      /\ approvals[t] = "accept" /\ durableApprovals[t] = "accept" /\ waiter[t] = "none"
  BY DEF IInv, TypeOK, TurnsOK, CallsOK, CallOK, ApplyAccept, ApplyDecision
<1>2. sessions[s] \in SessionRecord /\ durableSessions[s] \in SessionRecord
  BY <1>1 DEF IInv, TypeOK, SessionsOK
<1>3. record \in SessionRecord /\ record.active = sessions[s].active
  BY <1>1, <1>2, RecordHelpers DEF SessionRecord
<1>4. /\ calls' \in [Calls -> Call]
      /\ \A d \in Calls \ {c} : calls'[d] = calls[d]
      /\ \/ calls'[c] = Idle
         \/ /\ calls'[c].pc = "start" /\ w = 2 /\ calls'[c].s = s /\ calls'[c].t = t
  BY GotoFacts, ReturnFacts DEF IInv, TypeOK, PC, ApplyAccept, ApplyDecision
<1>5. /\ turns' = [turns EXCEPT ![t] = "in_progress"]
      /\ \/ durableTurns' = durableTurns /\ w = 0
         \/ durableTurns' = [durableTurns EXCEPT ![t] = "in_progress"]
      /\ sessions' \in {sessions, [sessions EXCEPT ![s] = record]}
      /\ durableSessions' \in {durableSessions, [durableSessions EXCEPT ![s] = record]}
  BY DEF ApplyAccept, ApplyDecision, StoreTurnThenSession
<1>6. UNCHANGED <<owner, approvals, durableApprovals, approvalsLock, waiter, provider, recovery>>
  BY DEF ApplyAccept, ApplyDecision
<1> HIDE DEF record
<1>7. TypeOK'
  BY <1>1, <1>2, <1>3, <1>4, <1>5, <1>6 DEF IInv, TypeOK
<1>8. SessionsOK'
  <2>1. \A x \in Turns : /\ turns[x] # "none" => turns'[x] # "none" /\ durableTurns'[x] # "none"
                         /\ durableTurns[x] # "none" => durableTurns'[x] # "none"
    BY <1>1, <1>5 DEF IInv, TypeOK, TurnsOK
  <2>2. record # None /\ (record.active # None =>
            /\ record.active \in Turns /\ owner[record.active] = s
            /\ turns'[record.active] # "none" /\ durableTurns'[record.active] # "none")
    BY <1>1, <1>2, <1>3, <2>1 DEF IInv, TypeOK, SessionsOK, SessionRecord
  <2> QED BY <1>1, <1>2, <1>5, <1>6, <2>1, <2>2 DEF IInv, TypeOK, SessionsOK, SessionRecord
<1>9. TurnsOK'
  BY <1>1, <1>5, <1>6 DEF IInv, TypeOK, TurnsOK
<1>10. CallsOK'
  <2> SUFFICES ASSUME NEW d \in Calls PROVE CallOK(d)'
    BY DEF CallsOK
  <2>1. CASE d # c
    BY <1>1, <1>2, <1>3, <1>4, <1>5, <1>6, <2>1
       DEF IInv, TypeOK, CallsOK, CallOK, OneHandlerPerTurn, Call
  <2>2. CASE d = c
    BY <1>1, <1>4, <1>5, <1>6, <2>2 DEF IInv, TypeOK, CallOK
  <2> QED BY <2>1, <2>2
<1>11. OneHandlerPerTurn'
  BY <1>4, KeepOneHandler DEF IInv
<1>12. RecoveryOK'
  BY <1>1, <1>2, <1>3, <1>4, <1>5, <1>6 DEF IInv, TypeOK, RecoveryOK
<1> QED BY <1>7, <1>8, <1>9, <1>10, <1>11, <1>12 DEF IInv

(* A declined turn is interrupted: it waited, and only this handler could change it. *)
LEMMA ApplyDecline_step ==
    ASSUME IInv, NEW c \in Calls, NEW w \in 0..2, ApplyDecline(c, w)
    PROVE  IInv'
<1> DEFINE s == calls[c].s
           t == calls[c].t
           record == AfterTurn(sessions[s], t)
<1>1. /\ s \in Sessions /\ t \in Turns /\ owner[t] = s /\ calls[c].pc = "apply"
      /\ turns[t] = "waiting_for_approval" /\ durableTurns[t] = "waiting_for_approval"
      /\ approvals[t] = "decline" /\ durableApprovals[t] = "decline" /\ waiter[t] = "none"
  BY DEF IInv, TypeOK, TurnsOK, CallsOK, CallOK, ApplyDecline, ApplyDecision
<1>2. sessions[s] \in SessionRecord /\ durableSessions[s] \in SessionRecord
  BY <1>1 DEF IInv, TypeOK, SessionsOK
<1>3. record \in SessionRecord /\ record.active \in {None, sessions[s].active}
  BY <1>1, <1>2, RecordHelpers DEF SessionRecord
<1>4. /\ calls' \in [Calls -> Call]
      /\ \A d \in Calls \ {c} : calls'[d] = calls[d]
      /\ calls'[c] = Idle
  BY GotoFacts, ReturnFacts DEF IInv, TypeOK, PC, ApplyDecline, ApplyDecision
<1>5. /\ turns' = [turns EXCEPT ![t] = "interrupted"]
      /\ \/ durableTurns' = durableTurns /\ w = 0
         \/ durableTurns' = [durableTurns EXCEPT ![t] = "interrupted"]
      /\ sessions' \in {sessions, [sessions EXCEPT ![s] = record]}
      /\ durableSessions' \in {durableSessions, [durableSessions EXCEPT ![s] = record]}
  BY DEF ApplyDecline, ApplyDecision, StoreTurnThenSession
<1>6. UNCHANGED <<owner, approvals, durableApprovals, approvalsLock, waiter, provider, recovery>>
  BY DEF ApplyDecline, ApplyDecision
<1> HIDE DEF record
<1>7. TypeOK'
  BY <1>1, <1>2, <1>3, <1>4, <1>5, <1>6 DEF IInv, TypeOK
<1>8. SessionsOK'
  <2>1. \A x \in Turns : /\ turns[x] # "none" => turns'[x] # "none" /\ durableTurns'[x] # "none"
                         /\ durableTurns[x] # "none" => durableTurns'[x] # "none"
    BY <1>1, <1>5 DEF IInv, TypeOK, TurnsOK
  <2>2. record # None /\ (record.active # None =>
            /\ record.active \in Turns /\ owner[record.active] = s
            /\ turns'[record.active] # "none" /\ durableTurns'[record.active] # "none")
    BY <1>1, <1>2, <1>3, <2>1 DEF IInv, TypeOK, SessionsOK, SessionRecord
  <2> QED BY <1>1, <1>2, <1>5, <1>6, <2>1, <2>2 DEF IInv, TypeOK, SessionsOK, SessionRecord
<1>9. TurnsOK'
  BY <1>1, <1>5, <1>6 DEF IInv, TypeOK, TurnsOK
<1>10. CallsOK'
  <2> SUFFICES ASSUME NEW d \in Calls PROVE CallOK(d)'
    BY DEF CallsOK
  <2>1. CASE d # c
    BY <1>1, <1>2, <1>3, <1>4, <1>5, <1>6, <2>1
       DEF IInv, TypeOK, CallsOK, CallOK, OneHandlerPerTurn, Call
  <2>2. CASE d = c
    BY <1>1, <1>4, <1>5, <1>6, <2>2 DEF IInv, TypeOK, CallOK
  <2> QED BY <2>1, <2>2
<1>11. OneHandlerPerTurn'
  BY <1>4, KeepOneHandler DEF IInv
<1>12. RecoveryOK'
  BY <1>1, <1>2, <1>3, <1>4, <1>5, <1>6 DEF IInv, TypeOK, RecoveryOK
<1> QED BY <1>7, <1>8, <1>9, <1>10, <1>11, <1>12 DEF IInv

(* The stored turn enters memory together with the session that names it. *)
LEMMA PublishTurn_step ==
    ASSUME IInv, NEW c \in Calls, PublishTurn(c)
    PROVE  IInv'
<1>1. TypeOK'
  <2>1. calls' \in [Calls -> Call]
    BY GotoFacts DEF IInv, TypeOK, PC, PublishTurn
  <2>2. calls[c].s \in Sessions /\ calls[c].t \in Turns
    BY DEF IInv, CallsOK, CallOK, PublishTurn
  <2>3. sessions' \in [Sessions -> SessionRecord \cup {None}]
    BY <2>2 DEF IInv, TypeOK, PublishTurn, WithActiveTurn, SessionRecord
  <2> QED BY <2>1, <2>3 DEF IInv, TypeOK, PublishTurn, TurnStatusFor
<1>2. SessionsOK'
  BY DEF IInv, SessionsOK, TypeOK, Call, PC, SessionRecord, CallsOK, CallOK, TurnStatusFor,
      WithActiveTurn, Goto, PublishTurn
<1>3. TurnsOK'
  BY DEF IInv, TurnsOK, TypeOK, Call, CallsOK, CallOK, Goto, PublishTurn
<1>4. CallsOK'
  BY DEF IInv, CallsOK, TypeOK, TurnsOK, SessionsOK, OneHandlerPerTurn, Call, SessionRecord,
      TurnStatusFor, CallOK, WithActiveTurn, Goto, PublishTurn
<1>5. RecoveryOK'
  BY DEF IInv, RecoveryOK, TypeOK, Call, CallsOK, CallOK, Goto, PublishTurn
<1>6. OneHandlerPerTurn'
  BY DEF IInv, OneHandlerPerTurn, Goto, PublishTurn
<1> QED BY <1>1, <1>2, <1>3, <1>4, <1>5, <1>6 DEF IInv

(* The failed turn enters memory. *)
LEMMA PublishFailure_step ==
    ASSUME IInv, NEW c \in Calls, PublishFailure(c)
    PROVE  IInv'
<1>1. TypeOK'
  BY DEF IInv, TypeOK, Call, PC, SessionRecord, CallsOK, CallOK, WithoutActiveTurn,
      ReadyUnlessEnded, Return, PublishFailure
<1>2. SessionsOK'
  BY DEF IInv, SessionsOK, TypeOK, Call, PC, SessionRecord, CallsOK, CallOK, WithoutActiveTurn,
      ReadyUnlessEnded, Return, PublishFailure
<1>3. TurnsOK'
  BY DEF IInv, TurnsOK, TypeOK, Call, CallsOK, CallOK, Return, PublishFailure
<1>4. CallsOK'
  BY DEF IInv, CallsOK, TypeOK, TurnsOK, SessionsOK, OneHandlerPerTurn, Call, SessionRecord,
      TurnStatusFor, CallOK, WithoutActiveTurn, ReadyUnlessEnded, Return, PublishFailure
<1>5. OneHandlerPerTurn' /\ RecoveryOK'
  BY DEF IInv, OneHandlerPerTurn, RecoveryOK, Return, PublishFailure
<1> QED BY <1>1, <1>2, <1>3, <1>4, <1>5 DEF IInv

(* The approval of a turn that waits is stored. *)
LEMMA RequestApproval_step ==
    ASSUME IInv, NEW c \in Calls, RequestApproval(c)
    PROVE  IInv'
<1>1. TypeOK'
  <2>1. calls' \in [Calls -> Call]
    BY GotoFacts DEF IInv, TypeOK, CallsOK, CallOK, PC, RequestApproval
  <2> QED BY <2>1 DEF IInv, TypeOK, CallsOK, CallOK, RequestApproval
<1>2. TurnsOK'
  BY DEF IInv, TurnsOK, TypeOK, Call, CallsOK, CallOK, Goto, RequestApproval
<1>3. CallsOK'
  BY DEF IInv, CallsOK, TypeOK, OneHandlerPerTurn, Call, CallOK, Goto, RequestApproval
<1>4. SessionsOK' /\ OneHandlerPerTurn' /\ RecoveryOK'
  BY DEF IInv, SessionsOK, OneHandlerPerTurn, RecoveryOK, Goto, RequestApproval
<1> QED BY <1>1, <1>2, <1>3, <1>4 DEF IInv

(* The approval enters memory and becomes answerable. *)
LEMMA PublishApproval_step ==
    ASSUME IInv, NEW c \in Calls, PublishApproval(c)
    PROVE  IInv'
<1>1. TypeOK'
  BY DEF IInv, TypeOK, Call, PC, SessionRecord, CallsOK, CallOK, Return, PublishApproval
<1>2. TurnsOK'
  BY DEF IInv, TurnsOK, TypeOK, Call, CallsOK, CallOK, Return, PublishApproval
<1>3. CallsOK'
  BY DEF IInv, CallsOK, TypeOK, OneHandlerPerTurn, Call, CallOK, Return, PublishApproval
<1>4. SessionsOK' /\ OneHandlerPerTurn' /\ RecoveryOK'
  BY DEF IInv, SessionsOK, OneHandlerPerTurn, RecoveryOK, Return, PublishApproval
<1> QED BY <1>1, <1>2, <1>3, <1>4 DEF IInv

(* A waiter is spawned for a turn in progress that has none. *)
LEMMA spawn_wait_for_turn_step ==
    ASSUME IInv, NEW c \in Calls, spawn_wait_for_turn(c)
    PROVE  IInv'
<1>1. TypeOK'
  BY DEF IInv, TypeOK, Call, PC, SessionRecord, CallsOK, CallOK, Return, spawn_wait_for_turn
<1>2. TurnsOK'
  BY DEF IInv, TurnsOK, TypeOK, Call, CallsOK, CallOK, Return, spawn_wait_for_turn
<1>3. CallsOK'
  BY DEF IInv, CallsOK, TypeOK, OneHandlerPerTurn, Call, CallOK, Return, spawn_wait_for_turn
<1>4. SessionsOK' /\ OneHandlerPerTurn' /\ RecoveryOK'
  BY DEF IInv, SessionsOK, OneHandlerPerTurn, RecoveryOK, Return, spawn_wait_for_turn
<1> QED BY <1>1, <1>2, <1>3, <1>4 DEF IInv

(* The decision is stored: nobody else can answer from here on. *)
LEMMA ResolveApproval_step ==
    ASSUME IInv, NEW c \in Calls, ResolveApproval(c)
    PROVE  IInv'
<1>1. TypeOK'
  <2>1. calls' \in [Calls -> Call]
    BY GotoFacts DEF IInv, TypeOK, CallsOK, CallOK, PC, ResolveApproval
  <2> QED BY <2>1 DEF IInv, TypeOK, CallsOK, CallOK, ResolveApproval
<1>2. TurnsOK'
  BY DEF IInv, TurnsOK, TypeOK, Call, CallsOK, CallOK, Goto, ResolveApproval
<1>3. CallsOK'
  BY DEF IInv, CallsOK, TypeOK, TurnsOK, CallOK, Goto, ResolveApproval
<1>4. SessionsOK' /\ OneHandlerPerTurn' /\ RecoveryOK'
  BY DEF IInv, SessionsOK, OneHandlerPerTurn, RecoveryOK, Goto, ResolveApproval
<1> QED BY <1>1, <1>2, <1>3, <1>4 DEF IInv

(* A handler that disappears gives up its turn and its lock. *)
LEMMA AbandonCall_step ==
    ASSUME IInv, NEW c \in Calls, AbandonCall(c)
    PROVE  IInv'
<1>1. TypeOK'
  BY DEF IInv, TypeOK, Call, PC, SessionRecord, CallsOK, CallOK, Return, AbandonCall
<1>2. CallsOK'
  BY DEF IInv, CallsOK, TypeOK, Call, CallOK, Return, AbandonCall
<1>3. SessionsOK' /\ TurnsOK' /\ OneHandlerPerTurn' /\ RecoveryOK'
  BY DEF IInv, SessionsOK, TurnsOK, OneHandlerPerTurn, RecoveryOK, Return, AbandonCall
<1> QED BY <1>1, <1>2, <1>3 DEF IInv

(* interrupt_turn changes the provider only. *)
LEMMA interrupt_turn_step ==
    ASSUME IInv, NEW s \in Sessions, NEW t \in Turns, interrupt_turn(s, t)
    PROVE  IInv'
<1>1. CallsOK'
  BY DEF IInv, CallsOK, TypeOK, Call, CallOK, interrupt_turn
<1>2. TypeOK' /\ SessionsOK' /\ TurnsOK' /\ OneHandlerPerTurn' /\ RecoveryOK'
  BY DEF IInv, TypeOK, SessionsOK, TurnsOK, OneHandlerPerTurn, RecoveryOK, interrupt_turn
<1> QED BY <1>1, <1>2 DEF IInv

(* The end of a turn at the provider changes no record. *)
LEMMA ProviderFinishesTurn_step ==
    ASSUME IInv, NEW t \in Turns, NEW status \in Terminal, ProviderFinishesTurn(t, status)
    PROVE  IInv'
<1>1. CallsOK'
  BY DEF IInv, CallsOK, TypeOK, Call, CallOK, ProviderFinishesTurn
<1>2. TypeOK' /\ SessionsOK' /\ TurnsOK' /\ OneHandlerPerTurn' /\ RecoveryOK'
  BY DEF IInv, TypeOK, SessionsOK, TurnsOK, OneHandlerPerTurn, RecoveryOK, ProviderFinishesTurn
<1> QED BY <1>1, <1>2 DEF IInv

(* The end of a killed process changes no record. *)
LEMMA ProviderReapsTurn_step ==
    ASSUME IInv, NEW t \in Turns, ProviderReapsTurn(t)
    PROVE  IInv'
<1>1. CallsOK'
  BY DEF IInv, CallsOK, TypeOK, Call, CallOK, ProviderReapsTurn
<1>2. TypeOK' /\ SessionsOK' /\ TurnsOK' /\ OneHandlerPerTurn' /\ RecoveryOK'
  BY DEF IInv, TypeOK, SessionsOK, TurnsOK, OneHandlerPerTurn, RecoveryOK, ProviderReapsTurn
<1> QED BY <1>1, <1>2 DEF IInv

(* The waiter keeps watching a turn in progress. *)
LEMMA wait_for_turn_step ==
    ASSUME IInv, NEW t \in Turns, wait_for_turn(t)
    PROVE  IInv'
<1>1. TypeOK'
  BY DEF IInv, TypeOK, wait_for_turn
<1>2. TurnsOK'
  BY DEF IInv, TurnsOK, TypeOK, wait_for_turn
<1>3. CallsOK'
  BY DEF IInv, CallsOK, TypeOK, Call, CallOK, wait_for_turn
<1>4. RecoveryOK'
  BY DEF IInv, RecoveryOK, TypeOK, wait_for_turn
<1>5. SessionsOK' /\ OneHandlerPerTurn'
  BY DEF IInv, SessionsOK, OneHandlerPerTurn, wait_for_turn
<1> QED BY <1>1, <1>2, <1>3, <1>4, <1>5 DEF IInv

(* The watched turn is in progress, so the conflict branch is not taken. *)
LEMMA apply_terminal_result_step ==
    ASSUME IInv, NEW t \in Turns, NEW w \in 0..2, apply_terminal_result(t, w)
    PROVE  IInv'
<1>1. TypeOK'
  <2>1. sessions[owner[t]] \in SessionRecord /\ owner[t] \in Sessions
    BY DEF IInv, TypeOK, SessionsOK, TurnsOK, apply_terminal_result
  <2>2. AfterTurn(sessions[owner[t]], t) \in SessionRecord
    BY <2>1, RecordHelpers
  <2>3. turns[t] = "in_progress"
    BY DEF IInv, TurnsOK, apply_terminal_result
  <2> QED BY <2>1, <2>2, <2>3
         DEF IInv, TypeOK, apply_terminal_result, ApplyTurnEnd, is_terminal_turn_status
<1>2. SessionsOK'
  BY DEF IInv, SessionsOK, TypeOK, RecoveryOK, TurnsOK, SessionRecord, TerminalConflict,
      ApplyTurnEnd, AfterTurn, ReadyUnlessEnded, is_terminal_turn_status, apply_terminal_result
<1>3. TurnsOK'
  BY DEF IInv, TurnsOK, TypeOK, CallsOK, CallOK, TerminalConflict, ApplyTurnEnd, AfterTurn,
      ReadyUnlessEnded, is_terminal_turn_status, apply_terminal_result
<1>4. CallsOK'
  BY DEF IInv, CallsOK, TypeOK, TurnsOK, SessionsOK, Call, SessionRecord, CallOK,
      TerminalConflict, ApplyTurnEnd, AfterTurn, ReadyUnlessEnded, is_terminal_turn_status,
      apply_terminal_result
<1>5. RecoveryOK'
  BY DEF IInv, RecoveryOK, TypeOK, SessionsOK, TurnsOK, SessionRecord, TerminalConflict,
      ApplyTurnEnd, AfterTurn, ReadyUnlessEnded, is_terminal_turn_status, apply_terminal_result
<1>6. OneHandlerPerTurn'
  BY DEF IInv, OneHandlerPerTurn, apply_terminal_result
<1> QED BY <1>1, <1>2, <1>3, <1>4, <1>5, <1>6 DEF IInv

(* A turn in progress fails, and no handler works on it. *)
LEMMA FailTurn_step ==
    ASSUME IInv, NEW t \in Turns, NEW v \in 0..1, FailTurn(t, v)
    PROVE  IInv'
<1>1. TypeOK'
  BY DEF IInv, TypeOK, FailTurn, is_terminal_turn_status
<1>2. SessionsOK'
  BY DEF IInv, SessionsOK, TypeOK, Call, PC, SessionRecord, CallsOK, CallOK,
      is_terminal_turn_status, FailTurn
<1>3. TurnsOK'
  BY DEF IInv, TurnsOK, TypeOK, CallsOK, CallOK, is_terminal_turn_status, FailTurn
<1>4. CallsOK'
  BY DEF IInv, CallsOK, TypeOK, TurnsOK, SessionsOK, Call, SessionRecord, CallOK,
      is_terminal_turn_status, FailTurn
<1>5. RecoveryOK'
  BY DEF IInv, RecoveryOK, TypeOK, Call, PC, SessionRecord, CallsOK, CallOK,
      is_terminal_turn_status, FailTurn
<1>6. OneHandlerPerTurn'
  BY DEF IInv, OneHandlerPerTurn, FailTurn
<1> QED BY <1>1, <1>2, <1>3, <1>4, <1>5, <1>6 DEF IInv

(* The session of the failed turn fails. *)
LEMMA FailSession_step ==
    ASSUME IInv, NEW t \in Turns, NEW v \in 0..1, FailSession(t, v)
    PROVE  IInv'
<1>1. TypeOK'
  BY DEF IInv, TypeOK, RecoveryOK, SessionsOK, TurnsOK, SessionRecord, AfterTurn,
      ReadyUnlessEnded, FailSession
<1>2. SessionsOK'
  BY DEF IInv, SessionsOK, TypeOK, RecoveryOK, TurnsOK, SessionRecord, AfterTurn,
      ReadyUnlessEnded, FailSession
<1>3. CallsOK'
  BY DEF IInv, CallsOK, TypeOK, TurnsOK, SessionsOK, Call, SessionRecord, CallOK, AfterTurn,
      ReadyUnlessEnded, FailSession
<1>4. RecoveryOK'
  BY DEF IInv, RecoveryOK, TypeOK, SessionsOK, TurnsOK, SessionRecord, AfterTurn,
      ReadyUnlessEnded, FailSession
<1>5. TurnsOK' /\ OneHandlerPerTurn'
  BY DEF IInv, TurnsOK, OneHandlerPerTurn, FailSession
<1> QED BY <1>1, <1>2, <1>3, <1>4, <1>5 DEF IInv

(* Recovery sees the active turn of the session as it is: nothing changed it since the snapshot. *)
LEMMA RecoverSession_step ==
    ASSUME IInv, NEW s \in Sessions, NEW resume \in {"same", "changed", "error", "skipped"},
           RecoverSession(s, resume)
    PROVE  IInv'
<1> DEFINE r == IF resume = "error" THEN [status |-> "failed", active |-> None] ELSE sessions[s]
           t == r.active
           verdict == TurnVerdict(s, t)
           record == Reconciled(r, verdict)
<1>1. /\ phase = "recovering" /\ s \in todo /\ sessions[s] \in SessionRecord
      /\ durableSessions[s] # None
      /\ \A c \in Calls : calls[c] = Idle
      /\ r \in SessionRecord /\ t \in {None, sessions[s].active} /\ t \in Turns \cup {None}
  BY DEF IInv, TypeOK, SessionsOK, RecoveryOK, RecoverSession, SessionRecord
<1>2. t # None => /\ t \in Turns /\ owner[t] = s /\ waiter[t] = "none" /\ turns[t] # "none"
                  /\ turns[t] = turnsSnapshot[t] /\ durableTurns[t] = turnsSnapshot[t]
                  /\ approvals[t] = approvalsSnapshot[t] /\ durableApprovals[t] = approvalsSnapshot[t]
  BY <1>1 DEF IInv, SessionsOK, RecoveryOK
<1>3. /\ verdict \in {"no_turn", "over", "awaiting", "unapproved", "running"}
      /\ verdict # "no_turn" => t # None
      /\ verdict = "unapproved" =>
            turnsSnapshot[t] = "waiting_for_approval" /\ approvalsSnapshot[t] # "pending"
      /\ verdict = "running" => turnsSnapshot[t] = "in_progress"
  BY <1>1, <1>2 DEF IInv, TypeOK, TurnVerdict, is_terminal_turn_status, pending_approval_for_turn
<1>4. record \in SessionRecord /\ record.active \in {None, t}
  BY <1>1, <1>3, ReconciledRecord
<1>5. /\ \/ verdict # "unapproved" /\ turns' = turns /\ durableTurns' = durableTurns
         \/ /\ verdict = "unapproved" /\ turns' = [turns EXCEPT ![t] = "failed"]
            /\ durableTurns' = [durableTurns EXCEPT ![t] = "failed"]
      /\ \/ verdict # "running" /\ waiter' = waiter
         \/ verdict = "running" /\ waiter' = [waiter EXCEPT ![t] = "waiting"]
      /\ todo' = todo \ {s}
      /\ repair' \in {Idle, [pc |-> "store_session", s |-> s, t |-> None, arg |-> "none", snap |-> record]}
  BY DEF RecoverSession
<1>6. UNCHANGED <<owner, sessions, approvals, durableSessions, durableApprovals, calls,
                  approvalsLock, prov, phase, turnsSnapshot, approvalsSnapshot, crashes>>
  BY DEF RecoverSession
<1> HIDE DEF r, t, verdict, record
<1>7. TypeOK'
  <2>1. repair' \in Call
    BY <1>4, <1>5 DEF Call, PC
  <2>2. provLive' \in [Sessions -> BOOLEAN]
    BY DEF IInv, TypeOK, RecoverSession
  <2>3. turns' \in [Turns -> TurnStatus \cup {"none"}] /\ durableTurns' \in [Turns -> TurnStatus \cup {"none"}]
    BY <1>5 DEF IInv, TypeOK
  <2>4. waiter' \in [Turns -> {"none", "waiting", "error", "failing"} \cup Terminal]
    BY <1>5 DEF IInv, TypeOK
  <2> QED BY <1>5, <1>6, <2>1, <2>2, <2>3, <2>4 DEF IInv, TypeOK
<1>8. SessionsOK'
  BY <1>2, <1>3, <1>5, <1>6 DEF IInv, TypeOK, SessionsOK, SessionRecord
<1>9. TurnsOK'
  BY <1>2, <1>3, <1>5, <1>6 DEF IInv, TypeOK, TurnsOK
<1>10. CallsOK'
  BY <1>1, <1>6 DEF CallsOK, CallOK
<1>11. OneHandlerPerTurn'
  BY <1>6, KeepOneHandler DEF IInv
<1>12. RecoveryOK'
  <2>1. /\ repair'.pc \in {"idle", "store_session", "publish_session"}
        /\ repair'.pc # "idle" => repair'.s = s /\ repair'.snap = record
    BY <1>5
  <2>2. record.active # None => owner[record.active] = s /\ turns'[record.active] # "none"
    BY <1>2, <1>3, <1>4, <1>5 DEF IInv, TypeOK
  <2>3. \A u \in Turns : owner[u] \in todo' =>
            /\ waiter'[u] = "none"
            /\ turns'[u] = turnsSnapshot[u] /\ durableTurns'[u] = turnsSnapshot[u]
    BY <1>1, <1>2, <1>3, <1>5 DEF IInv, TypeOK, RecoveryOK
  <2> QED BY <1>1, <1>4, <1>6, <2>1, <2>2, <2>3 DEF IInv, RecoveryOK
<1> QED BY <1>7, <1>8, <1>9, <1>10, <1>11, <1>12 DEF IInv

(* The repaired record is written to the store; its active turn is stored already. *)
LEMMA StoreRepair_step ==
    ASSUME IInv, StoreRepair
    PROVE  IInv'
<1>1. TypeOK'
  BY DEF IInv, TypeOK, TurnsOK, RecoveryOK, Call, PC, SessionRecord, CallsOK, CallOK,
      StoreRepair
<1>2. SessionsOK'
  BY DEF IInv, SessionsOK, TypeOK, RecoveryOK, TurnsOK, SessionRecord, StoreRepair
<1>3. CallsOK'
  BY DEF IInv, CallsOK, TypeOK, TurnsOK, RecoveryOK, Call, PC, SessionRecord, CallOK,
      StoreRepair
<1>4. TurnsOK' /\ OneHandlerPerTurn' /\ RecoveryOK'
  BY DEF IInv, TurnsOK, OneHandlerPerTurn, RecoveryOK, StoreRepair
<1> QED BY <1>1, <1>2, <1>3, <1>4 DEF IInv

(* The repaired record enters memory after it was stored. *)
LEMMA PublishRepair_step ==
    ASSUME IInv, PublishRepair
    PROVE  IInv'
<1>1. TypeOK'
  BY DEF IInv, TypeOK, TurnsOK, RecoveryOK, Call, PC, SessionRecord, CallsOK, CallOK,
      PublishRepair
<1>2. SessionsOK'
  BY DEF IInv, SessionsOK, TypeOK, RecoveryOK, TurnsOK, SessionRecord, PublishRepair
<1>3. CallsOK'
  BY DEF IInv, CallsOK, TypeOK, TurnsOK, RecoveryOK, Call, PC, SessionRecord, CallOK,
      PublishRepair
<1>4. TurnsOK' /\ OneHandlerPerTurn' /\ RecoveryOK'
  BY DEF IInv, TurnsOK, OneHandlerPerTurn, RecoveryOK, PublishRepair
<1> QED BY <1>1, <1>2, <1>3, <1>4 DEF IInv

(* No pending approval is orphaned, so recovery ends without declining one. *)
LEMMA FinishRecovery_step ==
    ASSUME IInv, FinishRecovery
    PROVE  IInv'
<1>1. TurnsOK'
  BY DEF IInv, TurnsOK, TypeOK, RecoveryOK, SessionsOK, SessionRecord, Orphaned,
      is_terminal_turn_status, FinishRecovery
<1>2. CallsOK'
  BY DEF IInv, CallsOK, TypeOK, TurnsOK, RecoveryOK, Call, PC, SessionRecord, CallOK, Orphaned,
      is_terminal_turn_status, FinishRecovery
<1>3. TypeOK' /\ SessionsOK' /\ OneHandlerPerTurn' /\ RecoveryOK'
  BY DEF IInv, TypeOK, SessionsOK, OneHandlerPerTurn, RecoveryOK, FinishRecovery
<1> QED BY <1>1, <1>2, <1>3 DEF IInv

(* After a crash memory is the store, and no task is left. *)
LEMMA Crash_step ==
    ASSUME IInv, Crash
    PROVE  IInv'
<1>1. TypeOK'
  BY MaxCrashesAssumption DEF IInv, TypeOK, Call, PC, Crash
<1>2. SessionsOK'
  BY DEF IInv, SessionsOK, TypeOK, Crash
<1>3. CallsOK'
  BY DEF IInv, CallsOK, TypeOK, Call, CallOK, Crash
<1>4. RecoveryOK'
  BY DEF IInv, RecoveryOK, TypeOK, TurnsOK, CallsOK, CallOK, Crash
<1>5. TurnsOK' /\ OneHandlerPerTurn'
  BY DEF IInv, TurnsOK, OneHandlerPerTurn, Crash
<1> QED BY <1>1, <1>2, <1>3, <1>4, <1>5 DEF IInv


-----------------------------------------------------------------------------
(* The invariant holds when the runtime starts on an empty store. *)
LEMMA Init_IInv == Init => IInv
BY MaxCrashesAssumption DEF Init, IInv, TypeOK, SessionsOK, TurnsOK, CallsOK, CallOK, OneHandlerPerTurn,
       RecoveryOK, Call, PC

(* A section with n store writes makes at most n of them. *)
LEMMA WritesRange ==
    \A task : Writes(task, 2) \subseteq 0..2 /\ Writes(task, 1) \subseteq 0..1
BY DEF Writes

(* Every step of the runtime preserves the invariant. *)
LEMMA Next_IInv == IInv /\ [Next]_vars => IInv'
<1> SUFFICES ASSUME IInv, [Next]_vars PROVE IInv'
  OBVIOUS
<1>1. CASE UNCHANGED vars
  BY <1>1 DEF vars, IInv, TypeOK, SessionsOK, TurnsOK, CallsOK, CallOK, OneHandlerPerTurn, RecoveryOK
<1>2. ASSUME NEW c \in Calls, SessionRequest(c) PROVE IInv'
  BY <1>2, create_session_step, close_session_step, force_close_session_step,
     resume_session_step, set_session_worktree_id_step, send_turn_step, respond_approval_step
     DEF SessionRequest
<1>3. ASSUME NEW c \in Calls, ProviderAnswer(c) PROVE IInv'
  BY <1>3, ProviderCloseSession_step, ProviderResumeSession_step, ProviderTakesTurn_step,
     ProviderRefusesTurn_step, ProviderTakesDecision_step, ProviderRefusesDecision_step
     DEF ProviderAnswer
<1>4. ASSUME NEW c \in Calls, HandlerStep(c) PROVE IInv'
  BY <1>4, WritesRange, StoreSession_step, PublishSession_step, StoreWorktree_step,
     RecordTurn_step, RecordFailure_step, ApplyAccept_step, ApplyDecline_step, PublishTurn_step,
     PublishFailure_step, RequestApproval_step, PublishApproval_step, spawn_wait_for_turn_step,
     ResolveApproval_step
     DEF HandlerStep
<1>5. ASSUME NEW t \in Turns, WaiterStep(t) PROVE IInv'
  BY <1>5, WritesRange, wait_for_turn_step, apply_terminal_result_step, FailTurn_step,
     FailSession_step
     DEF WaiterStep
<1>6. ASSUME RecoveryStep PROVE IInv'
  BY <1>6, RecoverSession_step, StoreRepair_step, PublishRepair_step, FinishRecovery_step
     DEF RecoveryStep
<1> QED
  BY <1>1, <1>2, <1>3, <1>4, <1>5, <1>6, AbandonCall_step, interrupt_turn_step,
     ProviderFinishesTurn_step, ProviderReapsTurn_step, Crash_step
     DEF Next

-----------------------------------------------------------------------------
(* The theorems *)

(* The invariant holds in every state the runtime reaches, through faults and crashes. *)
THEOREM InductiveInvariant == Spec => []IInv
BY Init_IInv, Next_IInv, PTL DEF Spec

(* Every variable keeps its type: no handler reads a field of a missing session. *)
THEOREM TypeCorrect == Spec => []TypeOK
BY InductiveInvariant, PTL DEF IInv

(***************************************************************************)
(* A waiter never brings a result to a turn that has ended: the branch of  *)
(* apply_terminal_result for a terminal conflict is dead code.             *)
(***************************************************************************)
THEOREM NoConflict == Spec => []NoTerminalConflict
<1>1. IInv => NoTerminalConflict
  BY DEF IInv, TurnsOK, NoTerminalConflict
<1> QED BY <1>1, InductiveInvariant, PTL

(* send_turn, an accepted approval and recovery never spawn two waiters for one turn. *)
THEOREM WaitersAreUnique == Spec => []OneWaiterPerTurn
<1>1. IInv => OneWaiterPerTurn
  BY DEF IInv, CallsOK, CallOK, OneHandlerPerTurn, OneWaiterPerTurn
<1> QED BY <1>1, InductiveInvariant, PTL

(* A pending approval belongs to a turn that waits, in memory and in the store. *)
THEOREM ApprovalsAreAnswerable == Spec => []PendingApprovalHasWaitingTurn
<1>1. IInv => PendingApprovalHasWaitingTurn
  BY DEF IInv, TurnsOK, PendingApprovalHasWaitingTurn
<1> QED BY <1>1, InductiveInvariant, PTL

(* The active turn of a session exists and is its own, so recovery never finds one that is
   missing or foreign. *)
THEOREM ActiveTurnsAreRecorded == Spec => []ActiveTurnIsRecorded
<1>1. IInv => ActiveTurnIsRecorded
  BY DEF IInv, SessionsOK, ActiveTurnIsRecorded
<1> QED BY <1>1, InductiveInvariant, PTL

(* One step keeps the status of every turn that has ended. *)
LEMMA TerminalStep ==
    ASSUME IInv, [Next]_vars, NEW t \in Turns, turns[t] \in Terminal, crashes' = crashes
    PROVE  turns'[t] = turns[t]
<1>1. CASE UNCHANGED turns
  BY <1>1
<1>2. ASSUME NEW c \in Calls, NEW w \in 0..2,
             PublishTurn(c) \/ PublishFailure(c) \/ ApplyAccept(c, w) \/ ApplyDecline(c, w)
      PROVE  turns'[t] = turns[t]
  <2>1. turns[calls[c].t] \in {"none", "waiting_for_approval"}
    BY <1>2 DEF IInv, CallsOK, CallOK, PublishTurn, PublishFailure, ApplyAccept, ApplyDecline,
                ApplyDecision
  <2>2. \A x \in Turns : x # calls[c].t => turns'[x] = turns[x]
    BY <1>2 DEF IInv, TypeOK, PublishTurn, PublishFailure, ApplyAccept, ApplyDecline, ApplyDecision
  <2> QED BY <2>1, <2>2
<1>3. ASSUME NEW u \in Turns, NEW w \in 0..2, apply_terminal_result(u, w) \/ FailTurn(u, w)
      PROVE  turns'[t] = turns[t]
  BY <1>3 DEF IInv, TypeOK, apply_terminal_result, TerminalConflict, ApplyTurnEnd, FailTurn,
              is_terminal_turn_status
<1>4. ASSUME NEW s \in Sessions, NEW resume, RecoverSession(s, resume)
      PROVE  turns'[t] = turns[t]
  <2> DEFINE r == IF resume = "error" THEN [status |-> "failed", active |-> None] ELSE sessions[s]
             u == r.active
  <2>1. s \in todo /\ r.active \in {None, sessions[s].active} /\ r.active \in Turns \cup {None}
    BY <1>4 DEF IInv, TypeOK, SessionsOK, RecoverSession, SessionRecord
  <2>2. u # None => u \in Turns /\ turns[u] = turnsSnapshot[u] /\ owner[u] = s
    BY <1>4, <2>1 DEF IInv, SessionsOK, RecoveryOK, RecoverSession
  <2>3. TurnVerdict(s, u) = "unapproved" => u # None /\ turns[u] = "waiting_for_approval"
    BY <2>1, <2>2 DEF TurnVerdict, is_terminal_turn_status, pending_approval_for_turn, IInv, TypeOK, SessionsOK
  <2>4. turns' = turns \/ (TurnVerdict(s, u) = "unapproved" /\ turns' = [turns EXCEPT ![u] = "failed"])
    BY <1>4 DEF RecoverSession
  <2> QED BY <2>2, <2>3, <2>4 DEF IInv, TypeOK
<1>5. ~Crash
  BY DEF Crash, IInv, TypeOK
<1>6. ASSUME NEW c \in Calls, SessionRequest(c) \/ ProviderAnswer(c) \/ AbandonCall(c)
      PROVE  UNCHANGED turns
  <2>1. CASE SessionRequest(c)
    BY <2>1 DEF SessionRequest, create_session, close_session, force_close_session,
                resume_session, set_session_worktree_id, send_turn, respond_approval
  <2>2. CASE ProviderAnswer(c)
    BY <2>2 DEF ProviderAnswer, ProviderCloseSession, ProviderResumeSession, ProviderTakesTurn,
                ProviderRefusesTurn, ProviderTakesDecision, ProviderRefusesDecision
  <2> QED BY <1>6, <2>1, <2>2 DEF AbandonCall
<1>7. ASSUME NEW c \in Calls, HandlerStep(c) PROVE turns'[t] = turns[t]
  BY <1>2, <1>7, WritesRange
     DEF HandlerStep, StoreSession, PublishSession, StoreWorktree, RecordTurn, RecordFailure,
         RequestApproval, PublishApproval, spawn_wait_for_turn, ResolveApproval
<1>8. ASSUME NEW u \in Turns, WaiterStep(u) PROVE turns'[t] = turns[t]
  BY <1>3, <1>8, WritesRange DEF WaiterStep, wait_for_turn, FailSession
<1>9. ASSUME RecoveryStep PROVE turns'[t] = turns[t]
  BY <1>4, <1>9 DEF RecoveryStep, StoreRepair, PublishRepair, FinishRecovery
<1> QED
  BY <1>1, <1>5, <1>6, <1>7, <1>8, <1>9
     DEF Next, vars, interrupt_turn, ProviderFinishesTurn, ProviderReapsTurn

(* A turn that has ended keeps its status for as long as the process lives. *)
THEOREM EndedTurnsStayEnded == Spec => TerminalTurnIsFinal
<1>1. IInv /\ [Next]_vars =>
        [\A t \in Turns : turns[t] \in Terminal /\ crashes' = crashes => turns'[t] = turns[t]]_vars
  BY TerminalStep
<1> QED BY <1>1, InductiveInvariant, PTL DEF Spec, TerminalTurnIsFinal

-----------------------------------------------------------------------------
(* The store implements TurnLifecycle *)

(* send_turn stores a turn once: Submit. *)
LEMMA RecordsRefine ==
    ASSUME IInv, NEW c \in Calls, NEW w \in 0..2, RecordTurn(c, w) \/ RecordFailure(c, w)
    PROVE  [Lifecycle!Next]_<<durableTurns, durableApprovals>>
<1> DEFINE t == calls[c].t
<1>1. t \in Turns /\ durableTurns[t] = "none"
  BY DEF IInv, CallsOK, CallOK, RecordTurn, RecordFailure
<1>2. TurnStatusFor(calls[c].arg) \in {"in_progress", "waiting_for_approval"}
  BY DEF TurnStatusFor
<1>3. /\ UNCHANGED durableApprovals
      /\ \/ UNCHANGED durableTurns
         \/ \E new \in {"in_progress", "waiting_for_approval", "failed"} :
                durableTurns' = [durableTurns EXCEPT ![t] = new]
  BY <1>2 DEF RecordTurn, RecordFailure, StoreTurnThenSession
<1> QED BY <1>1, <1>3 DEF Lifecycle!Next, Lifecycle!Submit

(* An answered approval lets its turn proceed or rejects it. *)
LEMMA DecisionsRefine ==
    ASSUME IInv, NEW c \in Calls, NEW w \in 0..2, ApplyAccept(c, w) \/ ApplyDecline(c, w)
    PROVE  [Lifecycle!Next]_<<durableTurns, durableApprovals>>
<1> DEFINE t == calls[c].t
<1>1. /\ t \in Turns /\ durableTurns[t] = "waiting_for_approval"
      /\ durableApprovals[t] = calls[c].arg
  BY DEF IInv, CallsOK, CallOK, ApplyAccept, ApplyDecline, ApplyDecision
<1>2. UNCHANGED durableApprovals
  BY DEF ApplyAccept, ApplyDecline, ApplyDecision
<1>3. \/ UNCHANGED durableTurns
      \/ calls[c].arg = "accept" /\ durableTurns' = [durableTurns EXCEPT ![t] = "in_progress"]
      \/ calls[c].arg = "decline" /\ durableTurns' = [durableTurns EXCEPT ![t] = "interrupted"]
  BY DEF ApplyAccept, ApplyDecline, ApplyDecision, StoreTurnThenSession
<1> QED BY <1>1, <1>2, <1>3 DEF Lifecycle!Next, Lifecycle!Proceed, Lifecycle!Reject

(* An approval is stored once and decided once. *)
LEMMA ApprovalsRefine ==
    ASSUME IInv, NEW c \in Calls, RequestApproval(c) \/ ResolveApproval(c)
    PROVE  [Lifecycle!Next]_<<durableTurns, durableApprovals>>
<1> DEFINE t == calls[c].t
<1>1. CASE RequestApproval(c)
  <2>1. t \in Turns /\ durableTurns[t] = "waiting_for_approval" /\ durableApprovals[t] = "none"
    BY <1>1 DEF IInv, CallsOK, CallOK, RequestApproval
  <2> QED BY <1>1, <2>1 DEF RequestApproval, Lifecycle!Next, Lifecycle!Ask
<1>2. CASE ResolveApproval(c)
  <2>1. t \in Turns /\ durableApprovals[t] = "pending" /\ calls[c].arg \in {"accept", "decline"}
    BY <1>2 DEF IInv, TurnsOK, CallsOK, CallOK, ResolveApproval
  <2> QED BY <1>2, <2>1 DEF ResolveApproval, Lifecycle!Next, Lifecycle!Decide
<1> QED BY <1>1, <1>2

(* A waiter ends a turn in progress: Finish. *)
LEMMA WaitersRefine ==
    ASSUME IInv, NEW t \in Turns, NEW w \in 0..2, apply_terminal_result(t, w) \/ FailTurn(t, w)
    PROVE  [Lifecycle!Next]_<<durableTurns, durableApprovals>>
<1>1. durableTurns[t] = "in_progress"
  BY DEF IInv, TurnsOK, apply_terminal_result, FailTurn
<1>2. UNCHANGED durableApprovals
  BY DEF apply_terminal_result, FailTurn
<1>3. \/ UNCHANGED durableTurns
      \/ \E outcome \in Terminal : durableTurns' = [durableTurns EXCEPT ![t] = outcome]
  BY DEF apply_terminal_result, TerminalConflict, ApplyTurnEnd, FailTurn
<1> QED BY <1>1, <1>2, <1>3 DEF Lifecycle!Next, Lifecycle!Finish, Lifecycle!Ended

(* Recovery gives up a turn that waits for nobody: GiveUp. *)
LEMMA RecoveryRefines ==
    ASSUME IInv, NEW s \in Sessions, NEW resume, RecoverSession(s, resume)
    PROVE  [Lifecycle!Next]_<<durableTurns, durableApprovals>>
<1> DEFINE r == IF resume = "error" THEN [status |-> "failed", active |-> None] ELSE sessions[s]
           u == r.active
<1>1. s \in todo /\ r.active \in {None, sessions[s].active} /\ r.active \in Turns \cup {None}
  BY DEF IInv, TypeOK, SessionsOK, RecoverSession, SessionRecord
<1>2. u # None => /\ u \in Turns /\ owner[u] = s /\ durableTurns[u] = turnsSnapshot[u]
                  /\ durableApprovals[u] = approvalsSnapshot[u]
  BY <1>1 DEF IInv, SessionsOK, RecoveryOK, RecoverSession
<1>3. TurnVerdict(s, u) = "unapproved" =>
          /\ u \in Turns /\ durableTurns[u] = "waiting_for_approval"
          /\ durableApprovals[u] # "pending"
  BY <1>1, <1>2 DEF TurnVerdict, is_terminal_turn_status, pending_approval_for_turn, IInv, TypeOK, SessionsOK
<1>4. /\ UNCHANGED durableApprovals
      /\ \/ UNCHANGED durableTurns
         \/ /\ TurnVerdict(s, u) = "unapproved"
            /\ durableTurns' = [durableTurns EXCEPT ![u] = "failed"]
  BY DEF RecoverSession
<1> QED BY <1>3, <1>4 DEF Lifecycle!Next, Lifecycle!GiveUp

(* No approval is ever orphaned: recovery ends without declining one. *)
LEMMA NothingOrphaned ==
    ASSUME IInv, FinishRecovery
    PROVE  UNCHANGED <<durableTurns, durableApprovals>>
<1>1. \A t \in Turns : ~Orphaned(t)
  BY DEF IInv, RecoveryOK, FinishRecovery, Orphaned, is_terminal_turn_status
<1>2. durableApprovals' = [t \in Turns |-> durableApprovals[t]]
  BY <1>1 DEF FinishRecovery
<1> QED BY <1>2 DEF IInv, TypeOK, FinishRecovery

(* Every step is a step of the lifecycle, or leaves both tables alone. *)
LEMMA RefinementStep ==
    ASSUME IInv, [Next]_vars
    PROVE  [Lifecycle!Next]_<<durableTurns, durableApprovals>>
<1> DEFINE unchanged == UNCHANGED <<durableTurns, durableApprovals>>
<1>1. ASSUME NEW c \in Calls, SessionRequest(c) \/ ProviderAnswer(c) \/ AbandonCall(c)
      PROVE  unchanged
  <2>1. CASE SessionRequest(c)
    BY <2>1 DEF SessionRequest, create_session, close_session, force_close_session,
                resume_session, set_session_worktree_id, send_turn, respond_approval
  <2>2. CASE ProviderAnswer(c)
    BY <2>2 DEF ProviderAnswer, ProviderCloseSession, ProviderResumeSession, ProviderTakesTurn,
                ProviderRefusesTurn, ProviderTakesDecision, ProviderRefusesDecision
  <2> QED BY <1>1, <2>1, <2>2 DEF AbandonCall
<1>2. ASSUME NEW c \in Calls, HandlerStep(c)
      PROVE  [Lifecycle!Next]_<<durableTurns, durableApprovals>>
  BY <1>2, WritesRange, RecordsRefine, DecisionsRefine, ApprovalsRefine
     DEF HandlerStep, StoreSession, PublishSession, StoreWorktree, PublishTurn, PublishFailure,
         PublishApproval, spawn_wait_for_turn
<1>3. ASSUME NEW t \in Turns, WaiterStep(t)
      PROVE  [Lifecycle!Next]_<<durableTurns, durableApprovals>>
  BY <1>3, WritesRange, WaitersRefine DEF WaiterStep, wait_for_turn, FailSession
<1>4. ASSUME RecoveryStep
      PROVE  [Lifecycle!Next]_<<durableTurns, durableApprovals>>
  BY <1>4, RecoveryRefines, NothingOrphaned DEF RecoveryStep, StoreRepair, PublishRepair
<1> QED
  BY <1>1, <1>2, <1>3, <1>4
     DEF Next, vars, interrupt_turn, ProviderFinishesTurn, ProviderReapsTurn, Crash

(***************************************************************************)
(* The turns and approvals in the store follow TurnLifecycle, whatever     *)
(* handlers interleave, which writes are lost and when the process dies.   *)
(***************************************************************************)
THEOREM StoreImplementsLifecycle == Spec => DurableLifecycle
<1>1. Init => Lifecycle!Init
  BY DEF Init, Lifecycle!Init
<1>2. IInv /\ [Next]_vars => [Lifecycle!Next]_<<durableTurns, durableApprovals>>
  BY RefinementStep
<1> QED BY <1>1, <1>2, InductiveInvariant, PTL DEF Spec, DurableLifecycle, Lifecycle!Spec


-----------------------------------------------------------------------------
(* What recovery leaves behind *)

(* The active turn of the record waits for an approval that is pending. *)
Awaiting(r) ==
    r.active # None =>
        turns[r.active] = "waiting_for_approval" /\ approvalsSnapshot[r.active] = "pending"

(* The record names a turn that is watched or waits for an approval, or no turn. *)
Tended(r) == r # None => (r.active # None => waiter[r.active] # "none") \/ Awaiting(r)

(***************************************************************************)
(* Every session that recovery has passed is tended.  A record it has      *)
(* still to write names no turn that runs: a waiter that ends the turn     *)
(* meanwhile would be overwritten.                                         *)
(***************************************************************************)
NothingStale ==
    phase = "recovering" =>
        /\ repair.pc # "idle" => Awaiting(repair.snap)
        /\ \A s \in Sessions \ todo : Tended(sessions[s]) \/ (repair.pc # "idle" /\ repair.s = s)

(* A waiter whose store writes succeed has cleared its session before it gives up the turn. *)
LEMMA WaitersLeaveNothingStale ==
    ASSUME IInv, NothingStale, "waiters" \notin Faults, NEW t \in Turns, WaiterStep(t)
    PROVE  NothingStale'
<1> DEFINE s == owner[t]
<1> SUFFICES ASSUME phase = "recovering"
             PROVE  /\ repair.pc # "idle" => Awaiting(repair.snap)'
                    /\ \A r \in Sessions \ todo :
                          Tended(sessions[r])' \/ (repair.pc # "idle" /\ repair.s = r)
  BY DEF WaiterStep, wait_for_turn, apply_terminal_result, FailTurn, FailSession, NothingStale
<1>1. /\ waiter[t] # "none" /\ turns[t] # "waiting_for_approval"
      /\ s \in Sessions /\ sessions[s] \in SessionRecord
  BY DEF IInv, TypeOK, TurnsOK, SessionsOK, WaiterStep, wait_for_turn, apply_terminal_result,
         FailTurn, FailSession
<1>2. \A u \in Turns \ {t} : turns'[u] = turns[u] /\ waiter'[u] = waiter[u]
  BY <1>1 DEF IInv, TypeOK, WaiterStep, wait_for_turn, apply_terminal_result, ApplyTurnEnd,
         TerminalConflict, FailTurn, FailSession
<1>3. /\ \A r \in Sessions \ {s} : sessions'[r] = sessions[r]
      /\ \/ sessions'[s] = sessions[s] /\ waiter'[t] # "none"
         \/ /\ sessions'[s] \in SessionRecord
            /\ sessions'[s].active = IF sessions[s].active = t THEN None ELSE sessions[s].active
  BY <1>1 DEF IInv, TypeOK, TurnsOK, Writes, WaiterStep, wait_for_turn, apply_terminal_result,
         ApplyTurnEnd, TerminalConflict, FailTurn, FailSession, is_terminal_turn_status, AfterTurn,
         SessionRecord, ReadyUnlessEnded
<1>4. approvalsSnapshot' = approvalsSnapshot
  BY DEF WaiterStep, wait_for_turn, apply_terminal_result, FailTurn, FailSession
<1>5. ASSUME NEW r \in SessionRecord, Awaiting(r), r.active # t
      PROVE  Awaiting(r)'
  BY <1>2, <1>4, <1>5 DEF Awaiting, SessionRecord
<1>6. repair.pc # "idle" => Awaiting(repair.snap)'
  BY <1>1, <1>5 DEF IInv, RecoveryOK, NothingStale, Awaiting,
         WaiterStep, wait_for_turn, apply_terminal_result, FailTurn, FailSession
<1>7. ASSUME NEW r \in Sessions \ todo, Tended(sessions[r])
      PROVE  Tended(sessions[r])'
  <2>1. CASE sessions[r] = None
    BY <1>1, <1>3, <2>1 DEF Tended
  <2>2. CASE sessions[r] # None /\ sessions[r].active = None
    BY <1>1, <1>3, <2>2 DEF Tended, Awaiting
  <2>3. CASE sessions[r] # None /\ sessions[r].active = t
    <3>1. r = s
      BY <2>3, <1>1 DEF IInv, SessionsOK
    <3> QED BY <1>1, <1>3, <2>3, <3>1 DEF Tended, Awaiting
  <2>4. CASE sessions[r] # None /\ sessions[r].active \notin {None, t}
    <3>1. sessions'[r] # None /\ sessions'[r].active = sessions[r].active /\ sessions[r].active \in Turns
      BY <1>1, <1>3, <2>4 DEF IInv, TypeOK, SessionRecord
    <3> QED BY <1>2, <1>4, <1>7, <2>4, <3>1 DEF Tended, Awaiting
  <2> QED BY <2>1, <2>2, <2>3, <2>4
<1> QED BY <1>6, <1>7 DEF NothingStale

(***************************************************************************)
(* Recovery passes a session when it has a waiter for the turn that runs,  *)
(* or holds a record without such a turn.  References that change would    *)
(* make it write the record of a turn that runs.                           *)
(***************************************************************************)
LEMMA RecoveryLeavesNothingStale ==
    ASSUME IInv, NothingStale, RefsMayChange = FALSE, RecoveryStep
    PROVE  NothingStale'
<1>1. ASSUME NEW s \in Sessions, NEW resume \in {"same", "changed", "error", "skipped"},
             RecoverSession(s, resume)
      PROVE  NothingStale'
  <2> DEFINE r == IF resume = "error" THEN [status |-> "failed", active |-> None] ELSE sessions[s]
             t == r.active
             verdict == TurnVerdict(s, t)
  <2>1. /\ phase = "recovering" /\ s \in todo /\ r \in SessionRecord /\ resume # "changed"
        /\ t \in Turns \cup {None} /\ repair.pc = "idle"
    BY <1>1 DEF IInv, TypeOK, SessionsOK, RecoverSession, ResumeOutcomes, SessionRecord
  <2>2. t # None => /\ owner[t] = s /\ waiter[t] = "none" /\ turns[t] # "none"
                    /\ turns[t] = turnsSnapshot[t]
    BY <1>1, <2>1 DEF IInv, SessionsOK, RecoveryOK
  <2>3. /\ verdict \in {"no_turn", "over", "awaiting", "unapproved", "running"}
        /\ verdict = "no_turn" <=> t = None
        /\ verdict = "awaiting" =>
              turnsSnapshot[t] = "waiting_for_approval" /\ approvalsSnapshot[t] = "pending"
    BY <2>1, <2>2 DEF IInv, TypeOK, TurnVerdict, is_terminal_turn_status, pending_approval_for_turn
  <2>4. /\ verdict \in {"no_turn", "over", "unapproved"} => Reconciled(r, verdict).active = None
        /\ verdict = "awaiting" => Reconciled(r, verdict).active = t
    BY <2>1, <2>3 DEF Reconciled, WithoutActiveTurn, SessionRecord
  <2>5. /\ verdict # "unapproved" => turns' = turns
        /\ verdict = "running" => waiter' = [waiter EXCEPT ![t] = "waiting"]
        /\ \A u \in Turns \ {t} : turns'[u] = turns[u] /\ waiter'[u] = waiter[u]
        /\ todo' = todo \ {s} /\ sessions' = sessions /\ approvalsSnapshot' = approvalsSnapshot
        /\ repair' = IF SessionChanged(r, resume, verdict)
                     THEN [pc |-> "store_session", s |-> s, t |-> None, arg |-> "none",
                           snap |-> Reconciled(r, verdict)]
                     ELSE repair
    BY <1>1 DEF IInv, TypeOK, RecoverSession
  <2>6. /\ SessionChanged(r, resume, verdict) => verdict # "running"
        /\ ~SessionChanged(r, resume, verdict) =>
              r = sessions[s] /\ (verdict # "running" => Reconciled(r, verdict) = r)
    BY <2>1, <2>3 DEF SessionChanged, TurnVerdict
  <2> HIDE DEF r, t, verdict
  <2>7. ASSUME NEW q, verdict # "running", q.active = Reconciled(r, verdict).active
        PROVE  \/ q.active = None
               \/ /\ turns'[q.active] = "waiting_for_approval"
                  /\ approvalsSnapshot'[q.active] = "pending"
    BY <2>2, <2>3, <2>4, <2>5, <2>7
  <2>8. repair'.pc # "idle" => Awaiting(repair.snap)'
    <3>1. CASE SessionChanged(r, resume, verdict)
      <4>1. repair'.snap = Reconciled(r, verdict)
        BY <2>5, <3>1
      <4> QED BY <2>6, <2>7, <3>1, <4>1 DEF Awaiting
    <3>2. CASE ~SessionChanged(r, resume, verdict)
      BY <2>1, <2>5, <3>2
    <3> QED BY <3>1, <3>2
  <2>9. ASSUME NEW q \in Sessions \ todo', ~(repair'.pc # "idle" /\ repair'.s = q)
        PROVE  Tended(sessions[q])'
    <3>1. CASE q # s
      <4>1. Tended(sessions[q])
        BY <2>1, <2>5, <2>9, <3>1 DEF NothingStale
      <4>2. sessions[q] # None /\ sessions[q].active # None =>
              sessions[q].active \in Turns /\ sessions[q].active # t
        BY <2>1, <2>2, <3>1 DEF IInv, TypeOK, SessionsOK, SessionRecord
      <4> QED BY <2>5, <4>1, <4>2 DEF Tended, Awaiting
    <3>2. CASE q = s
      <4>1. ~SessionChanged(r, resume, verdict)
        BY <2>5, <2>9, <3>2
      <4>2. CASE verdict = "running"
        <5>1. sessions'[q].active = t /\ t \in Turns
          BY <2>1, <2>3, <2>5, <2>6, <3>2, <4>1, <4>2 DEF t
        <5>2. waiter'[t] = "waiting"
          BY <2>5, <4>2, <5>1 DEF IInv, TypeOK
        <5> QED BY <5>1, <5>2 DEF Tended
      <4>3. CASE verdict # "running"
        <5>1. sessions'[q].active = Reconciled(r, verdict).active
          BY <2>5, <2>6, <3>2, <4>1, <4>3
        <5> QED BY <2>7, <4>3, <5>1 DEF Tended, Awaiting
      <4> QED BY <4>2, <4>3
    <3> QED BY <3>1, <3>2
  <2> QED BY <2>8, <2>9 DEF NothingStale
<1>2. ASSUME StoreRepair PROVE NothingStale'
  BY <1>2 DEF StoreRepair, NothingStale, Tended, Awaiting, IInv, TypeOK, Call
<1>3. ASSUME PublishRepair PROVE NothingStale'
  <2>1. /\ repair.pc # "idle" /\ repair.s \in Sessions /\ repair'.pc = "idle"
        /\ sessions' = [sessions EXCEPT ![repair.s] = repair.snap]
        /\ UNCHANGED <<turns, waiter, phase, todo, approvalsSnapshot>>
    BY <1>3 DEF PublishRepair, IInv, RecoveryOK
  <2>2. ASSUME phase = "recovering", NEW q \in Sessions \ todo PROVE Tended(sessions[q])'
    BY <2>1, <2>2 DEF NothingStale, Tended, Awaiting, IInv, TypeOK
  <2> QED BY <2>1, <2>2 DEF NothingStale
<1>4. ASSUME FinishRecovery PROVE NothingStale'
  BY <1>4 DEF FinishRecovery, NothingStale
<1> QED BY <1>1, <1>2, <1>3, <1>4 DEF RecoveryStep

(* Handlers and recovery exclude each other. *)
LEMMA HandlersWait ==
    ASSUME IInv, NEW c \in Calls,
           SessionRequest(c) \/ ProviderAnswer(c) \/ HandlerStep(c) \/ AbandonCall(c)
    PROVE  phase # "recovering" /\ phase' = phase
<1>1. Serving \/ calls[c] # Idle
  <2>1. CASE SessionRequest(c)
    BY <2>1 DEF SessionRequest, create_session, close_session, force_close_session,
           resume_session, set_session_worktree_id, send_turn, respond_approval
  <2>2. CASE ProviderAnswer(c)
    BY <2>2 DEF ProviderAnswer, ProviderCloseSession, ProviderResumeSession, ProviderTakesTurn,
           ProviderRefusesTurn, ProviderTakesDecision, ProviderRefusesDecision
  <2>3. CASE HandlerStep(c)
    BY <2>3 DEF HandlerStep, StoreSession, PublishSession, StoreWorktree, RecordTurn,
           RecordFailure, ApplyAccept, ApplyDecline, ApplyDecision, PublishTurn, PublishFailure,
           RequestApproval, PublishApproval, spawn_wait_for_turn, ResolveApproval
  <2>4. CASE AbandonCall(c)
    BY <2>4 DEF AbandonCall
  <2> QED BY <2>1, <2>2, <2>3, <2>4
<1>2. phase' = phase
  BY DEF SessionRequest, create_session, close_session, force_close_session,
         resume_session, set_session_worktree_id, send_turn, respond_approval,
         ProviderAnswer, ProviderCloseSession, ProviderResumeSession, ProviderTakesTurn,
         ProviderRefusesTurn, ProviderTakesDecision, ProviderRefusesDecision,
         HandlerStep, StoreSession, PublishSession, StoreWorktree, RecordTurn,
         RecordFailure, ApplyAccept, ApplyDecline, ApplyDecision, PublishTurn, PublishFailure,
         RequestApproval, PublishApproval, spawn_wait_for_turn, ResolveApproval, AbandonCall
<1> QED BY <1>1, <1>2 DEF IInv, RecoveryOK

(* Requests are served once recovery has finished, not before. *)
LEMMA OnlyFinishServes ==
    ASSUME IInv, Next, phase = "recovering", phase' = "serving"
    PROVE  FinishRecovery
<1>1. ASSUME NEW t \in Turns, WaiterStep(t) PROVE phase' = phase
  BY <1>1 DEF WaiterStep, wait_for_turn, apply_terminal_result, FailTurn, FailSession
<1> QED
  BY <1>1, HandlersWait
     DEF Next, RecoveryStep, RecoverSession, StoreRepair, PublishRepair, interrupt_turn,
         ProviderFinishesTurn, ProviderReapsTurn, Crash

(***************************************************************************)
(* No request runs beside recovery, and a crash begins with every session  *)
(* of the store still to do.                                               *)
(***************************************************************************)
LEMMA Next_NothingStale ==
    ASSUME IInv, NothingStale, RefsMayChange = FALSE, "waiters" \notin Faults, [Next]_vars
    PROVE  NothingStale'
<1>1. ASSUME UNCHANGED <<phase, repair, todo, sessions, turns, waiter, approvalsSnapshot>>
      PROVE  NothingStale'
  BY <1>1 DEF NothingStale, Tended, Awaiting
<1>2. ASSUME NEW c \in Calls,
             SessionRequest(c) \/ ProviderAnswer(c) \/ HandlerStep(c) \/ AbandonCall(c)
      PROVE  NothingStale'
  BY <1>2, HandlersWait DEF NothingStale
<1>3. ASSUME Crash PROVE NothingStale'
  BY <1>3 DEF Crash, NothingStale, Tended, IInv, TypeOK
<1>4. ASSUME NEW s \in Sessions, NEW t \in Turns, interrupt_turn(s, t) PROVE NothingStale'
  BY <1>1, <1>4 DEF interrupt_turn
<1>5. ASSUME NEW t \in Turns, NEW status \in Terminal, ProviderFinishesTurn(t, status)
      PROVE  NothingStale'
  BY <1>1, <1>5 DEF ProviderFinishesTurn
<1>6. ASSUME NEW t \in Turns, ProviderReapsTurn(t) PROVE NothingStale'
  BY <1>1, <1>6 DEF ProviderReapsTurn
<1>7. ASSUME NEW t \in Turns, WaiterStep(t) PROVE NothingStale'
  BY <1>7, WaitersLeaveNothingStale
<1>8. CASE RecoveryStep
  BY <1>8, RecoveryLeavesNothingStale
<1>9. CASE UNCHANGED vars
  BY <1>1, <1>9 DEF vars
<1> QED BY <1>2, <1>3, <1>4, <1>5, <1>6, <1>7, <1>8, <1>9 DEF Next

(* Without new references, and with waiters that write, nothing is stale. *)
Strictly ==
    phase = "recovering" /\ phase' = "serving" =>
        \A s \in Sessions : sessions[s] # None /\ sessions[s].active # None =>
            LET t == sessions[s].active
            IN  \/ waiter[t] # "none"
                \/ turns[t] = "waiting_for_approval" /\ approvals'[t] = "pending"

LEMMA StrictlyTended ==
    ASSUME RefsMayChange = FALSE, "waiters" \notin Faults
    PROVE  Spec => [][Strictly]_vars
<1>1. Init => NothingStale
  BY DEF Init, NothingStale
<1>2. IInv /\ NothingStale /\ [Next]_vars => NothingStale'
  BY Next_NothingStale
<1>3. IInv /\ NothingStale /\ [Next]_vars => [Strictly]_vars
  <2> SUFFICES ASSUME IInv, NothingStale, Next, phase = "recovering", phase' = "serving",
                      NEW s \in Sessions, sessions[s] # None, sessions[s].active # None,
                      waiter[sessions[s].active] = "none"
               PROVE  /\ turns[sessions[s].active] = "waiting_for_approval"
                      /\ approvals'[sessions[s].active] = "pending"
    BY DEF Strictly
  <2> DEFINE t == sessions[s].active
  <2>1. FinishRecovery
    BY OnlyFinishServes
  <2>2. todo = {} /\ repair.pc = "idle" /\ approvals = approvalsSnapshot /\ t \in Turns
    BY <2>1 DEF FinishRecovery, IInv, RecoveryOK, TypeOK, SessionRecord
  <2>3. turns[t] = "waiting_for_approval" /\ approvalsSnapshot[t] = "pending"
    BY <2>2 DEF NothingStale, Tended, Awaiting
  <2>4. turnsSnapshot[t] = "waiting_for_approval"
    BY <2>2, <2>3 DEF IInv, RecoveryOK
  <2> QED
    BY <2>1, <2>2, <2>3, <2>4 DEF FinishRecovery, Orphaned, is_terminal_turn_status
<1> QED BY <1>1, <1>2, <1>3, InductiveInvariant, PTL DEF Spec

(***************************************************************************)
(* In general a record that recovery or a waiter leaves may also name a    *)
(* turn that ran when recovery began and has ended since.                  *)
(***************************************************************************)
Settled(t) ==
    t # None =>
        \/ waiter[t] # "none"
        \/ turns[t] = "waiting_for_approval" /\ approvalsSnapshot[t] = "pending"
        \/ turnsSnapshot[t] = "in_progress" /\ turns[t] \in Terminal

(* Waiters watch what was running, and every record that recovery is through with is settled. *)
AllSettled ==
    phase = "recovering" =>
        /\ \A t \in Turns : waiter[t] # "none" => turnsSnapshot[t] = "in_progress"
        /\ repair.pc # "idle" => Settled(repair.snap.active)
        /\ \A s \in Sessions \ todo : sessions[s] # None =>
              Settled(sessions[s].active) \/ (repair.pc # "idle" /\ repair.s = s)

(* A waiter that gives up leaves an ended turn, whatever it could not write. *)
LEMMA WaitersSettle ==
    ASSUME IInv, AllSettled, NEW t \in Turns, WaiterStep(t)
    PROVE  AllSettled'
<1> SUFFICES ASSUME phase = "recovering"
             PROVE  /\ \A u \in Turns : waiter'[u] # "none" => turnsSnapshot'[u] = "in_progress"
                    /\ repair'.pc # "idle" => Settled(repair.snap.active)'
                    /\ \A r \in Sessions \ todo' : sessions'[r] # None =>
                          Settled(sessions[r].active)' \/ (repair'.pc # "idle" /\ repair'.s = r)
  BY DEF WaiterStep, wait_for_turn, apply_terminal_result, FailTurn, FailSession, AllSettled
<1>1. /\ waiter[t] # "none" /\ owner[t] \in Sessions /\ sessions[owner[t]] \in SessionRecord
      /\ turnsSnapshot[t] = "in_progress"
  BY DEF IInv, TypeOK, TurnsOK, SessionsOK, AllSettled, WaiterStep, wait_for_turn,
         apply_terminal_result, FailTurn, FailSession
<1>2. \A u \in Turns \ {t} : turns'[u] = turns[u] /\ waiter'[u] = waiter[u]
  BY <1>1 DEF IInv, TypeOK, WaiterStep, wait_for_turn, apply_terminal_result, ApplyTurnEnd,
         TerminalConflict, FailTurn, FailSession
<1>3. UNCHANGED <<approvalsSnapshot, turnsSnapshot, repair, todo>>
  BY DEF WaiterStep, wait_for_turn, apply_terminal_result, FailTurn, FailSession
<1>4. waiter'[t] # "none" \/ turns'[t] \in Terminal
  <2>1. CASE wait_for_turn(t)
    BY <2>1 DEF wait_for_turn, IInv, TypeOK
  <2>2. ASSUME NEW w \in Writes("waiters", 2), apply_terminal_result(t, w) PROVE turns'[t] \in Terminal
    BY <2>2 DEF apply_terminal_result, ApplyTurnEnd, TerminalConflict, is_terminal_turn_status,
           IInv, TypeOK
  <2>3. ASSUME NEW w \in Writes("waiters", 1), FailTurn(t, w) PROVE turns'[t] \in Terminal
    BY <2>3 DEF FailTurn, is_terminal_turn_status, IInv, TypeOK
  <2>4. ASSUME NEW w \in Writes("waiters", 1), FailSession(t, w) PROVE turns'[t] \in Terminal
    BY <2>4 DEF FailSession, IInv, TurnsOK
  <2> QED BY <2>1, <2>2, <2>3, <2>4 DEF WaiterStep
<1>5. ASSUME NEW u \in Turns \cup {None}, Settled(u) PROVE Settled(u)'
  BY <1>1, <1>2, <1>3, <1>4, <1>5 DEF Settled
<1>6. \A r \in Sessions : sessions'[r] # None =>
          /\ sessions[r] # None /\ sessions[r].active \in Turns \cup {None}
          /\ sessions'[r].active \in {None, sessions[r].active}
  BY <1>1 DEF IInv, TypeOK, WaiterStep, wait_for_turn, apply_terminal_result, ApplyTurnEnd,
         TerminalConflict, FailTurn, FailSession, AfterTurn, SessionRecord
<1>7. \A u \in Turns : waiter'[u] # "none" => turnsSnapshot'[u] = "in_progress"
  BY <1>1, <1>2, <1>3 DEF AllSettled
<1>8. repair'.pc # "idle" => Settled(repair.snap.active)'
  BY <1>3, <1>5 DEF AllSettled, IInv, RecoveryOK, SessionRecord
<1>9. ASSUME NEW r \in Sessions \ todo', sessions'[r] # None
      PROVE  Settled(sessions[r].active)' \/ (repair'.pc # "idle" /\ repair'.s = r)
  <2>1. CASE sessions'[r].active = None
    BY <2>1 DEF Settled
  <2>2. CASE sessions'[r].active = sessions[r].active
    BY <1>3, <1>5, <1>6, <1>9, <2>2 DEF AllSettled, Settled
  <2> QED BY <1>6, <1>9, <2>1, <2>2
<1> QED BY <1>7, <1>8, <1>9

(* Recovery passes a session with its turn watched, waiting or cleared. *)
LEMMA RecoverySettles ==
    ASSUME IInv, AllSettled, RecoveryStep
    PROVE  AllSettled'
<1>1. ASSUME NEW s \in Sessions, NEW resume \in {"same", "changed", "error", "skipped"},
             RecoverSession(s, resume)
      PROVE  AllSettled'
  <2> DEFINE r == IF resume = "error" THEN [status |-> "failed", active |-> None] ELSE sessions[s]
             t == r.active
             verdict == TurnVerdict(s, t)
  <2>1. /\ phase = "recovering" /\ s \in todo /\ r \in SessionRecord /\ phase' = phase
        /\ t \in Turns \cup {None} /\ repair.pc = "idle"
    BY <1>1 DEF IInv, TypeOK, SessionsOK, RecoverSession, SessionRecord
  <2>2. t # None => /\ owner[t] = s /\ waiter[t] = "none" /\ turns[t] # "none"
                    /\ turns[t] = turnsSnapshot[t]
    BY <1>1, <2>1 DEF IInv, SessionsOK, RecoveryOK
  <2>3. /\ verdict \in {"no_turn", "over", "awaiting", "unapproved", "running"}
        /\ verdict = "no_turn" <=> t = None
        /\ verdict = "awaiting" =>
              turnsSnapshot[t] = "waiting_for_approval" /\ approvalsSnapshot[t] = "pending"
        /\ verdict = "running" => turnsSnapshot[t] = "in_progress"
    BY <2>1, <2>2 DEF IInv, TypeOK, TurnVerdict, is_terminal_turn_status, pending_approval_for_turn
  <2>4. /\ verdict \in {"no_turn", "over", "unapproved"} => Reconciled(r, verdict).active = None
        /\ verdict \in {"awaiting", "running"} => Reconciled(r, verdict).active = t
    BY <2>1, <2>3 DEF Reconciled, WithoutActiveTurn, SessionRecord
  <2>5. /\ verdict # "unapproved" => turns' = turns
        /\ verdict = "running" => waiter' = [waiter EXCEPT ![t] = "waiting"]
        /\ verdict # "running" => waiter' = waiter
        /\ \A u \in Turns \ {t} : turns'[u] = turns[u] /\ waiter'[u] = waiter[u]
        /\ todo' = todo \ {s} /\ sessions' = sessions /\ approvalsSnapshot' = approvalsSnapshot
        /\ turnsSnapshot' = turnsSnapshot
        /\ repair' = IF SessionChanged(r, resume, verdict)
                     THEN [pc |-> "store_session", s |-> s, t |-> None, arg |-> "none",
                           snap |-> Reconciled(r, verdict)]
                     ELSE repair
    BY <1>1 DEF IInv, TypeOK, RecoverSession
  <2>6. ~SessionChanged(r, resume, verdict) =>
              r = sessions[s] /\ (verdict # "running" => Reconciled(r, verdict) = r)
    BY <2>1, <2>3 DEF SessionChanged
  <2> HIDE DEF r, t, verdict
  <2>7. ASSUME NEW u, u = Reconciled(r, verdict).active PROVE Settled(u)'
    <3>1. CASE verdict = "running"
      <4>1. u = t /\ t \in Turns
        BY <2>1, <2>3, <2>4, <2>7, <3>1
      <4>2. waiter'[t] = "waiting"
        BY <2>5, <3>1, <4>1 DEF IInv, TypeOK
      <4> QED BY <4>1, <4>2 DEF Settled
    <3>2. CASE verdict = "awaiting"
      <4>1. u = t /\ t # None /\ turns[t] = "waiting_for_approval" /\ approvalsSnapshot[t] = "pending"
        BY <2>2, <2>3, <2>4, <2>7, <3>2
      <4> QED BY <2>5, <3>2, <4>1 DEF Settled
    <3>3. CASE verdict \in {"no_turn", "over", "unapproved"}
      BY <2>4, <2>7, <3>3 DEF Settled
    <3> QED BY <2>3, <3>1, <3>2, <3>3
  <2>8. \A u \in Turns : waiter'[u] # "none" => turnsSnapshot'[u] = "in_progress"
    BY <2>1, <2>3, <2>5 DEF AllSettled, IInv, TypeOK
  <2>9. repair'.pc # "idle" => Settled(repair.snap.active)'
    <3>1. CASE SessionChanged(r, resume, verdict)
      <4>1. repair'.snap = Reconciled(r, verdict)
        BY <2>5, <3>1
      <4> QED BY <2>7, <4>1 DEF Settled
    <3>2. CASE ~SessionChanged(r, resume, verdict)
      BY <2>1, <2>5, <3>2
    <3> QED BY <3>1, <3>2
  <2>10. ASSUME NEW q \in Sessions \ todo', sessions'[q] # None,
                ~(repair'.pc # "idle" /\ repair'.s = q)
         PROVE  Settled(sessions[q].active)'
    <3>1. CASE q # s
      <4>1. Settled(sessions[q].active)
        BY <2>1, <2>5, <2>10, <3>1 DEF AllSettled
      <4>2. sessions[q].active # None => sessions[q].active \in Turns /\ sessions[q].active # t
        BY <2>1, <2>2, <2>5, <2>10, <3>1 DEF IInv, TypeOK, SessionsOK, SessionRecord
      <4> QED BY <2>5, <4>1, <4>2 DEF Settled
    <3>2. CASE q = s
      <4>1. ~SessionChanged(r, resume, verdict)
        BY <2>5, <2>10, <3>2
      <4>2. sessions'[q].active = Reconciled(r, verdict).active
        BY <2>3, <2>4, <2>5, <2>6, <3>2, <4>1 DEF t
      <4> QED BY <2>7, <4>2 DEF Settled
    <3> QED BY <3>1, <3>2
  <2> QED BY <2>8, <2>9, <2>10 DEF AllSettled
<1>2. ASSUME StoreRepair PROVE AllSettled'
  <2>1. /\ repair.pc # "idle" /\ repair'.s = repair.s /\ repair'.snap = repair.snap
        /\ UNCHANGED <<turns, sessions, waiter, phase, todo, approvalsSnapshot, turnsSnapshot>>
    BY <1>2 DEF StoreRepair, IInv, TypeOK, Call
  <2>2. repair'.pc = "publish_session"
    BY <1>2 DEF StoreRepair, IInv, TypeOK, Call
  <2> QED BY <2>1, <2>2 DEF AllSettled, Settled
<1>3. ASSUME PublishRepair PROVE AllSettled'
  <2>1. /\ repair.pc # "idle" /\ repair.s \in Sessions /\ repair'.pc = "idle"
        /\ sessions' = [sessions EXCEPT ![repair.s] = repair.snap]
        /\ UNCHANGED <<turns, waiter, phase, todo, approvalsSnapshot, turnsSnapshot>>
    BY <1>3 DEF PublishRepair, IInv, RecoveryOK
  <2> QED BY <2>1 DEF AllSettled, Settled, IInv, TypeOK
<1>4. ASSUME FinishRecovery PROVE AllSettled'
  BY <1>4 DEF FinishRecovery, AllSettled
<1> QED BY <1>1, <1>2, <1>3, <1>4 DEF RecoveryStep

LEMMA Next_AllSettled == ASSUME IInv, AllSettled, [Next]_vars PROVE AllSettled'
<1>1. ASSUME UNCHANGED <<phase, repair, todo, sessions, turns, waiter, turnsSnapshot, approvalsSnapshot>>
      PROVE  AllSettled'
  BY <1>1 DEF AllSettled, Settled
<1>2. ASSUME NEW c \in Calls,
             SessionRequest(c) \/ ProviderAnswer(c) \/ HandlerStep(c) \/ AbandonCall(c)
      PROVE  AllSettled'
  BY <1>2, HandlersWait DEF AllSettled
<1>3. ASSUME Crash PROVE AllSettled'
  BY <1>3 DEF Crash, AllSettled, IInv, TypeOK
<1>4. ASSUME NEW s \in Sessions, NEW t \in Turns, interrupt_turn(s, t) PROVE AllSettled'
  BY <1>1, <1>4 DEF interrupt_turn
<1>5. ASSUME NEW t \in Turns, NEW status \in Terminal, ProviderFinishesTurn(t, status)
      PROVE  AllSettled'
  BY <1>1, <1>5 DEF ProviderFinishesTurn
<1>6. ASSUME NEW t \in Turns, ProviderReapsTurn(t) PROVE AllSettled'
  BY <1>1, <1>6 DEF ProviderReapsTurn
<1>7. ASSUME NEW t \in Turns, WaiterStep(t) PROVE AllSettled'
  BY <1>7, WaitersSettle
<1>8. CASE RecoveryStep
  BY <1>8, RecoverySettles
<1>9. CASE UNCHANGED vars
  BY <1>1, <1>9 DEF vars
<1> QED BY <1>2, <1>3, <1>4, <1>5, <1>6, <1>7, <1>8, <1>9 DEF Next

(* Whatever resume_session returns and waiters fail to write. *)
Loosely ==
    phase = "recovering" /\ phase' = "serving" =>
        \A s \in Sessions : sessions[s] # None /\ sessions[s].active # None =>
            LET t == sessions[s].active
            IN  \/ waiter[t] # "none"
                \/ turns[t] = "waiting_for_approval" /\ approvals'[t] = "pending"
                \/ turnsSnapshot[t] = "in_progress" /\ turns[t] \in Terminal

LEMMA LooselyTended == Spec => [][Loosely]_vars
<1>1. Init => AllSettled
  BY DEF Init, AllSettled
<1>2. IInv /\ AllSettled /\ [Next]_vars => AllSettled'
  BY Next_AllSettled
<1>3. IInv /\ AllSettled /\ [Next]_vars => [Loosely]_vars
  <2> SUFFICES ASSUME IInv, AllSettled, Next, phase = "recovering", phase' = "serving",
                      NEW s \in Sessions, sessions[s] # None, sessions[s].active # None,
                      waiter[sessions[s].active] = "none",
                      ~(/\ turnsSnapshot[sessions[s].active] = "in_progress"
                        /\ turns[sessions[s].active] \in Terminal)
               PROVE  /\ turns[sessions[s].active] = "waiting_for_approval"
                      /\ approvals'[sessions[s].active] = "pending"
    BY DEF Loosely
  <2> DEFINE t == sessions[s].active
  <2>1. FinishRecovery
    BY OnlyFinishServes
  <2>2. todo = {} /\ repair.pc = "idle" /\ approvals = approvalsSnapshot /\ t \in Turns
    BY <2>1 DEF FinishRecovery, IInv, RecoveryOK, TypeOK, SessionRecord
  <2>3. turns[t] = "waiting_for_approval" /\ approvalsSnapshot[t] = "pending"
    BY <2>2 DEF AllSettled, Settled
  <2>4. turnsSnapshot[t] = "waiting_for_approval"
    BY <2>2, <2>3 DEF IInv, RecoveryOK
  <2> QED
    BY <2>1, <2>2, <2>3, <2>4 DEF FinishRecovery, Orphaned, is_terminal_turn_status
<1> QED BY <1>1, <1>2, <1>3, InductiveInvariant, PTL DEF Spec

(***************************************************************************)
(* Recovery ends with every active turn watched or awaiting its approval,  *)
(* or ended under recovery's eyes where new references or failing waiters  *)
(* allow it; of handlers any write may have failed, and the process may    *)
(* have died anywhere, in recovery too.                                    *)
(***************************************************************************)
THEOREM RecoveredTurnsAreTended == Spec => RecoveryLeavesNoStaleTurn
<1> DEFINE Stale == phase = "recovering" /\ phase' = "serving" =>
         \A s \in Sessions : sessions[s] # None /\ sessions[s].active # None =>
             LET t == sessions[s].active
             IN  \/ waiter[t] # "none"
                 \/ turns[t] = "waiting_for_approval" /\ approvals'[t] = "pending"
                 \/ /\ RefsMayChange \/ "waiters" \in Faults
                    /\ turnsSnapshot[t] = "in_progress" /\ turns[t] \in Terminal
<1>1. CASE RefsMayChange = FALSE /\ "waiters" \notin Faults
  <2>1. [Strictly]_vars => [Stale]_vars
    BY DEF Strictly
  <2>2. Spec => [][Strictly]_vars
    BY <1>1, StrictlyTended
  <2> QED BY <2>1, <2>2, PTL DEF RecoveryLeavesNoStaleTurn
<1>2. CASE ~(RefsMayChange = FALSE /\ "waiters" \notin Faults)
  <2>1. [Loosely]_vars => [Stale]_vars
    BY <1>2, FaultsAssumption DEF Loosely
  <2> QED BY <2>1, LooselyTended, PTL DEF RecoveryLeavesNoStaleTurn
<1> QED BY <1>1, <1>2
=============================================================================
