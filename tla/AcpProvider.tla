---------------------------- MODULE AcpProvider ----------------------------
(***************************************************************************)
(* The ACP provider (runtime-provider-acp): sessions that share one        *)
(* connection to an agent process.  A turn is a task of its own that sends *)
(* one prompt and waits for the answer without a timeout; its result comes *)
(* from the answer, from a permission request of the agent, from a closed  *)
(* connection or from the closing of the session, whichever is first.      *)
(* Sessions are behind one lock, the connection behind another, and        *)
(* neither is held while a request is out.  A request whose client goes is *)
(* dropped where it waits.  The text a turn collects is left out.          *)
(***************************************************************************)
EXTENDS Providers

CONSTANTS Capacity,  \* max_instances * max_sessions_per_instance
          Scopes,    \* which requests and faults a behaviour has
          MaxTurns,  \* bound on the turns that are sent
          MaxConns   \* bound on the agent processes that are started

AllRequests == {"new", "resume", "send", "approve", "interrupt", "wait", "close"}
AllFaults == {"spawn", "request", "exit", "garbage", "drop"}
Turns == 1..MaxTurns
Conns == 1..MaxConns
ScopeType == [requests : SUBSET AllRequests, faults : SUBSET AllFaults,
              sessions : SUBSET Sessions, turns : SUBSET Turns, calls : SUBSET Calls]

(* AcpSessionState; a reserved slot has no provider_session_ref: not ready. *)
(* History: a request that was opening it before that was dropped (left).  *)
SessionType == [ready : BOOLEAN, left : BOOLEAN, active : Turns \cup {None},
                approvals : SUBSET Turns, completed : [Turns -> Results \cup {None}]]

ASSUME AcpConstants ==
    /\ Scopes \subseteq ScopeType
    /\ Capacity \in Nat \ {0} /\ MaxTurns \in Nat /\ MaxConns \in Nat
    /\ None \notin Nat /\ None \notin Sessions /\ None \notin SessionType
    /\ None \notin Results \cup {"closed", "new", "resume"}

VARIABLES scope,      \* of this behaviour; never changes
          sessions,   \* AcpSessionState of each session, None if there is none
          owner,      \* the session a turn id was made for
          cancelled,  \* AcpActiveTurnState.cancelled
          prompts,    \* the tasks that execute_turn spawns
          conns,      \* the connections that were made
          slot,       \* AcpProviderInner.connection
          acalls      \* what each caller is doing

avars == <<scope, sessions, owner, cancelled, prompts, conns, slot, acalls>>

(* reserve_session_slot: a slot that is only reserved. *)
NewSession == [ready |-> FALSE, left |-> FALSE, active |-> None, approvals |-> {},
               completed |-> [t \in Turns |-> None]]

(* History: its connection was closed when its request got in (late). *)
NewPrompt == [pc |-> "none", conn |-> None, answer |-> None, late |-> FALSE]
Done == [NewPrompt EXCEPT !.pc = "done"]
NoConn == [agent |-> "none", closed |-> FALSE, pending |-> {}, working |-> {}, reader |-> "none"]
NewConn == [NoConn EXCEPT !.agent = "alive", !.reader = "reading"]
IdleCall == [pc |-> "idle", s |-> None, t |-> None, conn |-> None, how |-> None, got |-> None]

AInit ==
    /\ scope \in Scopes
    /\ sessions = [s \in Sessions |-> None]
    /\ owner = [t \in Turns |-> None] /\ cancelled = [t \in Turns |-> FALSE]
    /\ prompts = [t \in Turns |-> NewPrompt]
    /\ conns = [k \in Conns |-> NoConn] /\ slot = None
    /\ acalls = [c \in Calls |-> IdleCall]

-----------------------------------------------------------------------------
(* Helpers under the session lock *)

Exists(s) == sessions[s] # None
OnlyReserved(s) == Exists(s) /\ ~sessions[s].ready /\ ~sessions[s].left
Free(s) == Exists(s) /\ sessions[s].active = None /\ sessions[s].approvals = {}

AGoto(c, pc) == [acalls EXCEPT ![c].pc = pc]
AReturn(c) == [acalls EXCEPT ![c] = IdleCall]

(* Whoever waits for these turns finds this in its channel. *)
Notify(calls, T, what) ==
    [c \in Calls |-> IF calls[c].pc = "waiting" /\ calls[c].got = None /\ calls[c].t \in T
                     THEN [calls[c] EXCEPT !.got = what] ELSE calls[c]]

TurnsOf(s) == {t \in Turns : owner[t] = s}

(* sessions.remove: the waiters go with the session, their channels close. *)
Remove(s, calls) ==
    /\ sessions' = [sessions EXCEPT ![s] = None]
    /\ acalls' = Notify(calls, TurnsOf(s), "closed")

(* complete_turn: the first result of a turn stays. *)
complete_turn(s, t, status, calls) ==
    IF ~Exists(s) \/ (Exists(s) /\ sessions[s].completed[t] # None)
    THEN UNCHANGED sessions /\ acalls' = calls
    ELSE /\ sessions' = [sessions EXCEPT
               ![s].active = IF @ = t THEN None ELSE @,
               ![s].approvals = @ \ {t},
               ![s].completed[t] = status]
         /\ acalls' = Notify(calls, {t}, status)

(* execute_turn: the turn becomes active and its task is spawned. *)
execute_turn(s, t) ==
    /\ sessions' = [sessions EXCEPT ![s].active = t]
    /\ prompts' = [prompts EXCEPT ![t].pc = "connect"]

-----------------------------------------------------------------------------
(* The connection *)

Open == slot # None /\ ~conns[slot].closed
Unused == {k \in Conns : conns[k].agent = "none"}

(* ensure_connection: the open connection, or a new agent in its place. *)
ensure_connection(k) ==
    \/ Open /\ k = slot /\ UNCHANGED <<conns, slot>>
    \/ /\ ~Open /\ k \in Unused /\ \A j \in Unused : k <= j
       /\ conns' = [conns EXCEPT ![k] = NewConn] /\ slot' = k

SpawnFails == ~Open /\ "spawn" \in scope.faults /\ UNCHANGED <<conns, slot>>

(* A request with a timeout is answered well, or not. *)
Answered(k) == conns[k].agent = "alive" /\ ~conns[k].closed
NotAnswered(k) == ~Answered(k) \/ "request" \in scope.faults

(* What is pending when a connection is closed gets an error. *)
FailPending(k) ==
    prompts' = [t \in Turns |-> IF t \in conns[k].pending
                                THEN [prompts[t] EXCEPT !.pc = "answered", !.answer = "error"]
                                ELSE prompts[t]]

-----------------------------------------------------------------------------
(* create_session and resume_session *)

(* reserve_session_slot; resuming a session that is there reserves nothing. *)
open_session(c, s, how) ==
    /\ acalls[c].pc = "idle"
    /\ how = "new" => ~Exists(s) /\ TurnsOf(s) = {}
    /\ Exists(s) \/ Cardinality({r \in Sessions : Exists(r)}) < Capacity
    /\ sessions' = IF Exists(s) THEN sessions ELSE [sessions EXCEPT ![s] = NewSession]
    /\ acalls' = [acalls EXCEPT ![c] = [IdleCall EXCEPT !.pc = "open_connect", !.s = s, !.how = how]]
    /\ UNCHANGED <<owner, cancelled, prompts, conns, slot>>

(* Mutant: the slot is kept when the request fails. *)
ReturnOnly(c) == acalls' = AReturn(c) /\ UNCHANGED sessions

(* release_session_slot, whoever reserved it, and an error. *)
Release(c) == Remove(acalls[c].s, AReturn(c))

OpenConnect(c) ==
    /\ acalls[c].pc = "open_connect"
    /\ \/ \E k \in Conns :
            /\ ensure_connection(k)
            /\ acalls' = [acalls EXCEPT ![c].conn = k,
                  ![c].pc = IF acalls[c].how = "new" THEN "open_request" ELSE "open_activate"]
            /\ UNCHANGED sessions
       \/ SpawnFails /\ Release(c)
    /\ UNCHANGED <<owner, cancelled, prompts>>

(* session/new before the session is activated, session/resume after it. *)
OpenRequest(c) ==
    /\ acalls[c].pc = "open_request"
    /\ \/ /\ Answered(acalls[c].conn)
          /\ acalls' = IF acalls[c].how = "new" THEN AGoto(c, "open_activate") ELSE AReturn(c)
          /\ UNCHANGED sessions
       \/ NotAnswered(acalls[c].conn) /\ Release(c)
    /\ UNCHANGED <<owner, cancelled, prompts, conns, slot>>

(* activate_reserved_session; an agent that cannot resume ends the request. *)
activate_reserved_session(c) ==
    /\ acalls[c].pc = "open_activate"
    /\ \/ /\ Exists(acalls[c].s)
          /\ sessions' = [sessions EXCEPT ![acalls[c].s].ready = TRUE]
          /\ acalls' = IF acalls[c].how = "new" THEN AReturn(c) ELSE AGoto(c, "open_request")
       \/ /\ ~Exists(acalls[c].s) \/ (acalls[c].how = "resume" /\ "request" \in scope.faults)
          /\ Release(c)
    /\ UNCHANGED <<owner, cancelled, prompts, conns, slot>>

-----------------------------------------------------------------------------
(* Turns *)

(* send_turn checks twice, in one section when there is an approval to wait *)
(* for; the turn id is new.                                                 *)
send_turn(s, approval) ==
    /\ Free(s)
    /\ \E t \in Turns :
          /\ t \in scope.turns /\ owner[t] = None /\ \A u \in Turns : owner[u] = None => t <= u
          /\ owner' = [owner EXCEPT ![t] = s]
          /\ IF approval
             THEN /\ sessions' = [sessions EXCEPT ![s].approvals = {t}]
                  /\ UNCHANGED prompts
             ELSE execute_turn(s, t)
    /\ UNCHANGED <<cancelled, conns, slot, acalls>>

(* respond_approval: the approval is taken out in a section of its own. *)
respond_approval(c, s, t, decision) ==
    /\ acalls[c].pc = "idle" /\ Exists(s) /\ t \in sessions[s].approvals
    /\ sessions' = [sessions EXCEPT ![s].approvals = @ \ {t}]
    /\ acalls' = [acalls EXCEPT ![c] = [IdleCall EXCEPT !.pc = decision, !.s = s, !.t = t]]
    /\ UNCHANGED <<owner, cancelled, prompts, conns, slot>>

Decide(c) ==
    LET s == acalls[c].s
        t == acalls[c].t
    IN  /\ \/ /\ acalls[c].pc = "decline"
              /\ complete_turn(s, t, "interrupted", AReturn(c))
              /\ UNCHANGED prompts
           \/ /\ acalls[c].pc = "accept"
              /\ IF Free(s) THEN execute_turn(s, t) ELSE UNCHANGED <<sessions, prompts>>
              /\ acalls' = AReturn(c)
        /\ UNCHANGED <<owner, cancelled, conns, slot>>

(* interrupt_turn: the flag under the lock, then a notification. *)
interrupt_turn(c, s, t) ==
    /\ acalls[c].pc = "idle" /\ Exists(s) /\ sessions[s].active = t /\ t # None
    /\ cancelled' = [cancelled EXCEPT ![t] = TRUE]
    /\ acalls' = AGoto(c, "cancel")
    /\ UNCHANGED <<sessions, owner, prompts, conns, slot>>

SendCancel(c) ==
    /\ acalls[c].pc = "cancel"
    /\ SpawnFails \/ \E k \in Conns : ensure_connection(k)
    /\ acalls' = AReturn(c)
    /\ UNCHANGED <<sessions, owner, cancelled, prompts>>

(* wait_for_turn: a turn that is not through is looked up, its waiter added *)
(* in a later section that looks for a result again.                        *)
wait_for_turn(c, t) ==
    /\ acalls[c].pc = "idle" /\ owner[t] # None /\ Exists(owner[t])
    /\ sessions[owner[t]].active = t \/ t \in sessions[owner[t]].approvals
    /\ acalls' = [acalls EXCEPT ![c] = [IdleCall EXCEPT !.pc = "register", !.t = t]]
    /\ UNCHANGED <<sessions, owner, cancelled, prompts, conns, slot>>

(* Mutant: only the session is looked for again. *)
RegisterOnly(c) ==
    LET t == acalls[c].t
    IN  /\ acalls[c].pc = "register"
        /\ acalls' = IF ~Exists(owner[t]) THEN AReturn(c) ELSE AGoto(c, "waiting")
        /\ UNCHANGED <<sessions, owner, cancelled, prompts, conns, slot>>

Register(c) ==
    LET t == acalls[c].t
    IN  /\ acalls[c].pc = "register"
        /\ acalls' = IF Exists(owner[t]) => sessions[owner[t]].completed[t] # None
                     THEN AReturn(c) ELSE AGoto(c, "waiting")
        /\ UNCHANGED <<sessions, owner, cancelled, prompts, conns, slot>>

(* The receiver has something, or the wait times out. *)
WaitEnds(c) ==
    /\ acalls[c].pc = "waiting"
    /\ acalls' = AReturn(c)
    /\ UNCHANGED <<sessions, owner, cancelled, prompts, conns, slot>>

-----------------------------------------------------------------------------
(* The task of a turn *)

PromptConnect(t) ==
    /\ prompts[t].pc = "connect"
    /\ \/ /\ SpawnFails
          /\ complete_turn(owner[t], t, "failed", acalls)
          /\ prompts' = [prompts EXCEPT ![t] = Done]
       \/ \E k \in Conns :
            /\ ensure_connection(k)
            /\ prompts' = [prompts EXCEPT ![t].pc = "check", ![t].conn = k]
            /\ UNCHANGED <<sessions, acalls>>
    /\ UNCHANGED <<owner, cancelled>>

(* send_request looks at closed, then enters the request and writes it; an *)
(* agent that is gone cannot be written to.                                *)
PromptCheck(t) ==
    /\ prompts[t].pc = "check"
    /\ prompts' = IF conns[prompts[t].conn].closed
                  THEN [prompts EXCEPT ![t].pc = "answered", ![t].answer = "error"]
                  ELSE [prompts EXCEPT ![t].pc = "insert"]
    /\ UNCHANGED <<sessions, owner, cancelled, conns, slot, acalls>>

PromptInsert(t) ==
    LET k == prompts[t].conn
    IN  /\ prompts[t].pc = "insert"
        /\ \/ /\ conns[k].agent = "alive"
              /\ conns' = [conns EXCEPT ![k].pending = @ \cup {t}, ![k].working = @ \cup {t}]
              /\ prompts' = [prompts EXCEPT ![t].pc = "waiting", ![t].late = conns[k].closed]
           \/ /\ conns[k].agent = "dead"
              /\ prompts' = [prompts EXCEPT ![t].pc = "answered", ![t].answer = "error"]
              /\ UNCHANGED conns
        /\ UNCHANGED <<sessions, owner, cancelled, slot, acalls>>

(* build_prompt_result, or the error as it looks to a turn that was cancelled. *)
PromptResult(t) ==
    IF prompts[t].answer # "error" THEN prompts[t].answer
    ELSE IF cancelled[t] THEN "interrupted" ELSE "failed"

PromptEnds(t) ==
    /\ prompts[t].pc = "answered"
    /\ complete_turn(owner[t], t, PromptResult(t), acalls)
    /\ prompts' = [prompts EXCEPT ![t] = Done]
    /\ UNCHANGED <<owner, cancelled, conns, slot>>

-----------------------------------------------------------------------------
(* The agent and the task that reads what it writes *)

(* The response to a prompt, with a stop reason or an error. *)
AgentAnswers(k, t, answer) ==
    /\ conns[k].reader = "reading" /\ conns[k].agent = "alive" /\ t \in conns[k].working
    /\ conns' = [conns EXCEPT ![k].working = @ \ {t}, ![k].pending = @ \ {t}]
    /\ prompts' = IF t \in conns[k].pending
                  THEN [prompts EXCEPT ![t].pc = "answered", ![t].answer = answer] ELSE prompts
    /\ UNCHANGED <<sessions, owner, cancelled, slot, acalls>>

(* fail_permission_request: the agent asks during a prompt of the session; *)
(* the turn that is active when it is read fails.                          *)
fail_permission_request(k, t) ==
    /\ conns[k].reader = "reading" /\ conns[k].agent = "alive" /\ t \in conns[k].working
    /\ Exists(owner[t]) /\ sessions[owner[t]].ready /\ sessions[owner[t]].active # None
    /\ complete_turn(owner[t], sessions[owner[t]].active, "failed", acalls)
    /\ UNCHANGED <<owner, cancelled, prompts, conns, slot>>

AgentExits(k) ==
    /\ "exit" \in scope.faults /\ conns[k].agent = "alive"
    /\ conns' = [conns EXCEPT ![k].agent = "dead", ![k].working = {}]
    /\ UNCHANGED <<sessions, owner, cancelled, prompts, slot, acalls>>

(* Mutant: what is pending there is not told. *)
MarkClosedOnly(k) ==
    /\ conns[k].reader = "reading"
    /\ conns[k].agent = "dead" \/ "garbage" \in scope.faults
    /\ conns' = [conns EXCEPT ![k].closed = TRUE, ![k].reader = "reap"]
    /\ UNCHANGED <<sessions, owner, cancelled, prompts, slot, acalls>>

(* mark_closed_io at the end of the output, mark_closed_protocol at a line *)
(* that is no message; either ends the reader, which then reaps.  Nothing  *)
(* is drained if the connection was closed before: a prompt that got in    *)
(* after that waits on.                                                    *)
MarkClosed(k) ==
    /\ conns[k].reader = "reading"
    /\ conns[k].agent = "dead" \/ "garbage" \in scope.faults
    /\ IF conns[k].closed
       THEN conns' = [conns EXCEPT ![k].reader = "reap"] /\ UNCHANGED prompts
       ELSE /\ conns' = [conns EXCEPT ![k].closed = TRUE, ![k].pending = {}, ![k].reader = "reap"]
            /\ FailPending(k)
    /\ UNCHANGED <<sessions, owner, cancelled, slot, acalls>>

(* reap_connection_if_current_and_closed looks at the slot and, when it has *)
(* let go of it, empties it: by then another connection may be in it.       *)
Reap(k) ==
    /\ conns[k].reader = "reap"
    /\ conns' = [conns EXCEPT ![k].reader = IF slot = k THEN "take" ELSE "gone"]
    /\ UNCHANGED <<sessions, owner, cancelled, prompts, slot, acalls>>

(* shutdown without a kill: only what is pending there is told. *)
ReapTakes(k) ==
    /\ conns[k].reader = "take"
    /\ slot' = None
    /\ conns' = [j \in Conns |->
           CASE j = k /\ j # slot -> [conns[j] EXCEPT !.reader = "gone"]
             [] j = k /\ j = slot -> [conns[j] EXCEPT !.reader = "gone", !.pending = {}]
             [] j # k /\ j = slot -> [conns[j] EXCEPT !.closed = TRUE, !.pending = {}]
             [] OTHER -> conns[j]]
    /\ IF slot = None THEN UNCHANGED prompts ELSE FailPending(slot)
    /\ UNCHANGED <<sessions, owner, cancelled, acalls>>

-----------------------------------------------------------------------------
(* close_session *)

close_session(c, s) ==
    /\ acalls[c].pc = "idle" /\ Exists(s)
    /\ acalls' = [acalls EXCEPT ![c] =
           [IdleCall EXCEPT !.pc = IF sessions[s].active = None THEN "close_remove" ELSE "close_cancel",
                            !.s = s, !.t = sessions[s].active]]
    /\ UNCHANGED <<sessions, owner, cancelled, prompts, conns, slot>>

(* interrupt_turn, its errors ignored. *)
CloseCancel(c) ==
    LET s == acalls[c].s
        t == acalls[c].t
    IN  /\ acalls[c].pc = "close_cancel"
        /\ IF Exists(s) /\ sessions[s].active = t
           THEN /\ cancelled' = [cancelled EXCEPT ![t] = TRUE]
                /\ SpawnFails \/ \E k \in Conns : ensure_connection(k)
           ELSE UNCHANGED <<cancelled, conns, slot>>
        /\ acalls' = AGoto(c, "close_complete")
        /\ UNCHANGED <<sessions, owner, prompts>>

CloseComplete(c) ==
    /\ acalls[c].pc = "close_complete"
    /\ complete_turn(acalls[c].s, acalls[c].t, "interrupted", AGoto(c, "close_remove"))
    /\ UNCHANGED <<owner, cancelled, prompts, conns, slot>>

CloseRemove(c) ==
    /\ acalls[c].pc = "close_remove"
    /\ Remove(acalls[c].s, AGoto(c, "close_idle"))
    /\ UNCHANGED <<owner, cancelled, prompts, conns, slot>>

(* After session/close, whatever it answers: is any session left? *)
CloseIdle(c) ==
    /\ acalls[c].pc = "close_idle"
    /\ acalls' = IF \E s \in Sessions : Exists(s) THEN AReturn(c) ELSE AGoto(c, "close_shutdown")
    /\ UNCHANGED <<sessions, owner, cancelled, prompts, conns, slot>>

(* shutdown_connection with a kill. *)
CloseShutdown(c) ==
    /\ acalls[c].pc = "close_shutdown"
    /\ slot' = None
    /\ IF slot = None THEN UNCHANGED <<conns, prompts>>
       ELSE /\ conns' = [conns EXCEPT ![slot].closed = TRUE, ![slot].pending = {},
                                      ![slot].agent = "dead"]
            /\ FailPending(slot)
    /\ acalls' = AReturn(c)
    /\ UNCHANGED <<sessions, owner, cancelled>>

-----------------------------------------------------------------------------
(* The client of a request goes, and its future is dropped where it waits: *)
(* nothing gives back the slot it has reserved, or the approval it has     *)
(* taken out.  A waiter is a task of its own.                              *)
DropCall(c) ==
    /\ "drop" \in scope.faults /\ acalls[c].pc \notin {"idle", "register", "waiting"}
    /\ sessions' = IF /\ acalls[c].pc \in {"open_connect", "open_request", "open_activate"}
                      /\ OnlyReserved(acalls[c].s)
                   THEN [sessions EXCEPT ![acalls[c].s].left = TRUE] ELSE sessions
    /\ acalls' = AReturn(c)
    /\ UNCHANGED <<owner, cancelled, prompts, conns, slot>>

ARequest(c) ==
    \/ \E s \in scope.sessions, how \in {"new", "resume"} \cap scope.requests : open_session(c, s, how)
    \/ \E s \in Sessions : "close" \in scope.requests /\ close_session(c, s)
    \/ \E t \in Turns : "wait" \in scope.requests /\ wait_for_turn(c, t)
    \/ \E s \in Sessions, t \in Turns :
          \/ "interrupt" \in scope.requests /\ interrupt_turn(c, s, t)
          \/ \E decision \in {"accept", "decline"} : respond_approval(c, s, t, decision)

AStep(c) ==
    \/ OpenConnect(c) \/ OpenRequest(c) \/ activate_reserved_session(c)
    \/ Decide(c) \/ SendCancel(c) \/ Register(c) \/ WaitEnds(c)
    \/ CloseCancel(c) \/ CloseComplete(c) \/ CloseRemove(c) \/ CloseIdle(c) \/ CloseShutdown(c)
    \/ DropCall(c)

Prompt(t) == PromptConnect(t) \/ PromptCheck(t) \/ PromptInsert(t) \/ PromptEnds(t)
Reader(k) == MarkClosed(k) \/ Reap(k) \/ ReapTakes(k)

Agent(k) ==
    \/ AgentExits(k)
    \/ \E t \in Turns : \/ fail_permission_request(k, t)
                        \/ \E answer \in Results \cup {"error"} : AgentAnswers(k, t, answer)

ANext ==
    /\ \/ \E c \in scope.calls : ARequest(c) \/ AStep(c)
       \/ \E s \in Sessions, kind \in {"send", "approve"} \cap scope.requests :
             send_turn(s, kind = "approve")
       \/ \E t \in Turns : Prompt(t)
       \/ \E k \in Conns : Reader(k) \/ Agent(k)
    /\ UNCHANGED scope

ASpec == AInit /\ [][ANext]_avars

-----------------------------------------------------------------------------
(* Properties *)

(* The shape of the state. *)
ATypeOK ==
    /\ sessions \in [Sessions -> SessionType \cup {None}]
    /\ owner \in [Turns -> Sessions \cup {None}] /\ cancelled \in [Turns -> BOOLEAN]
    /\ prompts \in [Turns -> [pc : {"none", "connect", "check", "insert", "waiting", "answered", "done"},
                              conn : Conns \cup {None}, answer : Results \cup {"error", None},
                              late : BOOLEAN]]
    /\ conns \in [Conns -> [agent : {"none", "alive", "dead"}, closed : BOOLEAN,
                            pending : SUBSET Turns, working : SUBSET Turns,
                            reader : {"none", "reading", "reap", "take", "gone"}]]
    /\ slot \in Conns \cup {None}
    /\ \A c \in Calls : acalls[c].got \in Results \cup {"closed", None}

(* Nobody waits on for a turn that has its result, or for a session that   *)
(* is gone: a result between the two sections of wait_for_turn is seen.    *)
NoMissedResult ==
    \A c \in Calls : acalls[c].pc = "waiting" /\ acalls[c].got = None =>
       Exists(owner[acalls[c].t]) /\ sessions[owner[acalls[c].t]].completed[acalls[c].t] = None

(* A slot that is only reserved is held by a request that is still running *)
(* and will activate or release it, whichever of its steps fails; only a   *)
(* request that is dropped leaves its slot behind (reserve_session_slot    *)
(* has no guard).                                                          *)
SlotsAreOwned ==
    \A s \in Sessions : OnlyReserved(s) =>
       \E c \in Calls : acalls[c].s = s /\ acalls[c].how # None

(* A turn that keeps its session busy has a task that goes on, or one that *)
(* waits for a request in the table of an open connection, whose reader    *)
(* will find the answer or fail the request.  Only a request that got in   *)
(* after the connection was closed may wait for ever (send_request looks   *)
(* at closed before it enters the request).                                *)
ActiveTurnIsServed ==
    \A s \in Sessions : Exists(s) /\ sessions[s].active # None =>
       LET t == sessions[s].active
           k == prompts[t].conn
       IN  /\ prompts[t].pc \notin {"none", "done"}
           /\ prompts[t].pc = "waiting" /\ ~prompts[t].late =>
                 t \in conns[k].pending /\ ~conns[k].closed /\ conns[k].reader = "reading"
=============================================================================
