--------------------------- MODULE ClaudeProvider ---------------------------
(***************************************************************************)
(* The Claude provider (runtime-provider-claude) and the turns of its      *)
(* bridge processes (sidecars/claude-bridge).  Sessions share a bounded    *)
(* pool of bridges.  A bridge names its sessions with a counter of its     *)
(* own, and its turns too: the provider finds a session by bridge and      *)
(* name, and keeps both names of a turn until it has a result.  Responses  *)
(* go to the caller at once, events to the worker of the session, so       *)
(* either may overtake the other.                                          *)
(* A name of a bridge turn is its runtime turn here; tools, approvals and  *)
(* the text of a turn are left out, and so is expectedTurnId.              *)
(***************************************************************************)
EXTENDS Providers

CONSTANTS CScopes,      \* which requests and faults a behaviour has
          MaxBridges,   \* max_bridges
          SoftLimit,    \* max_sessions_per_bridge
          MaxSpawns,    \* bound on the bridge processes
          MaxHandles,   \* bound on the session handles
          MaxBTurns     \* bound on the turns

CRequests == {"new", "resume", "send", "wait", "interrupt", "close", "recycle"}
CFaults == {"ping", "timeout", "exit", "drop"}
Bridges == 1..MaxSpawns
Handles == 1..MaxHandles
Refs == 1..MaxHandles
BTurns == 1..MaxBTurns
CScopeType == [requests : SUBSET CRequests, faults : SUBSET CFaults,
               sessions : SUBSET Sessions, turns : SUBSET BTurns, calls : SUBSET Calls]

(* ClaudeSessionHandle; active holds a runtime turn or, with "bridge", the  *)
(* name the bridge gave.                                                    *)
HandleType == [s : Sessions, bridge : Bridges, ref : Refs,
               active : ({"runtime", "bridge"} \X BTurns) \cup {None}, mapped : SUBSET BTurns,
               done : [BTurns -> Results \cup {None}]]

ASSUME ClaudeConstants ==
    /\ CScopes \subseteq CScopeType
    /\ None \notin Nat /\ None \notin Sessions /\ None \notin HandleType /\ None \notin Results
    /\ {MaxBridges, SoftLimit, MaxSpawns, MaxHandles} \subseteq Nat \ {0} /\ MaxBTurns \in Nat

VARIABLES cscope,   \* of this behaviour; never changes
          table,    \* ClaudeProviderInner.sessions: the handle of each session
          keys,     \* sessions_by_bridge_key
          handles,  \* ClaudeSessionHandle
          pool,     \* the bridge processes; registered: in ClaudeProviderInner.bridges
          lock,     \* bridge_allocation_lock: the call that holds it
          refs,     \* provider_session_ref, as the runtime recorded it
          bridge,   \* what each bridge process keeps
          bturns,   \* the turns
          events,   \* what the worker of each bridge session has still to handle
          ccalls    \* what each caller is doing

cvars == <<cscope, table, keys, handles, pool, lock, refs, bridge, bturns, events, ccalls>>

NewHandle(s, k, r) == [s |-> s, bridge |-> k, ref |-> r, active |-> None, mapped |-> {},
                       done |-> [t \in BTurns |-> None]]
NewTurn == [h |-> None, bridge |-> None, ref |-> None, state |-> "none", interrupted |-> FALSE,
            result |-> None, acked |-> FALSE]
NewBridge == [next |-> 1, live |-> {}, active |-> [r \in Refs |-> None]]
CIdle == [pc |-> "idle", how |-> None, s |-> None, h |-> None, bridge |-> None, ref |-> None,
          t |-> None, answer |-> None]

CInit ==
    /\ cscope \in CScopes
    /\ table = [s \in Sessions |-> None] /\ keys = [k \in Bridges |-> [r \in Refs |-> None]]
    /\ handles = [h \in Handles |-> None] /\ lock = None
    /\ pool = [k \in Bridges |-> [state |-> "none", registered |-> FALSE, failing |-> FALSE]]
    /\ refs = [s \in Sessions |-> None]
    /\ bridge = [k \in Bridges |-> NewBridge]
    /\ bturns = [t \in BTurns |-> NewTurn]
    /\ events = [k \in Bridges |-> [r \in Refs |-> <<>>]]
    /\ ccalls = [c \in Calls |-> CIdle]

CGoto(c, pc) == [ccalls EXCEPT ![c].pc = pc]
CReturn(c) == [ccalls EXCEPT ![c] = CIdle]
May(request) == request \in cscope.requests

-----------------------------------------------------------------------------
(* Bridges *)

Registered == {k \in Bridges : pool[k].registered}
Assigned(k) == {s \in Sessions : table[s] # None /\ handles[table[s]].bridge = k}
IsOpen(k) == pool[k].state = "open"

(* fail_bridge up to the removal from the pool: the process is killed and  *)
(* the requests that are out get an error.  The first to fail it goes on.  *)
Kill(K) ==
    /\ pool' = [k \in Bridges |->
           IF k \in K /\ IsOpen(k)
           THEN [state |-> "closed", registered |-> FALSE, failing |-> TRUE]
           ELSE [pool[k] EXCEPT !.registered = @ /\ k \notin K]]
    /\ bridge' = [k \in Bridges |-> IF k \in K THEN NewBridge ELSE bridge[k]]

(* The rest of it: a turn that is active on the bridge has failed. *)
fail_bridge(k) ==
    /\ pool[k].failing
    /\ pool' = [pool EXCEPT ![k].failing = FALSE]
    /\ handles' = [h \in Handles |->
           IF \E s \in Assigned(k) : table[s] = h /\ handles[h].active # None
              /\ handles[h].active[1] = "runtime"
           THEN [handles[h] EXCEPT !.done[handles[h].active[2]] = "failed"] ELSE handles[h]]
    /\ UNCHANGED <<cscope, table, keys, lock, refs, bridge, bturns, events, ccalls>>

(* The process ends, the heartbeat fails or a line has no known shape. *)
BridgeFails(k) ==
    /\ "exit" \in cscope.faults /\ IsOpen(k)
    /\ Kill({k})
    /\ UNCHANGED <<cscope, table, keys, handles, lock, refs, bturns, events, ccalls>>

(* acquire_bridge_for_new_session: a bridge with room, a new one, or any.  *)
(* Which of the bridges with room is a matter of the selection counter.    *)
Acquire(c) ==
    LET kept == {k \in Registered : IsOpen(k)}
        reusable == {k \in kept : Cardinality(Assigned(k)) < SoftLimit}
        spawns == reusable = {} /\ (Cardinality(kept) < MaxBridges \/ kept = {})
        pruned == [k \in Bridges |-> [pool[k] EXCEPT !.registered = @ /\ IsOpen(k)]]
    IN  /\ ccalls[c].pc = "acquire" /\ lock = None
        /\ \/ \E k \in IF reusable # {} THEN reusable ELSE kept :
                /\ ~spawns /\ pool' = pruned /\ UNCHANGED lock
                /\ ccalls' = [ccalls EXCEPT ![c].pc = "asked", ![c].bridge = k]
           \/ \E k \in Bridges :
                /\ spawns /\ pool[k].state = "none" /\ \A j \in 1..(k - 1) : pool[j].state # "none"
                /\ pool' = [pruned EXCEPT ![k].state = "open"] /\ lock' = c
                /\ ccalls' = [ccalls EXCEPT ![c].pc = "ping", ![c].bridge = k]
        /\ UNCHANGED <<cscope, table, keys, handles, refs, bridge, bturns, events>>

(* spawn_bridge_handle ends with a ping.  Without an answer the request    *)
(* fails and the process stays as it is, in no pool.                       *)
spawn_bridge_handle(c) ==
    /\ ccalls[c].pc = "ping"
    /\ \/ /\ IsOpen(ccalls[c].bridge)
          /\ ccalls' = CGoto(c, "register") /\ UNCHANGED lock
       \/ /\ ~IsOpen(ccalls[c].bridge) \/ "ping" \in cscope.faults
          /\ ccalls' = CReturn(c) /\ lock' = None
    /\ UNCHANGED <<cscope, table, keys, handles, pool, refs, bridge, bturns, events>>

RegisterBridge(c) ==
    /\ ccalls[c].pc = "register"
    /\ pool' = [pool EXCEPT ![ccalls[c].bridge].registered = TRUE]
    /\ lock' = None /\ ccalls' = CGoto(c, "asked")
    /\ UNCHANGED <<cscope, table, keys, handles, refs, bridge, bturns, events>>

(* Takes every bridge out of the pool and fails it. *)
ShutdownBridges(c) ==
    /\ ccalls[c].pc = "shutdown"
    /\ Kill(Registered) /\ ccalls' = CReturn(c)
    /\ UNCHANGED <<cscope, table, keys, handles, lock, refs, bturns, events>>

-----------------------------------------------------------------------------
(* Requests *)

create_session(c, s) ==
    /\ May("new") /\ ccalls[c].pc = "idle" /\ refs[s] = None
    /\ \A d \in Calls : ccalls[d].s # s  \* the runtime makes a new id
    /\ ccalls' = [ccalls EXCEPT ![c] = [CIdle EXCEPT !.pc = "acquire", !.how = "new", !.s = s]]
    /\ UNCHANGED <<cscope, table, keys, handles, pool, lock, refs, bridge, bturns, events>>

(* resume_session and close_session take the session out first, then its   *)
(* key, each under its own lock; closing what is not there does nothing.   *)
remove_session(c, s, how) ==
    /\ May(how) /\ ccalls[c].pc = "idle" /\ refs[s] # None /\ table[s] # None
    /\ table' = [table EXCEPT ![s] = None]
    /\ ccalls' = [ccalls EXCEPT ![c] = [CIdle EXCEPT !.pc = "unkey", !.how = how, !.s = s,
                      !.h = table[s], !.bridge = handles[table[s]].bridge,
                      !.ref = handles[table[s]].ref]]
    /\ UNCHANGED <<cscope, keys, handles, pool, lock, refs, bridge, bturns, events>>

RemoveKey(c) ==
    /\ ccalls[c].pc = "unkey"
    /\ keys' = [keys EXCEPT ![ccalls[c].bridge][ccalls[c].ref] = None]
    /\ ccalls' = CGoto(c, IF ccalls[c].how = "resume" THEN "acquire" ELSE "asked")
    /\ UNCHANGED <<cscope, table, handles, pool, lock, refs, bridge, bturns, events>>

resume_session(c, s) ==
    /\ May("resume") /\ ccalls[c].pc = "idle" /\ refs[s] # None /\ table[s] = None
    /\ ccalls' = [ccalls EXCEPT ![c] = [CIdle EXCEPT !.pc = "acquire", !.how = "resume", !.s = s]]
    /\ UNCHANGED <<cscope, table, keys, handles, pool, lock, refs, bridge, bturns, events>>

(* send_turn asks the bridge of the session; wait_for_turn, for a turn     *)
(* without a result, and interrupt_turn first look for the turn's name.    *)
AskForTurn(c, s, t, how) ==
    LET h == table[s]
    IN  /\ May(how) /\ ccalls[c].pc = "idle" /\ h # None /\ t \in cscope.turns
        /\ how = "send" <=> bturns[t].state = "none"
        /\ how = "send" => \A u \in 1..(t - 1) : bturns[u].state # "none"
        /\ how # "send" => handles[bturns[t].h].s = s
        /\ how = "wait" => bturns[t].acked /\ handles[h].done[t] = None
        /\ ccalls' = [ccalls EXCEPT ![c] = [CIdle EXCEPT
                         !.pc = IF how = "send" THEN "asked" ELSE "name", !.how = how, !.s = s,
                         !.h = h, !.bridge = handles[h].bridge, !.ref = handles[h].ref, !.t = t]]
        /\ bturns' = IF how = "send"
                     THEN [bturns EXCEPT ![t] = [@ EXCEPT !.state = "sent", !.h = h,
                               !.bridge = handles[h].bridge, !.ref = handles[h].ref]]
                     ELSE bturns
        /\ UNCHANGED <<cscope, table, keys, handles, pool, lock, refs, bridge, events>>

(* In a later section: the name the bridge gave the turn if that is kept,  *)
(* else the runtime's, which the bridge does not know.                     *)
resolve_bridge_turn_id(c) ==
    /\ ccalls[c].pc = "name"
    /\ ccalls' = [ccalls EXCEPT ![c].pc = "asked",
           ![c].answer = IF ccalls[c].t \in handles[ccalls[c].h].mapped THEN "named" ELSE None]
    /\ UNCHANGED <<cscope, table, keys, handles, pool, lock, refs, bridge, bturns, events>>

(* recycle_after_live_auth_change *)
recycle_after_live_auth_change(c) ==
    /\ May("recycle") /\ ccalls[c].pc = "idle"
    /\ keys' = [k \in Bridges |-> [r \in Refs |-> None]]
    /\ table' = [s \in Sessions |-> None]
    /\ ccalls' = CGoto(c, "shutdown")
    /\ UNCHANGED <<cscope, handles, pool, lock, refs, bridge, bturns, events>>

(* send_bridge_request: no answer from a bridge that is closed, or none in *)
(* time, whether it got the request or not.                                *)
Unanswered(c) ==
    /\ ccalls[c].pc \in {"asked", "answered"}
    /\ ~IsOpen(ccalls[c].bridge) \/ "timeout" \in cscope.faults
    /\ ccalls' = IF ccalls[c].how = "close" THEN CGoto(c, "check_idle") ELSE CReturn(c)
    /\ UNCHANGED <<cscope, table, keys, handles, pool, lock, refs, bridge, bturns, events>>

(* The client of a request goes, and its future is dropped where it waits.  *)
(* A waiter is a task of its own; giving up the bridges is not cut off here. *)
DropRequest(c) ==
    /\ "drop" \in cscope.faults /\ ccalls[c].pc \notin {"idle", "shutdown"} /\ ccalls[c].how # "wait"
    /\ ccalls' = CReturn(c) /\ lock' = IF lock = c THEN None ELSE lock
    /\ UNCHANGED <<cscope, table, keys, handles, pool, refs, bridge, bturns, events>>

-----------------------------------------------------------------------------
(* The bridge process *)

Emit(k, r, event) == events' = [events EXCEPT ![k][r] = Append(@, event)]
Answer(c, ref, answer) ==
    ccalls' = [ccalls EXCEPT ![c].pc = "answered", ![c].ref = ref, ![c].answer = answer]

(* The results of a session that is reset or closed are gone; a reset also *)
(* forgets which turns were interrupted.                                   *)
Forget(k, r, reset) ==
    bturns' = [t \in BTurns |->
                  IF bturns[t].bridge = k /\ bturns[t].ref = r
                  THEN [bturns[t] EXCEPT !.result = None, !.interrupted = @ /\ ~reset]
                  ELSE bturns[t]]

(* createSession, and resumeSession, which resets a session it knows. *)
OpenSession(c) ==
    LET k == ccalls[c].bridge
        r == IF ccalls[c].how = "new" THEN bridge[k].next ELSE refs[ccalls[c].s]
    IN  /\ ccalls[c].pc = "asked" /\ IsOpen(k) /\ ccalls[c].how \in {"new", "resume"} /\ r \in Refs
        /\ bridge' = [bridge EXCEPT ![k] =
                         [next |-> IF ccalls[c].how = "new" THEN @.next + 1 ELSE @.next,
                          live |-> @.live \cup {r}, active |-> [@.active EXCEPT ![r] = None]]]
        /\ Forget(k, r, TRUE) /\ Answer(c, r, "ok")
        /\ UNCHANGED <<cscope, table, keys, handles, pool, lock, refs, events>>

(* sendInput: the turn starts, and turn.started is out before the answer. *)
sendInput(c) ==
    LET k == ccalls[c].bridge
        r == ccalls[c].ref
        t == ccalls[c].t
        accepted == r \in bridge[k].live /\ bridge[k].active[r] = None
    IN  /\ ccalls[c].pc = "asked" /\ IsOpen(k) /\ ccalls[c].how = "send"
        /\ IF accepted
           THEN /\ bridge' = [bridge EXCEPT ![k].active[r] = t]
                /\ bturns' = [bturns EXCEPT ![t].state = "running"]
                /\ Emit(k, r, <<"started", t>>)
           ELSE UNCHANGED <<bridge, bturns, events>>
        /\ Answer(c, r, IF accepted THEN "ok" ELSE "error")
        /\ UNCHANGED <<cscope, table, keys, handles, pool, lock, refs>>

interruptTurn(c) ==
    LET k == ccalls[c].bridge
        t == ccalls[c].t
        active == ccalls[c].ref \in bridge[k].live /\ bridge[k].active[ccalls[c].ref] = t
                  /\ ccalls[c].answer = "named"
    IN  /\ ccalls[c].pc = "asked" /\ IsOpen(k) /\ ccalls[c].how = "interrupt"
        /\ bturns' = IF active THEN [bturns EXCEPT ![t].interrupted = TRUE] ELSE bturns
        /\ ccalls' = CReturn(c)
        /\ UNCHANGED <<cscope, table, keys, handles, pool, lock, refs, bridge, events>>

(* waitForTurn answers when there is a result, to the right name. *)
waitForTurn(c) ==
    LET k == ccalls[c].bridge
        t == ccalls[c].t
    IN  /\ ccalls[c].pc = "asked" /\ IsOpen(k) /\ ccalls[c].how = "wait"
        /\ bturns[t].result # None /\ ccalls[c].answer = "named" /\ ccalls[c].ref \in bridge[k].live
        /\ Answer(c, ccalls[c].ref, bturns[t].result)
        /\ UNCHANGED <<cscope, table, keys, handles, pool, lock, refs, bridge, bturns, events>>

closeSession(c) ==
    LET k == ccalls[c].bridge
        r == ccalls[c].ref
    IN  /\ ccalls[c].pc = "asked" /\ IsOpen(k) /\ ccalls[c].how = "close"
        /\ bridge' = [bridge EXCEPT ![k].live = @ \ {r}, ![k].active[r] = None]
        /\ Forget(k, r, FALSE) /\ ccalls' = CGoto(c, "check_idle")
        /\ UNCHANGED <<cscope, table, keys, handles, pool, lock, refs, events>>

(* An error of the turn, or a message that its capacity is exhausted, is   *)
(* an event before its end.                                                *)
TurnEvents(t, status, error) ==
    (IF error THEN <<<<"error", t, "failed">>>> ELSE <<>>) \o <<<<"completed", t, status>>>>

completeTurn(t, status, error) ==
    LET k == bturns[t].bridge
        r == bturns[t].ref
    IN  /\ bturns[t].state = "running" /\ IsOpen(k)
        /\ bturns[t].interrupted <=> status = "interrupted"
        /\ error => status # "interrupted"
        /\ bturns' = [bturns EXCEPT ![t].state = "ended", ![t].result = status]
        /\ bridge' = [bridge EXCEPT ![k].active[r] = IF @ = t THEN None ELSE @]
        /\ events' = [events EXCEPT ![k][r] = @ \o TurnEvents(t, status, error)]
        /\ UNCHANGED <<cscope, table, keys, handles, pool, lock, refs, ccalls>>

-----------------------------------------------------------------------------
(* What the provider makes of answers and events *)

(* Mutant: the key is taken over from whoever has it. *)
MayInsertAnyKey(s, k, r) == table[s] = None

(* insert_session refuses a session that is there and a key that is taken. *)
MayInsert(s, k, r) == table[s] = None /\ keys[k][r] = None

insert_session(c) ==
    LET s == ccalls[c].s
        k == ccalls[c].bridge
        r == ccalls[c].ref
    IN  /\ ccalls[c].pc = "answered" /\ ccalls[c].how \in {"new", "resume"}
        /\ IF ~MayInsert(s, k, r) THEN UNCHANGED <<table, keys, handles, refs>>
           ELSE \E h \in Handles :
                  /\ handles[h] = None /\ \A g \in 1..(h - 1) : handles[g] # None
                  /\ handles' = [handles EXCEPT ![h] = NewHandle(s, k, r)]
                  /\ table' = [table EXCEPT ![s] = h]
                  /\ keys' = [keys EXCEPT ![k][r] = h]
                  /\ refs' = [refs EXCEPT ![s] = r]
        /\ ccalls' = CReturn(c)
        /\ UNCHANGED <<cscope, pool, lock, bridge, bturns, events>>

(* send_turn: both names of the turn are kept, then it is active. *)
MapTurn(c) ==
    /\ ccalls[c].pc = "answered" /\ ccalls[c].how = "send"
    /\ IF ccalls[c].answer = "error" THEN ccalls' = CReturn(c) /\ UNCHANGED handles
       ELSE /\ handles' = [handles EXCEPT ![ccalls[c].h].mapped = @ \cup {ccalls[c].t}]
            /\ ccalls' = CGoto(c, "activate")
    /\ UNCHANGED <<cscope, table, keys, pool, lock, refs, bridge, bturns, events>>

SetActive(c) ==
    /\ ccalls[c].pc = "activate"
    /\ handles' = [handles EXCEPT ![ccalls[c].h].active = <<"runtime", ccalls[c].t>>]
    /\ bturns' = [bturns EXCEPT ![ccalls[c].t].acked = TRUE]
    /\ ccalls' = CReturn(c)
    /\ UNCHANGED <<cscope, table, keys, pool, lock, refs, bridge, events>>

(* A result of a turn, under its runtime name. *)
WithResult(handle, t, status) ==
    [handle EXCEPT !.done[t] = status, !.mapped = @ \ {t},
                   !.active = IF @ = <<"runtime", t>> THEN None ELSE @]

(* wait_for_turn stores the answer under the turn it was asked for.        *)
StoreAnswer(c) ==
    /\ ccalls[c].pc = "answered" /\ ccalls[c].how = "wait"
    /\ handles' = [handles EXCEPT ![ccalls[c].h] = WithResult(@, ccalls[c].t, ccalls[c].answer)]
    /\ ccalls' = CReturn(c)
    /\ UNCHANGED <<cscope, table, keys, pool, lock, refs, bridge, bturns, events>>

(* Mutant: an error ends the turn and leaves its result to turn.completed. *)
HandledErrorOnly(handle, event) ==
    LET t == event[2]
        name == IF t \in handle.mapped THEN <<"runtime", t>> ELSE <<"bridge", t>>
    IN  IF event[1] = "started" THEN [handle EXCEPT !.active = name]
        ELSE IF event[1] = "error" THEN [handle EXCEPT !.mapped = @ \ {t}]
        ELSE IF name[1] = "runtime" THEN WithResult(handle, t, event[3])
        ELSE [handle EXCEPT !.active = IF @ = name THEN None ELSE @]

(* A turn whose names are not kept (yet, or any more) goes by its bridge   *)
(* name: what is stored under that is never looked for.                    *)
Handled(handle, event) ==
    LET t == event[2]
        name == IF t \in handle.mapped THEN <<"runtime", t>> ELSE <<"bridge", t>>
    IN  IF event[1] = "started" THEN [handle EXCEPT !.active = name]
        ELSE IF name[1] = "runtime" THEN WithResult(handle, t, event[3])
        ELSE [handle EXCEPT !.active = IF @ = name THEN None ELSE @]

handle_bridge_event(k, r) ==
    /\ events[k][r] # <<>>
    /\ events' = [events EXCEPT ![k][r] = Tail(@)]
    /\ handles' = IF keys[k][r] = None THEN handles
                  ELSE [handles EXCEPT ![keys[k][r]] = Handled(@, Head(events[k][r]))]
    /\ UNCHANGED <<cscope, table, keys, pool, lock, refs, bridge, bturns, ccalls>>

(* shutdown_bridges_if_idle *)
CheckIdle(c) ==
    /\ ccalls[c].pc = "check_idle"
    /\ ccalls' = IF \A s \in Sessions : table[s] = None THEN CGoto(c, "shutdown") ELSE CReturn(c)
    /\ UNCHANGED <<cscope, table, keys, handles, pool, lock, refs, bridge, bturns, events>>

-----------------------------------------------------------------------------
CRequest(c) ==
    \/ recycle_after_live_auth_change(c)
    \/ \E s \in cscope.sessions :
          \/ create_session(c, s) \/ resume_session(c, s)
          \/ \E how \in {"resume", "close"} : remove_session(c, s, how)
          \/ \E t \in BTurns, how \in {"send", "wait", "interrupt"} : AskForTurn(c, s, t, how)

CStep(c) ==
    \/ Acquire(c) \/ spawn_bridge_handle(c) \/ RegisterBridge(c) \/ ShutdownBridges(c)
    \/ RemoveKey(c) \/ Unanswered(c) \/ insert_session(c) \/ MapTurn(c) \/ SetActive(c)
    \/ StoreAnswer(c) \/ CheckIdle(c) \/ resolve_bridge_turn_id(c) \/ DropRequest(c)

BridgeStep(c) ==
    OpenSession(c) \/ sendInput(c) \/ interruptTurn(c) \/ waitForTurn(c) \/ closeSession(c)

CNext ==
    \/ \E c \in cscope.calls : CRequest(c) \/ CStep(c) \/ BridgeStep(c)
    \/ \E k \in Bridges : BridgeFails(k) \/ fail_bridge(k)
    \/ \E k \in Bridges, r \in Refs : handle_bridge_event(k, r)
    \/ \E t \in BTurns, status \in Results, error \in BOOLEAN : completeTurn(t, status, error)

CSpec == CInit /\ [][CNext]_cvars

-----------------------------------------------------------------------------
(* Properties *)

(* The shape of the state. *)
CTypeOK ==
    /\ table \in [Sessions -> Handles \cup {None}]
    /\ keys \in [Bridges -> [Refs -> Handles \cup {None}]]
    /\ pool \in [Bridges -> [state : {"none", "open", "closed"}, registered : BOOLEAN,
                             failing : BOOLEAN]]
    /\ lock \in Calls \cup {None} /\ refs \in [Sessions -> Refs \cup {None}]
    /\ \A h \in Handles : handles[h] # None =>
          /\ handles[h].mapped \subseteq BTurns
          /\ handles[h].done \in [BTurns -> Results \cup {None}]
    /\ \A t \in BTurns : bturns[t].result \in Results \cup {None}

(* Every bridge is about to be shut down: recycle_after_live_auth_change   *)
(* and shutdown_bridges_if_idle take the bridges some time after they have *)
(* cleared, or looked at, the sessions.                                    *)
ShuttingDown == \E c \in Calls : ccalls[c].pc = "shutdown"

(* The events of a session's bridge session reach that session: although   *)
(* every bridge counts its sessions from one, a name an earlier bridge     *)
(* gave is resumed on a later one, and the two tables are changed under    *)
(* separate locks, no other session takes the key and no late removal      *)
(* takes it away.  The exception is a bridge that is being given up: when  *)
(* a recycle has cleared both tables, a removal that had begun before may  *)
(* take the key of a session that was resumed since on the old bridge.     *)
EventsReachSession ==
    \A s \in Sessions :
       table[s] # None /\ IsOpen(handles[table[s]].bridge) /\ ~ShuttingDown =>
          keys[handles[table[s]].bridge][handles[table[s]].ref] = table[s]

(* A wait that is out has found what it needs for its turn: the name to    *)
(* ask the bridge for, whether turn.completed and error arrive before,     *)
(* between or after the steps of send_turn.  It asks for a name the bridge *)
(* does not know, in vain, only if the result came between its two looks   *)
(* at the handle, where another wait would find it, or if the session was  *)
(* resumed since, which made a new handle.                                 *)
WaitFindsTurn ==
    \A c \in Calls :
       LET t == ccalls[c].t
           h == ccalls[c].h
       IN  ccalls[c].how = "wait" /\ ccalls[c].pc = "asked" =>
              ccalls[c].answer = "named" \/ handles[h].done[t] # None \/ h # bturns[t].h
=============================================================================
