---------------------------- MODULE TeamDelivery ----------------------------
(***************************************************************************)
(* Team messages on their way to recipients (team_comms): a message makes  *)
(* one delivery per recipient, a delivery is injected as a turn of the     *)
(* recipient's session, in the order of the recipient's queue, or waits    *)
(* until a turn of the recipient ends.  Attempts on one recipient exclude  *)
(* each other by a guard; cancel, retry and deletion of the team take the  *)
(* state lock only and come between any two steps of an attempt.  Records  *)
(* change in memory first and are stored afterwards, one by one, without   *)
(* the lock.  Sessions appear as what the service asks of them.            *)
(***************************************************************************)
EXTENDS Naturals, Sequences

CONSTANTS Messages,    \* messages; a message stands for its idempotency key
          Recipients,  \* sessions that are members of the team
          Tasks,       \* request handlers
          Waker,       \* the task that follows the turn events
          Starter,     \* startup recovery of deferred deliveries
          None,
          Policies,    \* the policies that senders use
          Operations,  \* what clients and sessions do beside sending
          Faults,      \* what may fail
          MaxRetries,  \* bound on the retries of one delivery
          MaxLost,     \* bound on the acknowledgements lost for one delivery
          MaxTurns,    \* bound on the turns that others give to recipients
          MaxBacklog,  \* bound on the turn events the waker has not seen
          MaxCrashes   \* bound on the restarts of the runtime

AllPolicies == {"defer", "boundary", "interrupt"}
AllOperations == {"retry", "cancel", "delete", "turn", "close"}
AllFaults == {"store", "provider", "lag"}

ASSUME TeamConstants ==
    /\ Policies \subseteq AllPolicies
    /\ Operations \subseteq AllOperations
    /\ Faults \subseteq AllFaults
    /\ MaxRetries \in Nat /\ MaxLost \in Nat /\ MaxTurns \in Nat
    /\ MaxBacklog \in Nat /\ MaxCrashes \in Nat
    /\ Waker \notin Tasks /\ Starter \notin Tasks /\ Waker # Starter
    /\ None \notin Tasks \cup {Waker, Starter}
    /\ None \notin Messages \X Recipients
    /\ None \notin {"pending", "deferred", "injecting", "injected", "failed", "cancelled"}

VARIABLES mem,        \* status of each delivery in memory, None if there is none
          known,      \* messages in memory, with their idempotency keys
          rank,       \* created_at of the messages: the order of the queues
          clock,      \* the clock and the id counters, which only grow
          policy,     \* policy of each message
          team,       \* the team in memory: "live" or "deleted"
          disk,       \* status of each delivery in the store
          diskKnown,  \* messages in the store
          diskTeam,   \* the team in the store
          guard,      \* recipient_injection_guards: who injects
          tasks,      \* what each task is doing
          session,    \* the recipients: "idle", "busy" or "closed", or "stuck"
                      \* with an active turn that no task waits for
          wakeups,    \* turn events that the waker has not received
          starting,   \* recipients that startup recovery has still to visit
          sends,      \* how often the recipient took the delivery as a turn
          lost,       \* how often the attempt got an error although it had
          touched,    \* how often a client asked to retry or to cancel the delivery
          turns,      \* turns given by others
          crashes

memory == <<mem, known, rank, clock, policy, team>>
store == <<disk, diskKnown, diskTeam>>
history == <<sends, lost, touched, turns, crashes>>
vars == <<memory, store, guard, tasks, session, wakeups, starting, history>>

Deliveries == Messages \X Recipients
Workers == Tasks \cup {Waker, Starter}

Statuses == {"pending", "deferred", "injecting", "injected", "failed", "cancelled"}
Waiting == {"pending", "deferred"}

(* A session with an active turn. *)
Occupied == {"busy", "stuck"}

is_terminal_status(status) == status \in {"injected", "failed", "cancelled"}

is_valid_transition(current, next) ==
    \/ current \in Waiting /\ next \in Waiting \cup {"injecting", "cancelled"}
    \/ current = "injecting" /\ next \in {"injected", "failed", "deferred"}

Idle == [pc |-> "idle", todo |-> {}, save |-> {}, goal |-> None, cur |-> None, snap |-> None,
         trigger |-> None]

Init ==
    /\ mem = [d \in Deliveries |-> None] /\ known = {}
    /\ rank = [m \in Messages |-> 0] /\ clock = 0
    /\ policy = [m \in Messages |-> None]
    /\ team = "live"
    /\ disk = mem /\ diskKnown = {} /\ diskTeam = "live"
    /\ guard = [r \in Recipients |-> None]
    /\ tasks = [t \in Workers |-> Idle]
    /\ session = [r \in Recipients |-> "idle"]
    /\ wakeups = <<>> /\ starting = {}
    /\ sends = [d \in Deliveries |-> 0] /\ lost = sends /\ touched = sends /\ turns = 0 /\ crashes = 0

(* Requests are served when startup recovery is through. *)
Serving == starting = {} /\ tasks[Starter].pc = "idle"
Accepts(t, op) == Serving /\ tasks[t].pc = "idle" /\ op \in Operations

Goto(t, pc) == tasks' = [tasks EXCEPT ![t].pc = pc]

(* The task has these deliveries to try, one after the other, and is done when none is left. *)
Attempts(t, todo, trigger) ==
    tasks' = [tasks EXCEPT ![t] =
        IF todo = {} THEN Idle
        ELSE [Idle EXCEPT !.pc = "attempt", !.todo = todo, !.trigger = trigger]]
Aim(t, pc, goal) == tasks' = [tasks EXCEPT ![t].pc = pc, ![t].goal = goal]

-----------------------------------------------------------------------------
(* Requests: their section under the state lock *)

(* create_message_and_deliveries; a key that is known already returns what exists. *)
create_message_and_deliveries(t, m, R, p) ==
    /\ Serving /\ tasks[t].pc = "idle"
    /\ team = "live" /\ m \notin known
    /\ \A r \in R : session[r] # "closed"
    /\ mem' = [d \in Deliveries |-> IF d \in {m} \X R THEN "pending" ELSE mem[d]]
    /\ known' = known \cup {m}
    /\ clock' = clock + 1 /\ rank' = [rank EXCEPT ![m] = clock']
    /\ policy' = [policy EXCEPT ![m] = p]
    /\ tasks' = [tasks EXCEPT ![t] =
           [Idle EXCEPT !.pc = "store_message", !.todo = {m} \X R, !.save = {m} \X R,
                        !.goal = "pending", !.trigger = "queue", !.snap = m]]
    /\ UNCHANGED <<team, store, guard, session, wakeups, starting, history>>

retry_delivery(t, d) ==
    /\ Accepts(t, "retry") /\ touched[d] < MaxRetries
    /\ mem[d] \in {"failed", "deferred"}
    /\ mem' = [mem EXCEPT ![d] = "pending"]
    /\ touched' = [touched EXCEPT ![d] = @ + 1]
    /\ tasks' = [tasks EXCEPT ![t] =
           [Idle EXCEPT !.pc = "save", !.todo = {d}, !.save = {d}, !.goal = "pending",
                        !.trigger = "retry"]]
    /\ UNCHANGED <<known, rank, clock, policy, team, store, guard, session, wakeups, starting, sends,
                   lost, turns, crashes>>

DeliveriesOf(m) == {d \in Deliveries : d[1] = m /\ mem[d] # None}

(* All deliveries of a message are cancelled, or none. *)
cancel_message(t, m) ==
    /\ Accepts(t, "cancel") /\ m \in known
    /\ \A d \in DeliveriesOf(m) : mem[d] \in Waiting
    /\ mem' = [d \in Deliveries |-> IF d \in DeliveriesOf(m) THEN "cancelled" ELSE mem[d]]
    /\ touched' = [d \in Deliveries |-> IF d \in DeliveriesOf(m) THEN touched[d] + 1 ELSE touched[d]]
    /\ tasks' = [tasks EXCEPT ![t] =
           [Idle EXCEPT !.pc = "save", !.save = DeliveriesOf(m), !.goal = "cancelled"]]
    /\ UNCHANGED <<known, rank, clock, policy, team, store, guard, session, wakeups, starting, sends,
                   lost, turns, crashes>>

(* The team leaves memory with all its messages; what waited is stored as cancelled. *)
delete_team(t) ==
    /\ Accepts(t, "delete") /\ team = "live"
    /\ team' = "deleted" /\ known' = {}
    /\ mem' = [d \in Deliveries |-> None]
    /\ tasks' = [tasks EXCEPT ![t] =
           [Idle EXCEPT !.pc = "store_team", !.goal = "cancelled",
                        !.save = {d \in Deliveries : mem[d] \in Waiting}]]
    /\ UNCHANGED <<rank, clock, policy, store, guard, session, wakeups, starting, history>>

-----------------------------------------------------------------------------
(* Writes to the store *)

StoreMessage(t) ==
    /\ tasks[t].pc = "store_message"
    /\ diskKnown' = diskKnown \cup {tasks[t].snap}
    /\ Goto(t, "save")
    /\ UNCHANGED <<memory, disk, diskTeam, guard, session, wakeups, starting, history>>

StoreTeam(t) ==
    /\ tasks[t].pc = "store_team"
    /\ diskTeam' = "deleted"
    /\ Goto(t, "save")
    /\ UNCHANGED <<memory, disk, diskKnown, guard, session, wakeups, starting, history>>

upsert_team_delivery(t, d) ==
    /\ tasks[t].pc = "save" /\ d \in tasks[t].save
    /\ disk' = [disk EXCEPT ![d] = tasks[t].goal]
    /\ tasks' = [tasks EXCEPT ![t].save = @ \ {d}]
    /\ UNCHANGED <<memory, diskKnown, diskTeam, guard, session, wakeups, starting, history>>

(* Mutant: the guard is kept. *)
LeaveHoldingGuard(t) ==
    /\ UNCHANGED guard
    /\ Attempts(t, tasks[t].todo, tasks[t].trigger)

(* The attempt on the current delivery is over: the guard is dropped. *)
Leave(t) ==
    /\ guard' = [guard EXCEPT ![tasks[t].cur[2]] = None]
    /\ Attempts(t, tasks[t].todo, tasks[t].trigger)

(* Everything is stored: a request goes on to its attempts, an attempt to its send. *)
Saved(t) ==
    /\ tasks[t].pc = "save" /\ tasks[t].save = {}
    /\ \/ /\ tasks[t].cur = None
          /\ Attempts(t, tasks[t].todo, tasks[t].trigger)
          /\ UNCHANGED guard
       \/ /\ tasks[t].cur # None /\ tasks[t].goal = "injecting"
          /\ tasks' = [tasks EXCEPT ![t].pc = "send_turn", ![t].snap = "injecting"]
          /\ UNCHANGED guard
       \/ /\ tasks[t].cur # None /\ tasks[t].goal # "injecting"
          /\ Leave(t)
    /\ UNCHANGED <<memory, store, session, wakeups, starting, history>>

(* A write fails: a request returns the error, an attempt ends with it. *)
StoreFails(t) ==
    /\ "store" \in Faults
    /\ \/ tasks[t].pc \in {"store_message", "store_team"}
       \/ tasks[t].pc = "save" /\ tasks[t].save # {}
    /\ \/ /\ tasks[t].cur = None
          /\ tasks' = [tasks EXCEPT ![t] = Idle]
          /\ UNCHANGED guard
       \/ /\ tasks[t].cur # None
          /\ Leave(t)
    /\ UNCHANGED <<memory, store, session, wakeups, starting, history>>

-----------------------------------------------------------------------------
(* An attempt to inject a delivery *)

Precedes(d, e) == d[2] = e[2] /\ rank[d[1]] < rank[e[1]]

(* Mutant: a deferred delivery does not count. *)
blocker_not_deferred(d) ==
    \E e \in Deliveries : Precedes(e, d) /\ mem[e] \in {"pending", "injecting"}

(* find_recipient_queue_blocker: an earlier delivery to the recipient is not through. *)
find_recipient_queue_blocker(d) ==
    \E e \in Deliveries : /\ Precedes(e, d)
                          /\ mem[e] # None /\ ~is_terminal_status(mem[e])

(* The delivery of the list that is tried next: lists are in queue order. *)
IsNext(t, d) == d \in tasks[t].todo /\ ~\E e \in tasks[t].todo : Precedes(e, d)

(* The delivery is gone or no longer waits, or is deferred and still blocked. *)
NothingToDo(d) ==
    \/ mem[d] \notin Waiting
    \/ mem[d] = "deferred" /\ find_recipient_queue_blocker(d)

Skip(t, d) ==
    /\ tasks[t].pc = "attempt" /\ IsNext(t, d)
    /\ mem[d] = None \/ guard[d[2]] = None
    /\ NothingToDo(d)
    /\ Attempts(t, tasks[t].todo \ {d}, tasks[t].trigger)
    /\ UNCHANGED <<memory, store, guard, session, wakeups, starting, history>>

(* inject_delivery: takes the guard, then reads the delivery and what is before it. *)
inject_delivery(t, d) ==
    /\ tasks[t].pc = "attempt" /\ IsNext(t, d)
    /\ guard[d[2]] = None
    /\ ~NothingToDo(d)
    /\ guard' = [guard EXCEPT ![d[2]] = t]
    /\ tasks' = [tasks EXCEPT
           ![t].todo = @ \ {d}, ![t].cur = d, ![t].snap = mem[d],
           ![t].goal = IF find_recipient_queue_blocker(d) THEN "deferred" ELSE None,
           ![t].pc = IF find_recipient_queue_blocker(d) THEN "transition" ELSE "recipient"]
    /\ UNCHANGED <<memory, store, session, wakeups, starting, history>>

MayInterrupt(t) ==
    \/ policy[tasks[t].cur[1]] = "interrupt"
    \/ policy[tasks[t].cur[1]] = "boundary" /\ tasks[t].trigger = "boundary"

(* Mutant: the status of the session is taken for that of the delivery. *)
CheckRecipientStatus(t) ==
    /\ tasks[t].pc = "recipient"
    /\ Aim(t, "transition", session[tasks[t].cur[2]])
    /\ UNCHANGED <<memory, store, guard, session, wakeups, starting, history>>

(* What the state of the recipient makes of the attempt. *)
CheckRecipient(t) ==
    /\ tasks[t].pc = "recipient"
    /\ LET state == session[tasks[t].cur[2]]
       IN  \/ state = "closed" /\ Aim(t, "transition", "failed")
           \/ state \in Occupied /\ ~MayInterrupt(t) /\ Aim(t, "transition", "deferred")
           \/ state \in Occupied /\ MayInterrupt(t) /\ Goto(t, "interrupt")
           \/ state = "idle" /\ Aim(t, "transition", "injecting")
    /\ UNCHANGED <<memory, store, guard, session, wakeups, starting, history>>

(* The interrupt is only asked for; it is refused when the turn has just ended. *)
InterruptRecipient(t) ==
    /\ tasks[t].pc = "interrupt"
    /\ \/ /\ session[tasks[t].cur[2]] \in Occupied
          /\ Aim(t, "transition", "injecting")
          /\ UNCHANGED guard
       \/ /\ session[tasks[t].cur[2]] # "busy" \/ "provider" \in Faults
          /\ Leave(t)
    /\ UNCHANGED <<memory, store, session, wakeups, starting, history>>

(* Mutant: injecting is stored with the result of the send. *)
TransitionSavedLater(t, d, from, to) ==
    \/ /\ is_valid_transition(from, to) /\ mem[d] = from
       /\ mem' = [mem EXCEPT ![d] = to]
       /\ tasks' = [tasks EXCEPT ![t].pc = IF to = "injecting" THEN "send_turn" ELSE "save",
                                ![t].save = {d}, ![t].snap = to]
       /\ UNCHANGED guard
    \/ /\ ~(is_valid_transition(from, to) /\ mem[d] = from)
       /\ Leave(t)
       /\ UNCHANGED mem

(* transition_delivery_status: compare and set under the state lock.  An   *)
(* injection goes on when the comparison fails.                            *)
Transition(t, d, from, to) ==
    \/ /\ is_valid_transition(from, to) /\ mem[d] = from
       /\ mem' = [mem EXCEPT ![d] = to]
       /\ tasks' = [tasks EXCEPT ![t].pc = "save", ![t].save = {d}]
       /\ UNCHANGED guard
    \/ /\ is_valid_transition(from, to) /\ mem[d] \notin {from, None} /\ to = "injecting"
       /\ tasks' = [tasks EXCEPT ![t].pc = "send_turn", ![t].snap = mem[d]]
       /\ UNCHANGED <<mem, guard>>
    \/ /\ is_valid_transition(from, to) => mem[d] # from /\ (mem[d] = None \/ to # "injecting")
       /\ Leave(t)
       /\ UNCHANGED mem

transition_delivery_status(t) ==
    /\ tasks[t].pc = "transition"
    /\ Transition(t, tasks[t].cur, tasks[t].snap, tasks[t].goal)
    /\ UNCHANGED <<known, rank, clock, policy, team, store, session, wakeups, starting, history>>

(* An event of the turn's end, for the waker as long as its loop runs. *)
Wake(r) == wakeups' = IF tasks[Waker].pc = "dead" THEN wakeups ELSE Append(wakeups, r)

(* runtime.send_turn: a session that is not idle answers InvalidState. *)
SendTurn(t) ==
    /\ tasks[t].pc = "send_turn"
    /\ LET d == tasks[t].cur
       IN  \/ /\ session[d[2]] = "idle"
              /\ session' = [session EXCEPT ![d[2]] = "busy"]
              /\ sends' = [sends EXCEPT ![d] = @ + 1]
              /\ Aim(t, "transition", "injected")
           \/ /\ session[d[2]] # "idle"
              /\ Aim(t, "transition", "deferred")
              /\ UNCHANGED <<session, sends>>
    /\ UNCHANGED <<memory, store, guard, wakeups, starting, lost, touched, turns, crashes>>

(* The recipient has the turn, but the attempt is not told. *)
Taken(d) ==
    /\ lost[d] < MaxLost
    /\ lost' = [lost EXCEPT ![d] = @ + 1] /\ sends' = [sends EXCEPT ![d] = @ + 1]

(* Mutant: an error is taken for an answer. *)
ErrorIgnored(t) ==
    /\ "provider" \in Faults /\ tasks[t].pc = "send_turn"
    /\ LET d == tasks[t].cur
       IN  /\ session[d[2]] = "idle" /\ Len(wakeups) < MaxBacklog
           /\ Taken(d) \/ UNCHANGED <<lost, sends>>
           /\ Wake(d[2])
    /\ Aim(t, "transition", "injected")
    /\ UNCHANGED <<memory, store, guard, session, starting, touched, turns, crashes>>

(***************************************************************************)
(* The provider answers with an error.  It may have taken the turn: a      *)
(* timeout is an InvalidState too, a broken pipe is not.  The turn is      *)
(* recorded as failed, the session stays writable, and turn.failed is an   *)
(* event that the waker follows.                                           *)
(***************************************************************************)
ProviderErrs(t) ==
    /\ "provider" \in Faults /\ tasks[t].pc = "send_turn"
    /\ LET d == tasks[t].cur
       IN  /\ session[d[2]] = "idle" /\ Len(wakeups) < MaxBacklog
           /\ Taken(d) \/ UNCHANGED <<lost, sends>>
           /\ Wake(d[2])
    /\ \E goal \in {"deferred", "failed"} : Aim(t, "transition", goal)
    /\ UNCHANGED <<memory, store, guard, session, starting, touched, turns, crashes>>

(* A write of send_turn fails, whatever the provider has answered.  After  *)
(* the turn was published, as active, its task is never spawned.           *)
SendIsNotStored(t) ==
    /\ "store" \in Faults /\ tasks[t].pc = "send_turn"
    /\ LET d == tasks[t].cur
       IN  /\ session[d[2]] = "idle"
           /\ \/ UNCHANGED <<lost, sends, session>>
              \/ Taken(d) /\ UNCHANGED session
              \/ Taken(d) /\ session' = [session EXCEPT ![d[2]] = "stuck"]
    /\ Aim(t, "transition", "failed")
    /\ UNCHANGED <<memory, store, guard, wakeups, starting, touched, turns, crashes>>

-----------------------------------------------------------------------------
(* Deferred deliveries are tried again *)

(* Mutant: the deliveries that nobody has tried. *)
PendingFor(r) == {d \in Deliveries : d[2] = r /\ mem[d] = "pending"}

(* What waits for a turn of the recipient to end. *)
DeferredFor(r) == {d \in Deliveries : d[2] = r /\ mem[d] = "deferred"}

(* resume_deferred_for_recipient, called by the waker for a turn that has ended. *)
resume_deferred_for_recipient ==
    /\ tasks[Waker].pc = "idle" /\ wakeups # <<>>
    /\ wakeups' = Tail(wakeups)
    /\ Attempts(Waker, DeferredFor(Head(wakeups)), "boundary")
    /\ UNCHANGED <<memory, store, guard, session, starting, history>>

(* The receiver has lagged behind the event channel: the loop of the waker ends. *)
WakerLags ==
    /\ "lag" \in Faults /\ tasks[Waker].pc = "idle" /\ wakeups # <<>>
    /\ wakeups' = <<>> /\ Goto(Waker, "dead")
    /\ UNCHANGED <<memory, store, guard, session, starting, history>>

recover_startup_deferred_deliveries(r) ==
    /\ r \in starting /\ tasks[Starter].pc = "idle"
    /\ starting' = starting \ {r}
    /\ Attempts(Starter, IF session[r] = "idle" THEN DeferredFor(r) ELSE {}, "startup")
    /\ UNCHANGED <<memory, store, guard, session, wakeups, history>>

-----------------------------------------------------------------------------
(* Sessions *)

TurnEnds(r) ==
    /\ session[r] = "busy" /\ Len(wakeups) < MaxBacklog
    /\ session' = [session EXCEPT ![r] = "idle"]
    /\ Wake(r)
    /\ UNCHANGED <<memory, store, guard, tasks, starting, history>>

(* Somebody else gives the recipient a turn, or closes it. *)
SessionChanges(r) ==
    /\ \/ /\ "turn" \in Operations /\ session[r] = "idle" /\ turns < MaxTurns
          /\ session' = [session EXCEPT ![r] = "busy"] /\ turns' = turns + 1
       \/ /\ "close" \in Operations /\ session[r] # "closed"
          /\ session' = [session EXCEPT ![r] = "closed"] /\ UNCHANGED turns
    /\ UNCHANGED <<memory, store, guard, tasks, wakeups, starting, sends, lost, touched, crashes>>

(* Mutant: what was being injected is tried again. *)
HydratedForRetry(d) ==
    CASE diskTeam = "live" /\ d[1] \in diskKnown /\ disk[d] = "injecting" -> "deferred"
      [] diskTeam = "live" /\ d[1] \in diskKnown /\ disk[d] # "injecting" -> disk[d]
      [] OTHER -> None

(* RuntimeTeamCommsService::new: messages and deliveries of live teams are read back. *)
Hydrated(d) == IF diskTeam = "live" /\ d[1] \in diskKnown THEN disk[d] ELSE None

(* The process dies.  Turns that were running go on or have ended. *)
Crash ==
    /\ crashes < MaxCrashes /\ crashes' = crashes + 1
    /\ mem' = [d \in Deliveries |-> Hydrated(d)]
    /\ known' = IF diskTeam = "live" THEN diskKnown ELSE {}
    /\ team' = diskTeam
    /\ guard' = [r \in Recipients |-> None]
    /\ tasks' = [t \in Workers |-> Idle]
    /\ session' \in [Recipients -> {"idle", "busy", "closed"}]
    /\ \A r \in Recipients :
          session'[r] \in IF session[r] \in Occupied THEN {"busy", "idle"} ELSE {session[r]}
    /\ wakeups' = <<>>
    /\ starting' = {r \in Recipients : \E m \in Messages : Hydrated(<<m, r>>) # None}
    /\ UNCHANGED <<rank, clock, policy, store, sends, lost, touched, turns>>

-----------------------------------------------------------------------------
Request(t) ==
    \/ \E m \in Messages, R \in SUBSET Recipients, p \in Policies :
          create_message_and_deliveries(t, m, R, p)
    \/ \E d \in Deliveries : retry_delivery(t, d)
    \/ \E m \in Messages : cancel_message(t, m)
    \/ delete_team(t)

(* What a task does next by itself, once it is scheduled. *)
Attempt(t) == \E d \in Deliveries : Skip(t, d) \/ inject_delivery(t, d)
Step(t) ==
    \/ StoreMessage(t) \/ StoreTeam(t)
    \/ \E d \in Deliveries : upsert_team_delivery(t, d)
    \/ Saved(t) \/ CheckRecipient(t) \/ InterruptRecipient(t)
    \/ transition_delivery_status(t) \/ SendTurn(t)
SendErrs(t) == ProviderErrs(t) \/ SendIsNotStored(t)

Next ==
    \/ \E t \in Tasks : Request(t)
    \/ \E t \in Workers : Step(t) \/ Attempt(t) \/ StoreFails(t) \/ SendErrs(t)
    \/ resume_deferred_for_recipient \/ WakerLags
    \/ \E r \in Recipients :
          recover_startup_deferred_deliveries(r) \/ TurnEnds(r) \/ SessionChanges(r)
    \/ Crash

Spec == Init /\ [][Next]_vars

(* Tasks are scheduled, the guards are fair mutexes, and turns end. *)
Fairness ==
    /\ \A t \in Workers : WF_vars(Step(t)) /\ SF_vars(Attempt(t))
    /\ WF_vars(resume_deferred_for_recipient)
    /\ \A r \in Recipients : WF_vars(recover_startup_deferred_deliveries(r)) /\ WF_vars(TurnEnds(r))

FairSpec == Spec /\ Fairness

-----------------------------------------------------------------------------
(* Properties *)

TaskType ==
    [pc : {"idle", "dead", "store_message", "store_team", "save", "attempt", "recipient",
           "interrupt", "transition", "send_turn"},
     todo : SUBSET Deliveries, save : SUBSET Deliveries, goal : Statuses \cup {None},
     cur : Deliveries \cup {None}, snap : Statuses \cup Messages \cup {None},
     trigger : {"queue", "retry", "boundary", "startup", None}]

(* The shape of the state. *)
TypeOK ==
    /\ mem \in [Deliveries -> Statuses \cup {None}] /\ disk \in [Deliveries -> Statuses \cup {None}]
    /\ known \subseteq Messages /\ diskKnown \subseteq Messages
    /\ clock \in Nat /\ rank \in [Messages -> Nat] /\ policy \in [Messages -> Policies \cup {None}]
    /\ team \in {"live", "deleted"} /\ diskTeam \in {"live", "deleted"}
    /\ guard \in [Recipients -> Workers \cup {None}]
    /\ tasks \in [Workers -> TaskType]
    /\ session \in [Recipients -> {"idle", "busy", "stuck", "closed"}]
    /\ wakeups \in Seq(Recipients) /\ starting \subseteq Recipients
    /\ sends \in [Deliveries -> Nat] /\ lost \in [Deliveries -> Nat]
    /\ touched \in [Deliveries -> Nat]
    /\ turns \in Nat /\ crashes \in Nat

(***************************************************************************)
(* Whatever crashes, repeated sends of one key, wake-ups and attempts come *)
(* together, the recipient takes a delivery as a turn once, and once more  *)
(* for each retry or cancellation asked for meanwhile (the recipient       *)
(* guard) and for each send that reported an error although the turn was   *)
(* taken (a timeout of the provider, a write of send_turn that failed).    *)
(***************************************************************************)
SentOnce == \A d \in Deliveries : sends[d] <= 1 + touched[d] + lost[d]

(* What startup recovery will send was not sent since the last request, or *)
(* its send reported an error: the store says injecting before the         *)
(* recipient is given the turn, and deferred only after an error.          *)
RecoveryRepeatsNothing ==
    \A d \in Deliveries : disk[d] = "deferred" => sends[d] <= touched[d] + lost[d]

(* A delivery that is called injected, in memory or in the store, has      *)
(* become a turn of its recipient.                                         *)
InjectedWasSent ==
    \A d \in Deliveries : mem[d] = "injected" \/ disk[d] = "injected" => sends[d] > 0

(* A message is given to its recipient only when each earlier one in the   *)
(* queue is through or was called back by a retry.                         *)
QueueOrder ==
    [][\A d \in Deliveries : sends'[d] > sends[d] =>
          \A e \in Deliveries : Precedes(e, d) =>
             mem[e] = None \/ is_terminal_status(mem[e]) \/ touched[e] > 0]_vars

(* Every request returns, although attempts wait for guards that are held  *)
(* across calls to the session manager.                                    *)
RequestsReturn == \A t \in Tasks : tasks[t].pc # "idle" ~> tasks[t].pc = "idle"

(* A deferred delivery at the head of its queue is resumed when the turn   *)
(* that its recipient still runs has ended (the waker, turn events).       *)
HeadIsResumed ==
    \A d \in Deliveries :
       mem[d] = "deferred" /\ session[d[2]] = "busy" /\ ~find_recipient_queue_blocker(d)
          ~> mem[d] # "deferred" \/ session[d[2]] = "closed"

(* A delivery that was deferred because its recipient was busy is resumed  *)
(* when the turns of the recipient have ended.                             *)
DeferredIsResumed == \A d \in Deliveries : mem[d] = "deferred" ~> mem[d] # "deferred"
=============================================================================
