------------------------- MODULE TeamDeliveryProofs -------------------------
(***************************************************************************)
(* Proofs about TeamDelivery for any messages, recipients, handlers,       *)
(* policies, operations and faults, and any number of retries, turns and   *)
(* restarts.                                                               *)
(***************************************************************************)
EXTENDS TeamDelivery, TLAPS

-----------------------------------------------------------------------------
(* The inductive invariant *)

(* The delivery may be sent once more without a new request: what was sent *)
(* before was called back or reported an error.                            *)
Unspent(d) == sends[d] <= touched[d] + lost[d]

(* A client has called the delivery back since it could be sent last. *)
Recalled(d) == sends[d] < touched[d] + lost[d]

(* Nothing before the delivery waits, except what a client has called back. *)
HeadOfQueue(d) ==
    \A e \in Deliveries : Precedes(e, d) => mem[e] = None \/ is_terminal_status(mem[e]) \/ touched[e] > 0

(* The attempt may yet find that the delivery is to be injected. *)
Deciding(t) ==
    \/ tasks[t].pc \in {"recipient", "interrupt"}
    \/ tasks[t].pc = "transition" /\ tasks[t].goal = "injecting"

(* What an attempt knows of its delivery: while it holds the guard, only   *)
(* clients change the delivery, and they leave a trace when they do.       *)
AttemptOK(t) ==
    LET d == tasks[t].cur
        pc == tasks[t].pc
        goal == tasks[t].goal
        snap == tasks[t].snap
    IN  /\ guard[d[2]] = t /\ d[1] \in diskKnown /\ tasks[t].save \subseteq {d}
        /\ pc \in {"recipient", "interrupt", "transition", "save", "send_turn"}
        /\ goal = "injected" => sends[d] > 0
        /\ goal # "injected" => Unspent(d)
        /\ pc = "send_turn" => goal = "injecting"
        /\ Deciding(t) =>
              /\ snap \in Waiting /\ goal # "injected"
              /\ mem[d] \in {snap, None} \/ (mem[d] \in {"pending", "cancelled"} /\ Recalled(d))
        /\ pc = "save" /\ goal = "injecting" =>
              mem[d] \in {"injecting", None} /\ (tasks[t].save = {} => disk[d] # "deferred")
        /\ pc = "send_turn" =>
              \/ snap = "injecting" /\ mem[d] \in {"injecting", None} /\ disk[d] # "deferred"
              \/ Recalled(d)
        /\ Deciding(t) \/ goal = "injecting" => HeadOfQueue(d)

(* What a task is about to do. *)
TaskOK(t) ==
    /\ tasks[t].pc \in {"recipient", "interrupt", "transition", "send_turn"} => tasks[t].cur # None
    /\ tasks[t].pc = "store_message" =>
          tasks[t].snap \in Messages /\ (team = "live" => tasks[t].snap \in known)
    /\ \A d \in tasks[t].todo : \/ d[1] \in diskKnown
                                \/ tasks[t].pc = "store_message" /\ d[1] = tasks[t].snap
    /\ tasks[t].pc = "attempt" => tasks[t].save = {}
    /\ tasks[t].cur = None => tasks[t].goal \in {None, "pending", "cancelled"}
    /\ tasks[t].cur # None => AttemptOK(t)

(* What was sent or tried is stored with its message, and the clock is     *)
(* ahead of the queues.                                                    *)
StoredOK ==
    /\ team = "live" => diskKnown \subseteq known
    /\ \A m \in Messages : rank[m] <= clock
    /\ \A d \in Deliveries : sends[d] > 0 \/ mem[d] \in {"deferred", "failed"} => d[1] \in diskKnown

(* What may still be tried has not been sent. *)
WaitingOK ==
    \A d \in Deliveries :
        /\ mem[d] = "deferred" => Unspent(d)
        /\ mem[d] = "pending" /\ (\E t \in Workers : d \in tasks[t].todo) => Unspent(d)

IInv ==
    /\ TypeOK /\ StoredOK /\ WaitingOK /\ (\A t \in Workers : TaskOK(t))
    /\ SentOnce /\ RecoveryRepeatsNothing /\ InjectedWasSent
-----------------------------------------------------------------------------
(* Facts about the model *)

(* A delivery is a message and its recipient. *)
LEMMA DeliveryFacts ==
    /\ None \notin Deliveries /\ None \notin Statuses /\ None \notin Workers
    /\ \A d \in Deliveries : d[1] \in Messages /\ d[2] \in Recipients
BY TeamConstants DEF Deliveries, Statuses, Workers

(* A worker that does nothing. *)
LEMMA IdleFacts ==
    /\ Idle \in TaskType /\ Idle.pc = "idle" /\ Idle.todo = {} /\ Idle.save = {}
    /\ Idle.goal = None /\ Idle.cur = None /\ Idle.snap = None
BY DEF Idle, TaskType

(* The state of a worker that turns to a list of deliveries. *)
LEMMA AttemptsFacts ==
    ASSUME TypeOK, NEW t \in Workers, NEW todo \in SUBSET Deliveries,
           NEW trigger \in {"queue", "retry", "boundary", "startup", None}, Attempts(t, todo, trigger)
    PROVE  /\ tasks' \in [Workers -> TaskType]
           /\ \A u \in Workers : u # t => tasks'[u] = tasks[u]
           /\ tasks'[t].pc \in {"idle", "attempt"} /\ tasks'[t].todo = todo /\ tasks'[t].save = {}
           /\ tasks'[t].cur = None /\ tasks'[t].goal = None
<1> DEFINE busy == [Idle EXCEPT !.pc = "attempt", !.todo = todo, !.trigger = trigger]
<1>1. /\ busy \in TaskType /\ busy.pc = "attempt" /\ busy.todo = todo /\ busy.save = {}
      /\ busy.cur = None /\ busy.goal = None
  BY DEF Idle, TaskType
<1>2. tasks' = [tasks EXCEPT ![t] = IF todo = {} THEN Idle ELSE busy]
  BY DEF Attempts
<1> HIDE DEF busy
<1>3. tasks'[t] = IF todo = {} THEN Idle ELSE busy
  BY <1>2 DEF TypeOK
<1>4. tasks' \in [Workers -> TaskType] /\ \A u \in Workers : u # t => tasks'[u] = tasks[u]
  BY <1>1, <1>2, IdleFacts DEF TypeOK
<1>5. CASE todo = {}
  BY <1>3, <1>4, <1>5, IdleFacts
<1>6. CASE todo # {}
  BY <1>1, <1>3, <1>4, <1>6
<1> QED
  BY <1>5, <1>6

(* A worker between two attempts knows only its list. *)
LEMMA ListIsOK ==
    ASSUME NEW t \in Workers, tasks'[t].pc \in {"idle", "attempt"}, tasks'[t].cur = None,
           tasks'[t].goal = None, tasks'[t].save = {}, \A d \in tasks'[t].todo : d[1] \in diskKnown'
    PROVE  TaskOK(t)'
BY DEF TaskOK

-----------------------------------------------------------------------------
(* What the others may do while a worker is in the middle of an attempt *)

Frame(u) ==
    /\ tasks'[u] = tasks[u] /\ diskKnown \subseteq diskKnown'
    /\ team' = "live" => team = "live" /\ known \subseteq known'
    /\ tasks[u].cur # None =>
          LET d == tasks[u].cur
          IN  /\ guard'[d[2]] = guard[d[2]]
              /\ sends'[d] = sends[d] /\ lost'[d] = lost[d] /\ touched[d] <= touched'[d]
              /\ \/ mem'[d] \in {mem[d], None}
                 \/ /\ mem[d] \in {"pending", "deferred", "failed"} /\ mem'[d] \in {"pending", "cancelled"}
                    /\ touched[d] < touched'[d]
              /\ disk'[d] = "deferred" => disk[d] = "deferred"
              /\ HeadOfQueue(d) => HeadOfQueue(d)'

LEMMA Framed ==
    ASSUME TypeOK, TypeOK', NEW u \in Workers, TaskOK(u), Frame(u)
    PROVE  TaskOK(u)'
<1>1. CASE tasks[u].cur = None
  BY <1>1 DEF TaskOK, Frame
<1>2. CASE tasks[u].cur # None
  <2> DEFINE d == tasks[u].cur
  <2>1. d \in Deliveries /\ tasks'[u] = tasks[u] /\ AttemptOK(u) /\ d[2] \in Recipients
    BY <1>2, DeliveryFacts DEF TypeOK, TaskType, Frame, TaskOK
  <2>2. /\ sends[d] \in Nat /\ touched[d] \in Nat /\ sends'[d] = sends[d]
        /\ lost[d] \in Nat /\ lost'[d] = lost[d] /\ touched'[d] \in Nat /\ touched[d] <= touched'[d]
    BY <1>2, <2>1 DEF TypeOK, Frame
  <2>3. /\ Unspent(d) => Unspent(d)'
        /\ Recalled(d) => Recalled(d)'
        /\ Unspent(d) /\ touched[d] < touched'[d] => Recalled(d)'
    BY <2>1, <2>2 DEF Unspent, Recalled
  <2>4. /\ \/ mem'[d] \in {mem[d], None}
           \/ /\ mem[d] \in {"pending", "deferred", "failed"} /\ mem'[d] \in {"pending", "cancelled"}
              /\ touched[d] < touched'[d]
        /\ disk'[d] = "deferred" => disk[d] = "deferred"
        /\ HeadOfQueue(d) => HeadOfQueue(d)'
        /\ guard'[d[2]] = guard[d[2]] /\ diskKnown \subseteq diskKnown'
    BY <1>2 DEF Frame
  <2>5. Deciding(u)' <=> Deciding(u)
    BY <2>1 DEF Deciding
  <2> HIDE DEF d
  <2>6. AttemptOK(u)'
    <3>1. d' = d
      BY <2>1 DEF d
    <3>2. /\ guard'[d[2]] = u /\ d[1] \in diskKnown' /\ tasks'[u].save \subseteq {d}
          /\ tasks'[u].pc \in {"recipient", "interrupt", "transition", "save", "send_turn"}
          /\ tasks'[u].goal = "injected" => sends'[d] > 0
          /\ tasks'[u].goal # "injected" => Unspent(d)'
          /\ tasks'[u].pc = "send_turn" => tasks'[u].goal = "injecting"
      BY <2>1, <2>2, <2>3, <2>4, <3>1 DEF AttemptOK, d
    <3>3. Deciding(u)' =>
              /\ tasks'[u].snap \in Waiting /\ tasks'[u].goal # "injected"
              /\ mem'[d] \in {tasks'[u].snap, None} \/ (mem'[d] \in {"pending", "cancelled"} /\ Recalled(d)')
      <4>1. Deciding(u) => Unspent(d)
        BY <2>1 DEF AttemptOK, d
      <4> QED
        BY <2>1, <2>3, <2>4, <2>5, <4>1 DEF AttemptOK, d
    <3>4. tasks'[u].pc = "save" /\ tasks'[u].goal = "injecting" =>
              mem'[d] \in {"injecting", None} /\ (tasks'[u].save = {} => disk'[d] # "deferred")
      BY <2>1, <2>4, DeliveryFacts DEF AttemptOK, d, Statuses
    <3>5. tasks'[u].pc = "send_turn" =>
              \/ tasks'[u].snap = "injecting" /\ mem'[d] \in {"injecting", None} /\ disk'[d] # "deferred"
              \/ Recalled(d)'
      BY <2>1, <2>3, <2>4, DeliveryFacts DEF AttemptOK, d, Statuses
    <3>6. Deciding(u)' \/ tasks'[u].goal = "injecting" => HeadOfQueue(d)'
      BY <2>1, <2>4, <2>5 DEF AttemptOK, d
    <3> QED
      BY <3>1, <3>2, <3>3, <3>4, <3>5, <3>6 DEF AttemptOK, d
  <2> QED
    BY <1>2, <2>1, <2>4, <2>6 DEF TaskOK, Frame
<1> QED
  BY <1>1, <1>2

(* Attempts exclude each other: what one sends or stores is its own. *)
LEMMA Exclusive ==
    ASSUME TypeOK, NEW t \in Workers, NEW u \in Workers, TaskOK(t), TaskOK(u),
           tasks[t].cur # None, tasks[u].cur # None, tasks[t].cur[2] = tasks[u].cur[2]
    PROVE  t = u
BY DEF TaskOK, AttemptOK

(* The head of a queue stays the head while what is before it ends, leaves *)
(* or is called back.                                                      *)
LEMMA QueueFrame ==
    ASSUME NEW d \in Deliveries, HeadOfQueue(d), rank' = rank,
           \A e \in Deliveries : \/ mem'[e] \in {mem[e], None} \/ is_terminal_status(mem'[e])
                                 \/ touched'[e] > 0,
           \A e \in Deliveries : touched[e] > 0 => touched'[e] > 0
    PROVE  HeadOfQueue(d)'
BY DEF HeadOfQueue, Precedes

(* A step of a worker that leaves deliveries alone. *)
LEMMA Quiet ==
    ASSUME IInv, TypeOK', NEW t \in Workers, TaskOK(t)',
           UNCHANGED <<memory, disk, diskKnown, sends, lost, touched>>,
           \A u \in Workers : u # t => tasks'[u] = tasks[u],
           \A r \in Recipients : guard'[r] = guard[r] \/ guard[r] \in {None, t},
           \A d \in tasks'[t].todo : d \in tasks[t].todo \/ mem[d] # "pending"
    PROVE  IInv'
<1> USE DEF memory
<1>1. StoredOK'
  BY DEF IInv, StoredOK
<1>2. WaitingOK'
  BY DEF IInv, WaitingOK, Unspent
<1>3. ASSUME NEW u \in Workers, u # t
      PROVE  TaskOK(u)'
  <2>1. TaskOK(u) /\ tasks[u] \in TaskType
    BY DEF IInv, TypeOK
  <2>2. ASSUME tasks[u].cur # None
        PROVE  /\ guard'[tasks[u].cur[2]] = guard[tasks[u].cur[2]]
               /\ HeadOfQueue(tasks[u].cur) => HeadOfQueue(tasks[u].cur)'
               /\ touched'[tasks[u].cur] = touched[tasks[u].cur] /\ touched[tasks[u].cur] \in Nat
    <3>1. tasks[u].cur \in Deliveries /\ guard[tasks[u].cur[2]] = u
      BY <2>1, <2>2 DEF TaskOK, AttemptOK, TaskType
    <3>2. tasks[u].cur[2] \in Recipients /\ u # None
      BY <3>1, DeliveryFacts
    <3>3. touched[tasks[u].cur] \in Nat
      BY <3>1 DEF IInv, TypeOK
    <3> QED
      BY <1>3, <3>1, <3>2, <3>3 DEF HeadOfQueue, Precedes
  <2>3. Frame(u)
    BY <1>3, <2>2 DEF Frame
  <2> QED
    BY <2>1, <2>3, Framed DEF IInv
<1>4. SentOnce' /\ RecoveryRepeatsNothing' /\ InjectedWasSent'
  BY DEF IInv, SentOnce, RecoveryRepeatsNothing, InjectedWasSent
<1> QED
  BY <1>1, <1>2, <1>3, <1>4 DEF IInv

(* A worker turns to a list of deliveries that are stored. *)
LEMMA TurnsToList ==
    ASSUME IInv, NEW t \in Workers, NEW todo \in SUBSET Deliveries,
           NEW trigger \in {"queue", "retry", "boundary", "startup", None}, Attempts(t, todo, trigger),
           \A d \in todo : d[1] \in diskKnown,
           \A d \in todo : d \in tasks[t].todo \/ mem[d] # "pending",
           \/ UNCHANGED guard
           \/ tasks[t].cur # None /\ guard' = [guard EXCEPT ![tasks[t].cur[2]] = None],
           UNCHANGED <<memory, store, session, history>>,
           wakeups' \in Seq(Recipients), starting' \in SUBSET Recipients
    PROVE  IInv'
<1> USE DEF memory, store, history
<1>1. TypeOK
  BY DEF IInv
<1>2. /\ tasks' \in [Workers -> TaskType]
      /\ \A u \in Workers : u # t => tasks'[u] = tasks[u]
      /\ tasks'[t].pc \in {"idle", "attempt"} /\ tasks'[t].todo = todo /\ tasks'[t].save = {}
      /\ tasks'[t].cur = None /\ tasks'[t].goal = None
  BY <1>1, AttemptsFacts
<1>3. TaskOK(t)'
  BY <1>2, ListIsOK
<1>4. /\ guard' \in [Recipients -> Workers \cup {None}]
      /\ \A r \in Recipients : guard'[r] = guard[r] \/ guard[r] \in {None, t}
  <2>1. CASE UNCHANGED guard
    BY <1>1, <2>1 DEF TypeOK
  <2>2. CASE tasks[t].cur # None /\ guard' = [guard EXCEPT ![tasks[t].cur[2]] = None]
    <3>1. guard[tasks[t].cur[2]] = t
      BY <2>2 DEF IInv, TaskOK, AttemptOK
    <3> QED
      BY <1>1, <2>2, <3>1 DEF TypeOK
  <2> QED
    BY <2>1, <2>2
<1>5. TypeOK'
  BY <1>1, <1>2, <1>4 DEF TypeOK
<1> QED
  BY <1>2, <1>3, <1>4, <1>5, Quiet

(* What a worker has on its list, once it is not at its first store. *)
LEMMA ListFacts ==
    ASSUME IInv, NEW t \in Workers
    PROVE  /\ tasks[t].todo \in SUBSET Deliveries
           /\ tasks[t].trigger \in {"queue", "retry", "boundary", "startup", None}
           /\ tasks[t].pc # "store_message" => \A d \in tasks[t].todo : d[1] \in diskKnown
           /\ tasks[t].cur # None => /\ tasks[t].cur \in Deliveries /\ AttemptOK(t)
                                     /\ tasks[t].pc # "store_message"
           /\ wakeups \in Seq(Recipients) /\ starting \in SUBSET Recipients
BY DEF IInv, TypeOK, TaskType, TaskOK, AttemptOK

(* An attempt ends. *)
LEMMA Leaves ==
    ASSUME IInv, NEW t \in Workers, tasks[t].cur # None, Leave(t),
           UNCHANGED <<memory, store, session, wakeups, starting, history>>
    PROVE  IInv'
<1>1. /\ Attempts(t, tasks[t].todo, tasks[t].trigger)
      /\ guard' = [guard EXCEPT ![tasks[t].cur[2]] = None]
  BY DEF Leave
<1> QED
  BY <1>1, ListFacts, TurnsToList

(* A worker goes on with another pc and goal. *)
LEMMA AimFacts ==
    ASSUME TypeOK, NEW t \in Workers,
           NEW pc \in {"save", "interrupt", "transition", "dead"}, NEW goal \in Statuses \cup {None},
           \/ Aim(t, pc, goal)
           \/ Goto(t, pc) /\ goal = tasks[t].goal
    PROVE  /\ tasks' \in [Workers -> TaskType]
           /\ \A u \in Workers : u # t => tasks'[u] = tasks[u]
           /\ tasks'[t].pc = pc /\ tasks'[t].goal = goal /\ tasks'[t].cur = tasks[t].cur
           /\ tasks'[t].snap = tasks[t].snap /\ tasks'[t].save = tasks[t].save
           /\ tasks'[t].todo = tasks[t].todo
<1>0. tasks[t] \in TaskType
  BY DEF TypeOK
<1>1. CASE Aim(t, pc, goal)
  <2> DEFINE k == [tasks[t] EXCEPT !.pc = pc, !.goal = goal]
  <2>1. /\ k \in TaskType /\ k.pc = pc /\ k.goal = goal /\ k.cur = tasks[t].cur /\ k.snap = tasks[t].snap
        /\ k.save = tasks[t].save /\ k.todo = tasks[t].todo
    BY <1>0 DEF TaskType
  <2>2. tasks' = [tasks EXCEPT ![t] = k]
    BY <1>1 DEF Aim
  <2> HIDE DEF k
  <2> QED
    BY <2>1, <2>2 DEF TypeOK
<1>2. CASE Goto(t, pc) /\ goal = tasks[t].goal
  <2> DEFINE k == [tasks[t] EXCEPT !.pc = pc]
  <2>1. /\ k \in TaskType /\ k.pc = pc /\ k.goal = tasks[t].goal /\ k.cur = tasks[t].cur
        /\ k.snap = tasks[t].snap /\ k.save = tasks[t].save /\ k.todo = tasks[t].todo
    BY <1>0 DEF TaskType
  <2>2. tasks' = [tasks EXCEPT ![t] = k]
    BY <1>2 DEF Goto
  <2> HIDE DEF k
  <2> QED
    BY <1>2, <2>1, <2>2 DEF TypeOK
<1> QED
  BY <1>1, <1>2

(* What the recipient is doing decides about the next step of an attempt. *)
LEMMA Redirects ==
    ASSUME IInv, NEW t \in Workers, Deciding(t),
           NEW pc, NEW goal, \/ Aim(t, pc, goal)
                             \/ Goto(t, pc) /\ goal = tasks[t].goal,
           \/ pc = "transition" /\ goal \in {"failed", "deferred", "injecting"}
           \/ pc = "interrupt" /\ goal = tasks[t].goal,
           UNCHANGED <<memory, store, guard, session, wakeups, starting, history>>
    PROVE  IInv'
<1> USE DEF memory, store, history
<1>1. TypeOK /\ tasks[t] \in TaskType /\ goal \in Statuses \cup {None}
  BY DEF IInv, TypeOK, TaskType, Statuses
<1>2. /\ tasks' \in [Workers -> TaskType]
      /\ \A u \in Workers : u # t => tasks'[u] = tasks[u]
      /\ tasks'[t].pc = pc /\ tasks'[t].goal = goal /\ tasks'[t].cur = tasks[t].cur
      /\ tasks'[t].snap = tasks[t].snap /\ tasks'[t].save = tasks[t].save
      /\ tasks'[t].todo = tasks[t].todo
  BY <1>1, AimFacts
<1>3. TypeOK'
  BY <1>1, <1>2 DEF TypeOK
<1>4. tasks[t].cur # None /\ AttemptOK(t) /\ TaskOK(t)
  BY DEF IInv, TaskOK, Deciding
<1>5. HeadOfQueue(tasks[t].cur)'
  BY <1>2, <1>4 DEF AttemptOK, HeadOfQueue, Precedes
<1>6. AttemptOK(t)'
  BY <1>2, <1>4, <1>5 DEF AttemptOK, Deciding, Unspent, Recalled
<1>7. TaskOK(t)'
  BY <1>2, <1>4, <1>6 DEF TaskOK, Deciding
<1> QED
  BY <1>2, <1>3, <1>7, Quiet

LEMMA ChecksRecipient == ASSUME IInv, NEW t \in Workers, CheckRecipient(t) PROVE IInv'
<1>1. Deciding(t)
  BY DEF CheckRecipient, Deciding
<1>2. PICK pc, goal : /\ Aim(t, pc, goal) \/ (Goto(t, pc) /\ goal = tasks[t].goal)
                      /\ \/ pc = "transition" /\ goal \in {"failed", "deferred", "injecting"}
                         \/ pc = "interrupt" /\ goal = tasks[t].goal
  BY DEF CheckRecipient
<1>3. UNCHANGED <<memory, store, guard, session, wakeups, starting, history>>
  BY DEF CheckRecipient
<1> QED
  BY <1>1, <1>2, <1>3, Redirects

LEMMA InterruptsRecipient == ASSUME IInv, NEW t \in Workers, InterruptRecipient(t) PROVE IInv'
<1>1. Deciding(t) /\ tasks[t].cur # None
  BY DEF InterruptRecipient, Deciding, IInv, TaskOK
<1>2. CASE Aim(t, "transition", "injecting") /\ UNCHANGED guard
  <2>1. UNCHANGED <<memory, store, guard, session, wakeups, starting, history>>
    BY <1>2 DEF InterruptRecipient
  <2> QED
    BY <1>1, <1>2, <2>1, Redirects
<1>3. CASE Leave(t)
  BY <1>1, <1>3, Leaves DEF InterruptRecipient
<1> QED
  BY <1>2, <1>3 DEF InterruptRecipient

(* An attempt begins. *)
LEMMA Injects ==
    ASSUME IInv, NEW t \in Workers, NEW d \in Deliveries, inject_delivery(t, d)
    PROVE  IInv'
<1> USE DEF memory, store, history
<1>1. TypeOK /\ tasks[t] \in TaskType /\ tasks[t].pc = "attempt" /\ d \in tasks[t].todo
      /\ guard[d[2]] = None /\ d[2] \in Recipients /\ mem[d] \in Waiting
  BY DeliveryFacts DEF IInv, TypeOK, inject_delivery, IsNext, NothingToDo
<1>2. Unspent(d) /\ d[1] \in diskKnown /\ tasks[t].save = {}
  BY <1>1, ListFacts DEF IInv, WaitingOK, TaskOK, Waiting
<1> DEFINE goal == IF find_recipient_queue_blocker(d) THEN "deferred" ELSE None
           pc == IF find_recipient_queue_blocker(d) THEN "transition" ELSE "recipient"
<1>a. tasks' = [tasks EXCEPT ![t].todo = @ \ {d}, ![t].cur = d, ![t].snap = mem[d],
                             ![t].goal = goal, ![t].pc = pc]
  BY DEF inject_delivery
<1>3. /\ goal \in {"deferred", None} /\ pc \in {"transition", "recipient"}
      /\ pc = "transition" => goal = "deferred"
      /\ pc = "recipient" => ~find_recipient_queue_blocker(d) /\ goal = None
  OBVIOUS
<1> HIDE DEF goal, pc
<1>4. /\ tasks' \in [Workers -> TaskType]
      /\ \A u \in Workers : u # t => tasks'[u] = tasks[u]
      /\ tasks'[t].pc = pc /\ tasks'[t].goal = goal /\ tasks'[t].cur = d
      /\ tasks'[t].snap = mem[d] /\ tasks'[t].save = {} /\ tasks'[t].todo = tasks[t].todo \ {d}
  <2>1. mem[d] \in Statuses /\ goal \in Statuses \cup {None}
    BY <1>1, <1>3 DEF Waiting, Statuses
  <2> DEFINE k == [tasks[t] EXCEPT !.todo = @ \ {d}, !.cur = d, !.snap = mem[d], !.goal = goal, !.pc = pc]
  <2>2. /\ k \in TaskType /\ k.pc = pc /\ k.goal = goal /\ k.cur = d /\ k.snap = mem[d]
        /\ k.save = tasks[t].save /\ k.todo = tasks[t].todo \ {d}
    BY <1>1, <1>3, <2>1 DEF TaskType
  <2>3. tasks' = [tasks EXCEPT ![t] = k]
    BY <1>a
  <2> HIDE DEF k
  <2> QED
    BY <1>1, <1>2, <2>2, <2>3 DEF TypeOK
<1>5. /\ guard' = [guard EXCEPT ![d[2]] = t]
      /\ UNCHANGED <<memory, store, session, wakeups, starting, history>>
  BY DEF inject_delivery
<1>6. TypeOK'
  BY <1>1, <1>4, <1>5 DEF TypeOK
<1>7. guard'[d[2]] = t
  BY <1>1, <1>5 DEF TypeOK
<1>8. pc = "recipient" => HeadOfQueue(d)'
  BY <1>3, <1>5 DEF HeadOfQueue, find_recipient_queue_blocker, Precedes
<1>9. AttemptOK(t)'
  <2>1. goal \notin {"injected", "injecting"}
    BY <1>3, DeliveryFacts DEF Statuses
  <2>2. Deciding(t)' <=> pc = "recipient"
    BY <1>3, <1>4, <2>1 DEF Deciding
  <2>3. Unspent(d)'
    BY <1>2, <1>5 DEF Unspent
  <2> QED
    BY <1>1, <1>2, <1>3, <1>4, <1>5, <1>7, <1>8, <2>1, <2>2, <2>3 DEF AttemptOK
<1>10. TaskOK(t)'
  <2>1. \A e \in tasks'[t].todo : e[1] \in diskKnown'
    BY <1>1, <1>4, <1>5, ListFacts
  <2> QED
    BY <1>3, <1>4, <1>9, <2>1, DeliveryFacts DEF TaskOK
<1>11. \A r \in Recipients : guard'[r] = guard[r] \/ guard[r] \in {None, t}
  BY <1>1, <1>5 DEF TypeOK
<1> QED
  BY <1>4, <1>5, <1>6, <1>10, <1>11, Quiet

LEMMA Skips == ASSUME IInv, NEW t \in Workers, NEW d \in Deliveries, Skip(t, d) PROVE IInv'
<1>1. /\ Attempts(t, tasks[t].todo \ {d}, tasks[t].trigger) /\ tasks[t].pc = "attempt"
      /\ UNCHANGED <<memory, store, guard, session, wakeups, starting, history>>
  BY DEF Skip
<1>2. tasks[t].todo \ {d} \in SUBSET Deliveries
  BY ListFacts
<1> QED
  BY <1>1, <1>2, ListFacts, TurnsToList

LEMMA Saves == ASSUME IInv, NEW t \in Workers, Saved(t) PROVE IInv'
<1> USE DEF memory, store, history
<1>1. /\ tasks[t].pc = "save" /\ tasks[t].save = {}
      /\ UNCHANGED <<memory, store, session, wakeups, starting, history>>
  BY DEF Saved
<1>2. CASE Attempts(t, tasks[t].todo, tasks[t].trigger) /\ UNCHANGED guard
  BY <1>1, <1>2, ListFacts, TurnsToList
<1>3. CASE /\ tasks[t].cur # None /\ tasks[t].goal = "injecting" /\ UNCHANGED guard
           /\ tasks' = [tasks EXCEPT ![t].pc = "send_turn", ![t].snap = "injecting"]
  <2>1. TypeOK /\ tasks[t] \in TaskType /\ TaskOK(t) /\ AttemptOK(t)
    BY <1>3 DEF IInv, TypeOK, TaskOK
  <2>2. /\ tasks' \in [Workers -> TaskType]
        /\ \A u \in Workers : u # t => tasks'[u] = tasks[u]
        /\ tasks'[t].pc = "send_turn" /\ tasks'[t].goal = "injecting" /\ tasks'[t].cur = tasks[t].cur
        /\ tasks'[t].snap = "injecting" /\ tasks'[t].save = {} /\ tasks'[t].todo = tasks[t].todo
    BY <1>1, <1>3, <2>1 DEF TypeOK, TaskType, Statuses
  <2>3. TypeOK'
    BY <1>1, <1>3, <2>1, <2>2 DEF TypeOK
  <2>4. HeadOfQueue(tasks[t].cur)'
    BY <1>1, <1>3, <2>1, <2>2 DEF AttemptOK, HeadOfQueue, Precedes
  <2>5. AttemptOK(t)'
    BY <1>1, <1>3, <2>1, <2>2, <2>4 DEF AttemptOK, Deciding, Unspent
  <2>6. TaskOK(t)'
    BY <1>1, <1>3, <2>1, <2>2, <2>5 DEF TaskOK
  <2> QED
    BY <1>1, <1>3, <2>2, <2>3, <2>6, Quiet
<1>4. CASE tasks[t].cur # None /\ Leave(t)
  BY <1>1, <1>4, Leaves
<1> QED
  BY <1>2, <1>3, <1>4 DEF Saved

LEMMA StoreErrors == ASSUME IInv, NEW t \in Workers, StoreFails(t) PROVE IInv'
<1>1. UNCHANGED <<memory, store, session, wakeups, starting, history>>
  BY DEF StoreFails
<1>2. CASE tasks' = [tasks EXCEPT ![t] = Idle] /\ UNCHANGED guard
  <2>1. Attempts(t, {}, None)
    BY <1>2 DEF Attempts
  <2> QED
    BY <1>1, <1>2, <2>1, ListFacts, TurnsToList
<1>3. CASE tasks[t].cur # None /\ Leave(t)
  BY <1>1, <1>3, Leaves
<1> QED
  BY <1>2, <1>3 DEF StoreFails

(* Steps that change neither deliveries nor workers. *)
LEMMA Unaffected ==
    ASSUME IInv, TypeOK', UNCHANGED <<memory, store, guard, tasks, sends, lost, touched>>
    PROVE  IInv'
<1> USE DEF memory, store
<1>1. StoredOK' /\ WaitingOK'
  BY DEF IInv, StoredOK, WaitingOK, Unspent
<1>2. ASSUME NEW t \in Workers PROVE TaskOK(t)'
  <2>1. TaskOK(t)
    BY DEF IInv
  <2> QED
    BY <2>1 DEF TaskOK, AttemptOK, Deciding, HeadOfQueue, Precedes, Unspent, Recalled
<1>3. SentOnce' /\ RecoveryRepeatsNothing' /\ InjectedWasSent'
  BY DEF IInv, SentOnce, RecoveryRepeatsNothing, InjectedWasSent
<1> QED
  BY <1>1, <1>2, <1>3 DEF IInv

LEMMA TurnsEnd == ASSUME IInv, NEW r \in Recipients, TurnEnds(r) PROVE IInv'
<1> USE DEF memory, store, history
<1>1. TypeOK'
  <2>1. wakeups' \in Seq(Recipients)
    BY DEF TurnEnds, Wake, IInv, TypeOK
  <2> QED
    BY <2>1 DEF TurnEnds, IInv, TypeOK
<1> QED
  BY <1>1, Unaffected DEF TurnEnds

LEMMA SessionsChange == ASSUME IInv, NEW r \in Recipients, SessionChanges(r) PROVE IInv'
<1> USE DEF memory, store, history
<1>1. TypeOK'
  <2>1. session' \in [Recipients -> {"idle", "busy", "stuck", "closed"}] /\ turns' \in Nat
    <3>1. PICK s \in {"busy", "closed"} : session' = [session EXCEPT ![r] = s]
      BY DEF SessionChanges
    <3>2. turns' = turns \/ turns' = turns + 1
      BY DEF SessionChanges
    <3> QED
      BY <3>1, <3>2 DEF IInv, TypeOK
  <2>2. UNCHANGED <<memory, store, guard, tasks, wakeups, starting, sends, lost, touched, crashes>>
    BY DEF SessionChanges
  <2> QED
    BY <2>1, <2>2 DEF IInv, TypeOK
<1> QED
  BY <1>1, Unaffected DEF SessionChanges

(* The lists of the waker and of startup recovery are deferred deliveries. *)
LEMMA DeferredFacts ==
    ASSUME IInv, NEW r
    PROVE  /\ DeferredFor(r) \in SUBSET Deliveries
           /\ \A d \in DeferredFor(r) : mem[d] # "pending" /\ d[1] \in diskKnown
BY DEF DeferredFor, IInv, StoredOK

LEMMA Wakes == ASSUME IInv, resume_deferred_for_recipient PROVE IInv'
<1>1. /\ Attempts(Waker, DeferredFor(Head(wakeups)), "boundary") /\ wakeups' = Tail(wakeups)
      /\ wakeups # <<>> /\ UNCHANGED <<memory, store, guard, session, starting, history>>
  BY DEF resume_deferred_for_recipient
<1>2. wakeups' \in Seq(Recipients) /\ starting' \in SUBSET Recipients /\ Waker \in Workers
  BY <1>1 DEF IInv, TypeOK, Workers
<1> QED
  BY <1>1, <1>2, DeferredFacts, TurnsToList

LEMMA Recovers ==
    ASSUME IInv, NEW r \in Recipients, recover_startup_deferred_deliveries(r)
    PROVE  IInv'
<1> DEFINE todo == IF session[r] = "idle" THEN DeferredFor(r) ELSE {}
<1>1. /\ Attempts(Starter, todo, "startup") /\ starting' = starting \ {r}
      /\ UNCHANGED <<memory, store, guard, session, wakeups, history>>
  BY DEF recover_startup_deferred_deliveries
<1>2. wakeups' \in Seq(Recipients) /\ starting' \in SUBSET Recipients /\ Starter \in Workers
  BY <1>1 DEF IInv, TypeOK, Workers
<1>3. todo \in SUBSET Deliveries /\ \A d \in todo : mem[d] # "pending" /\ d[1] \in diskKnown
  BY DeferredFacts
<1> HIDE DEF todo
<1> QED
  BY <1>1, <1>2, <1>3, TurnsToList

LEMMA Lags == ASSUME IInv, WakerLags PROVE IInv'
<1> USE DEF memory, store, history
<1>1. /\ Goto(Waker, "dead") /\ wakeups' = <<>> /\ tasks[Waker].pc = "idle"
      /\ UNCHANGED <<memory, store, guard, session, starting, history>>
  BY DEF WakerLags
<1>2. Waker \in Workers /\ TypeOK /\ TaskOK(Waker) /\ tasks[Waker].goal \in Statuses \cup {None}
  BY DEF Workers, IInv, TypeOK, TaskType
<1>3. /\ tasks' \in [Workers -> TaskType]
      /\ \A u \in Workers : u # Waker => tasks'[u] = tasks[u]
      /\ tasks'[Waker].pc = "dead" /\ tasks'[Waker].goal = tasks[Waker].goal
      /\ tasks'[Waker].cur = tasks[Waker].cur /\ tasks'[Waker].todo = tasks[Waker].todo
  BY <1>1, <1>2, AimFacts
<1>4. TypeOK'
  BY <1>1, <1>2, <1>3 DEF TypeOK
<1>5. TaskOK(Waker)'
  BY <1>1, <1>2, <1>3 DEF TaskOK, AttemptOK
<1> QED
  BY <1>1, <1>2, <1>3, <1>4, <1>5, Quiet

-----------------------------------------------------------------------------
(* Writes to the store *)

LEMMA StoresTeam == ASSUME IInv, NEW t \in Workers, StoreTeam(t) PROVE IInv'
<1> USE DEF memory, history
<1>1. /\ Goto(t, "save") /\ tasks[t].pc = "store_team" /\ diskTeam' = "deleted"
      /\ UNCHANGED <<memory, disk, diskKnown, guard, session, wakeups, starting, history>>
  BY DEF StoreTeam
<1>2. TypeOK /\ TaskOK(t) /\ tasks[t].goal \in Statuses \cup {None}
  BY DEF IInv, TypeOK, TaskType
<1>3. /\ tasks' \in [Workers -> TaskType]
      /\ \A u \in Workers : u # t => tasks'[u] = tasks[u]
      /\ tasks'[t].pc = "save" /\ tasks'[t].goal = tasks[t].goal
      /\ tasks'[t].cur = tasks[t].cur /\ tasks'[t].todo = tasks[t].todo
  BY <1>1, <1>2, AimFacts
<1>4. TypeOK'
  BY <1>1, <1>2, <1>3 DEF TypeOK
<1>5. TaskOK(t)'
  BY <1>1, <1>2, <1>3 DEF TaskOK, AttemptOK
<1> QED
  BY <1>1, <1>2, <1>3, <1>4, <1>5, Quiet

LEMMA StoresMessage == ASSUME IInv, NEW t \in Workers, StoreMessage(t) PROVE IInv'
<1> USE DEF memory, history
<1>1. /\ Goto(t, "save") /\ tasks[t].pc = "store_message"
      /\ diskKnown' = diskKnown \cup {tasks[t].snap}
      /\ UNCHANGED <<memory, disk, diskTeam, guard, session, wakeups, starting, history>>
  BY DEF StoreMessage
<1>2. TypeOK /\ TaskOK(t) /\ tasks[t].goal \in Statuses \cup {None}
  BY DEF IInv, TypeOK, TaskType
<1>3. /\ tasks' \in [Workers -> TaskType]
      /\ \A u \in Workers : u # t => tasks'[u] = tasks[u]
      /\ tasks'[t].pc = "save" /\ tasks'[t].goal = tasks[t].goal
      /\ tasks'[t].cur = tasks[t].cur /\ tasks'[t].todo = tasks[t].todo
  BY <1>1, <1>2, AimFacts
<1>4. TypeOK'
  BY <1>1, <1>2, <1>3 DEF TypeOK, TaskOK
<1>5. TaskOK(t)'
  BY <1>1, <1>2, <1>3 DEF TaskOK, AttemptOK
<1>6. ASSUME NEW u \in Workers PROVE TaskOK(u)'
  <2>1. TaskOK(u)
    BY DEF IInv
  <2>2. CASE u # t
    <3>1. ASSUME tasks[u].cur # None
          PROVE  touched[tasks[u].cur] \in Nat /\ (HeadOfQueue(tasks[u].cur) => HeadOfQueue(tasks[u].cur)')
      <4>1. tasks[u].cur \in Deliveries /\ tasks'[u].cur = tasks[u].cur
        BY <1>3, <2>2, <3>1, ListFacts
      <4>2. touched[tasks[u].cur] \in Nat
        BY <4>1 DEF IInv, TypeOK
      <4> QED
        BY <1>1, <4>1, <4>2 DEF HeadOfQueue, Precedes
    <3>2. Frame(u)
      BY <1>1, <1>3, <2>2, <3>1 DEF Frame
    <3> QED
      BY <1>2, <1>4, <2>1, <3>2, Framed
  <2> QED
    BY <1>5, <2>2
<1>7. StoredOK'
  BY <1>1, <1>2 DEF IInv, StoredOK, TaskOK
<1>8. WaitingOK'
  BY <1>1, <1>3 DEF IInv, WaitingOK, Unspent
<1>9. SentOnce' /\ RecoveryRepeatsNothing' /\ InjectedWasSent'
  BY <1>1 DEF IInv, SentOnce, RecoveryRepeatsNothing, InjectedWasSent
<1> QED
  BY <1>4, <1>6, <1>7, <1>8, <1>9 DEF IInv

LEMMA StoresDelivery ==
    ASSUME IInv, NEW t \in Workers, NEW d \in Deliveries, upsert_team_delivery(t, d)
    PROVE  IInv'
<1> USE DEF memory, history
<1>1. /\ tasks[t].pc = "save" /\ d \in tasks[t].save
      /\ disk' = [disk EXCEPT ![d] = tasks[t].goal]
      /\ tasks' = [tasks EXCEPT ![t].save = @ \ {d}]
      /\ UNCHANGED <<memory, diskKnown, diskTeam, guard, session, wakeups, starting, history>>
  BY DEF upsert_team_delivery
<1>2. TypeOK /\ TaskOK(t) /\ tasks[t].goal \in Statuses \cup {None} /\ tasks[t] \in TaskType
  BY DEF IInv, TypeOK, TaskType
<1>3. /\ tasks' \in [Workers -> TaskType]
      /\ \A u \in Workers : u # t => tasks'[u] = tasks[u]
      /\ tasks'[t].pc = "save" /\ tasks'[t].goal = tasks[t].goal /\ tasks'[t].cur = tasks[t].cur
      /\ tasks'[t].todo = tasks[t].todo /\ tasks'[t].snap = tasks[t].snap
      /\ tasks'[t].save = tasks[t].save \ {d}
  <2> DEFINE k == [tasks[t] EXCEPT !.save = @ \ {d}]
  <2>1. /\ k \in TaskType /\ k.pc = tasks[t].pc /\ k.goal = tasks[t].goal /\ k.cur = tasks[t].cur
        /\ k.snap = tasks[t].snap /\ k.save = tasks[t].save \ {d} /\ k.todo = tasks[t].todo
    BY <1>2 DEF TaskType
  <2>2. tasks' = [tasks EXCEPT ![t] = k]
    BY <1>1
  <2> HIDE DEF k
  <2> QED
    BY <1>1, <1>2, <2>1, <2>2 DEF TypeOK
<1>4. TypeOK'
  BY <1>1, <1>2, <1>3 DEF TypeOK
<1>5. \A e \in Deliveries : disk'[e] = IF e = d THEN tasks[t].goal ELSE disk[e]
  BY <1>1, <1>2 DEF TypeOK
<1>6. tasks[t].cur # None => AttemptOK(t) /\ d = tasks[t].cur
  BY <1>1, <1>2 DEF TaskOK, AttemptOK
<1>7. tasks[t].goal \in {"deferred", "injected", "injecting"} => tasks[t].cur # None
  BY <1>2, DeliveryFacts DEF TaskOK, Statuses
<1>8. ASSUME NEW u \in Workers, tasks[u].cur # None
      PROVE  /\ tasks[u].cur \in Deliveries /\ touched[tasks[u].cur] \in Nat
             /\ HeadOfQueue(tasks[u].cur) => HeadOfQueue(tasks[u].cur)'
  <2>1. tasks[u].cur \in Deliveries /\ tasks'[u].cur = tasks[u].cur
    BY <1>3, <1>8, ListFacts
  <2>2. touched[tasks[u].cur] \in Nat
    BY <2>1 DEF IInv, TypeOK
  <2> QED
    BY <1>1, <2>1, <2>2 DEF HeadOfQueue, Precedes
<1>9. TaskOK(t)'
  <2>1. CASE tasks[t].cur = None
    BY <1>1, <1>2, <1>3, <2>1 DEF TaskOK
  <2>2. CASE tasks[t].cur # None
    <3>1. d[2] \in Recipients /\ Deciding(t)' = FALSE
      BY <1>3, DeliveryFacts DEF Deciding
    <3>2. Unspent(d) => Unspent(d)'
      BY <1>1 DEF Unspent
    <3>3. AttemptOK(t)'
      BY <1>1, <1>3, <1>5, <1>6, <1>8, <2>2, <3>1, <3>2 DEF AttemptOK
    <3> QED
      BY <1>1, <1>2, <1>3, <2>2, <3>3 DEF TaskOK
  <2> QED
    BY <2>1, <2>2
<1>10. ASSUME NEW u \in Workers, u # t PROVE TaskOK(u)'
  <2>1. TaskOK(u)
    BY DEF IInv
  <2>2. ASSUME tasks[u].cur # None, disk'[tasks[u].cur] = "deferred"
        PROVE  disk[tasks[u].cur] = "deferred"
    <3>1. tasks[u].cur \in Deliveries
      BY <1>8, <2>2
    <3>2. CASE tasks[u].cur = d /\ tasks[t].goal = "deferred"
      BY <1>2, <1>6, <1>7, <1>10, <2>1, <2>2, <3>2, Exclusive
    <3> QED
      BY <1>5, <2>2, <3>1, <3>2
  <2>3. Frame(u)
    BY <1>1, <1>3, <1>8, <1>10, <2>2 DEF Frame
  <2> QED
    BY <1>2, <1>4, <2>1, <2>3, Framed
<1>11. StoredOK'
  BY <1>1 DEF IInv, StoredOK
<1>12. WaitingOK'
  BY <1>1, <1>3 DEF IInv, WaitingOK, Unspent
<1>13. SentOnce'
  BY <1>1 DEF IInv, SentOnce
<1>14. RecoveryRepeatsNothing'
  BY <1>1, <1>5, <1>6, <1>7 DEF IInv, RecoveryRepeatsNothing, AttemptOK, Unspent
<1>15. InjectedWasSent'
  BY <1>1, <1>5, <1>6, <1>7 DEF IInv, InjectedWasSent, AttemptOK
<1> QED
  BY <1>4, <1>9, <1>10, <1>11, <1>12, <1>13, <1>14, <1>15 DEF IInv

-----------------------------------------------------------------------------
(* The steps of an attempt that change its delivery *)

LEMMA Transitions == ASSUME IInv, NEW t \in Workers, transition_delivery_status(t) PROVE IInv'
<1> USE DEF memory, store, history
<1> DEFINE d == tasks[t].cur
           from == tasks[t].snap
           to == tasks[t].goal
<1>1. /\ tasks[t].pc = "transition" /\ Transition(t, d, from, to)
      /\ UNCHANGED <<known, rank, clock, policy, team, store, session, wakeups, starting, history>>
  BY DEF transition_delivery_status
<1>2. /\ TypeOK /\ TaskOK(t) /\ tasks[t] \in TaskType /\ d # None /\ d \in Deliveries /\ AttemptOK(t)
      /\ d[2] \in Recipients
  BY <1>1, ListFacts, DeliveryFacts DEF IInv, TypeOK, TaskOK
<1> HIDE DEF d, from, to
<1>3. CASE UNCHANGED mem /\ Leave(t)
  BY <1>1, <1>2, <1>3, Leaves DEF d
<1>4. CASE /\ mem[d] \notin {from, None} /\ to = "injecting"
           /\ tasks' = [tasks EXCEPT ![t].pc = "send_turn", ![t].snap = mem[d]]
           /\ UNCHANGED <<mem, guard>>
  <2>1. /\ tasks' \in [Workers -> TaskType]
        /\ \A u \in Workers : u # t => tasks'[u] = tasks[u]
        /\ tasks'[t].pc = "send_turn" /\ tasks'[t].goal = "injecting" /\ tasks'[t].cur = d
        /\ tasks'[t].snap = mem[d] /\ tasks'[t].todo = tasks[t].todo /\ tasks'[t].save = tasks[t].save
    <3> DEFINE k == [tasks[t] EXCEPT !.pc = "send_turn", !.snap = mem[d]]
    <3>1. mem[d] \in Statuses
      BY <1>2, <1>4 DEF TypeOK
    <3>2. /\ k \in TaskType /\ k.pc = "send_turn" /\ k.goal = tasks[t].goal /\ k.cur = tasks[t].cur
          /\ k.snap = mem[d] /\ k.save = tasks[t].save /\ k.todo = tasks[t].todo
      BY <1>2, <3>1 DEF TaskType
    <3>3. tasks' = [tasks EXCEPT ![t] = k]
      BY <1>4
    <3> HIDE DEF k
    <3> QED
      BY <1>2, <1>4, <3>2, <3>3 DEF TypeOK, d, to
  <2>2. TypeOK'
    BY <1>1, <1>2, <1>4, <2>1 DEF TypeOK
  <2>3. Recalled(d) /\ Unspent(d) /\ HeadOfQueue(d)
    BY <1>1, <1>2, <1>4 DEF AttemptOK, Deciding, d, from, to
  <2>4. d' = d
    BY <2>1 DEF d
  <2>5. Recalled(d)' /\ Unspent(d)' /\ HeadOfQueue(d)'
    BY <1>1, <1>4, <2>3, <2>4 DEF Recalled, Unspent, HeadOfQueue, Precedes
  <2>6. AttemptOK(t)'
    BY <1>1, <1>2, <1>4, <2>1, <2>4, <2>5 DEF AttemptOK, Deciding, d
  <2>7. TaskOK(t)'
    BY <1>1, <1>2, <2>1, <2>6 DEF TaskOK
  <2> QED
    BY <1>1, <1>4, <2>1, <2>2, <2>7, Quiet
<1>5. CASE /\ is_valid_transition(from, to) /\ mem[d] = from
           /\ mem' = [mem EXCEPT ![d] = to]
           /\ tasks' = [tasks EXCEPT ![t].pc = "save", ![t].save = {d}]
           /\ UNCHANGED guard
  <2>1. /\ tasks' \in [Workers -> TaskType]
        /\ \A u \in Workers : u # t => tasks'[u] = tasks[u]
        /\ tasks'[t].pc = "save" /\ tasks'[t].goal = to /\ tasks'[t].cur = d
        /\ tasks'[t].todo = tasks[t].todo /\ tasks'[t].save = {d}
    <3> DEFINE k == [tasks[t] EXCEPT !.pc = "save", !.save = {d}]
    <3>1. /\ k \in TaskType /\ k.pc = "save" /\ k.goal = tasks[t].goal /\ k.cur = tasks[t].cur
          /\ k.save = {d} /\ k.todo = tasks[t].todo
      BY <1>2 DEF TaskType
    <3>2. tasks' = [tasks EXCEPT ![t] = k]
      BY <1>5
    <3> HIDE DEF k
    <3> QED
      BY <1>2, <3>1, <3>2 DEF TypeOK, d, to
  <2>2. /\ to \in {"pending", "deferred", "injecting", "cancelled", "injected", "failed"}
        /\ to \in {"pending", "cancelled"} => from \in Waiting
        /\ to = "injecting" => from \in Waiting
        /\ from \in Waiting \cup {"injecting"}
    BY <1>5 DEF is_valid_transition, Waiting
  <2>3. TypeOK'
    <3>1. mem' \in [Deliveries -> Statuses \cup {None}]
      BY <1>2, <1>5, <2>2 DEF TypeOK, Statuses
    <3> QED
      BY <1>1, <1>2, <1>5, <2>1, <3>1 DEF TypeOK
  <2>4. \A e \in Deliveries : mem'[e] = IF e = d THEN to ELSE mem[e]
    BY <1>2, <1>5 DEF TypeOK
  <2>5. ASSUME NEW e \in Deliveries, HeadOfQueue(e)
        PROVE  \A f \in Deliveries : Precedes(f, e)' =>
                  mem'[f] = None \/ is_terminal_status(mem'[f]) \/ touched'[f] > 0
    <3>1. ASSUME Precedes(d, e)
          PROVE  is_terminal_status(to) \/ touched[d] > 0
      <4>1. mem[d] = None \/ is_terminal_status(mem[d]) \/ touched[d] > 0
        BY <1>2, <2>5, <3>1 DEF HeadOfQueue
      <4> QED
        BY <1>5, <2>2, <4>1, DeliveryFacts DEF is_terminal_status, Waiting, Statuses
    <3> QED
      BY <1>1, <2>4, <2>5, <3>1 DEF HeadOfQueue, Precedes
  <2>6. ASSUME NEW u \in Workers, u # t PROVE TaskOK(u)'
    <3>1. TaskOK(u)
      BY DEF IInv
    <3>2. ASSUME tasks[u].cur # None
          PROVE  /\ mem'[tasks[u].cur] = mem[tasks[u].cur] /\ touched[tasks[u].cur] \in Nat
                 /\ HeadOfQueue(tasks[u].cur) => HeadOfQueue(tasks[u].cur)'
      <4>1. tasks[u].cur \in Deliveries /\ tasks'[u].cur = tasks[u].cur
        BY <2>1, <2>6, <3>2, ListFacts
      <4>2. tasks[u].cur # d
        BY <1>2, <2>6, <3>1, <3>2, Exclusive DEF d
      <4>3. touched[tasks[u].cur] \in Nat
        BY <4>1 DEF IInv, TypeOK
      <4>4. HeadOfQueue(tasks[u].cur) => HeadOfQueue(tasks[u].cur)'
        BY <2>5, <4>1 DEF HeadOfQueue
      <4> QED
        BY <2>4, <4>1, <4>2, <4>3, <4>4
    <3>3. Frame(u)
      BY <1>1, <1>5, <2>1, <2>6, <3>2 DEF Frame
    <3> QED
      BY <1>2, <2>3, <3>1, <3>3, Framed
  <2>7. TaskOK(t)'
    <3>1. d' = d /\ Deciding(t)' = FALSE
      BY <2>1 DEF d, Deciding
    <3>2. /\ to = "injecting" => HeadOfQueue(d)'
          /\ to # "injected" => Unspent(d)'
          /\ to = "injected" => sends'[d] > 0
      <4>1. /\ to = "injecting" => HeadOfQueue(d)
            /\ to # "injected" => Unspent(d)
            /\ to = "injected" => sends[d] > 0
        BY <1>2 DEF AttemptOK, d, to
      <4> QED
        BY <1>1, <1>2, <2>5, <3>1, <4>1 DEF HeadOfQueue, Unspent
    <3>3. AttemptOK(t)'
      BY <1>1, <1>2, <1>5, <2>1, <2>4, <3>1, <3>2 DEF AttemptOK, d
    <3> QED
      BY <1>1, <1>2, <2>1, <3>3 DEF TaskOK
  <2>8. StoredOK'
    BY <1>1, <1>2, <2>4 DEF IInv, StoredOK, AttemptOK, d
  <2>9. WaitingOK'
    <3>1. to \in {"deferred", "pending"} => Unspent(d)
      BY <1>2 DEF AttemptOK, d, to
    <3> QED
      BY <1>1, <2>1, <2>4, <3>1 DEF IInv, WaitingOK, Unspent
  <2>10. SentOnce' /\ RecoveryRepeatsNothing'
    BY <1>1 DEF IInv, SentOnce, RecoveryRepeatsNothing
  <2>11. InjectedWasSent'
    <3>1. to = "injected" => sends[d] > 0
      BY <1>2 DEF AttemptOK, d, to
    <3> QED
      BY <1>1, <2>4, <3>1 DEF IInv, InjectedWasSent
  <2> QED
    BY <2>3, <2>6, <2>7, <2>8, <2>9, <2>10, <2>11 DEF IInv
<1> QED
  BY <1>1, <1>3, <1>4, <1>5 DEF Transition

(* The recipient gets the turn, whatever the attempt is told: nobody else  *)
(* sends this delivery.                                                    *)
LEMMA Accepted ==
    ASSUME IInv, NEW t \in Workers, tasks[t].pc = "send_turn",
           session' \in [Recipients -> {"idle", "busy", "stuck", "closed"}], wakeups' \in Seq(Recipients),
           NEW goal \in {"injected", "deferred", "failed"}, Aim(t, "transition", goal),
           sends' = [sends EXCEPT ![tasks[t].cur] = @ + 1],
           \/ goal = "injected" /\ UNCHANGED lost
           \/ goal # "injected" /\ lost' = [lost EXCEPT ![tasks[t].cur] = @ + 1],
           UNCHANGED <<memory, store, guard, starting, touched, turns, crashes>>
    PROVE  IInv'
<1> USE DEF memory, store
<1> DEFINE d == tasks[t].cur
<1>2. /\ TypeOK /\ TaskOK(t) /\ tasks[t] \in TaskType /\ d # None /\ d \in Deliveries /\ AttemptOK(t)
      /\ d[2] \in Recipients
  BY ListFacts, DeliveryFacts DEF IInv, TypeOK, TaskOK
<1>3. /\ tasks' \in [Workers -> TaskType]
      /\ \A u \in Workers : u # t => tasks'[u] = tasks[u]
      /\ tasks'[t].pc = "transition" /\ tasks'[t].goal = goal /\ tasks'[t].cur = d
      /\ tasks'[t].todo = tasks[t].todo /\ tasks'[t].save = tasks[t].save
  BY <1>2, AimFacts DEF Statuses
<1>4. /\ sends[d] \in Nat /\ touched[d] \in Nat /\ lost[d] \in Nat
      /\ \A e \in Deliveries : sends'[e] = IF e = d THEN sends[d] + 1 ELSE sends[e]
      /\ \A e \in Deliveries : e # d => lost'[e] = lost[e]
      /\ goal # "injected" => lost'[d] = lost[d] + 1
      /\ goal = "injected" => lost'[d] = lost[d]
  BY <1>2 DEF TypeOK
<1>5. TypeOK'
  <2>1. sends' \in [Deliveries -> Nat]
    BY <1>2, <1>4 DEF TypeOK
  <2>2. lost' \in [Deliveries -> Nat]
    <3>1. CASE UNCHANGED lost
      BY <1>2, <3>1 DEF TypeOK
    <3>2. CASE lost' = [lost EXCEPT ![tasks[t].cur] = @ + 1]
      BY <1>2, <1>4, <3>2 DEF TypeOK
    <3> QED
      BY <3>1, <3>2
  <2> QED
    BY <1>2, <1>3, <2>1, <2>2 DEF TypeOK
<1>6. /\ sends[d] <= touched[d] + lost[d]
      /\ \/ mem[d] \in {"injecting", None} /\ disk[d] # "deferred"
         \/ sends'[d] <= touched[d] + lost'[d]
      /\ goal # "injected" => sends'[d] <= touched[d] + lost'[d]
  <2>1. /\ Unspent(d)
        /\ \/ mem[d] \in {"injecting", None} /\ disk[d] # "deferred"
           \/ Recalled(d)
    BY <1>2 DEF AttemptOK
  <2> QED
    BY <1>4, <2>1 DEF Unspent, Recalled
<1> HIDE DEF d
<1>7. ASSUME NEW u \in Workers, u # t PROVE TaskOK(u)'
  <2>1. TaskOK(u)
    BY DEF IInv
  <2>2. ASSUME tasks[u].cur # None
        PROVE  /\ sends'[tasks[u].cur] = sends[tasks[u].cur] /\ lost'[tasks[u].cur] = lost[tasks[u].cur]
               /\ touched[tasks[u].cur] \in Nat
               /\ HeadOfQueue(tasks[u].cur) => HeadOfQueue(tasks[u].cur)'
    <3>1. tasks[u].cur \in Deliveries /\ tasks'[u].cur = tasks[u].cur
      BY <1>3, <1>7, <2>2, ListFacts
    <3>2. tasks[u].cur # d
      <4> SUFFICES ASSUME tasks[u].cur = d PROVE FALSE
        OBVIOUS
      <4> QED
        BY <1>2, <1>7, <2>1, <2>2, Exclusive DEF d
    <3>3. touched[tasks[u].cur] \in Nat
      BY <3>1 DEF IInv, TypeOK
    <3>4. HeadOfQueue(tasks[u].cur) => HeadOfQueue(tasks[u].cur)'
      BY <3>1 DEF HeadOfQueue, Precedes
    <3> QED
      BY <1>4, <3>1, <3>2, <3>3, <3>4
  <2>3. Frame(u)
    BY <1>3, <1>7, <2>2 DEF Frame
  <2> QED
    BY <1>2, <1>5, <2>1, <2>3, Framed
<1>8. TaskOK(t)'
  <2>1. d' = d /\ Deciding(t)' = FALSE /\ sends'[d] > 0
    BY <1>2, <1>3, <1>4 DEF d, Deciding
  <2>2. AttemptOK(t)'
    BY <1>2, <1>3, <1>6, <2>1 DEF AttemptOK, Unspent, d
  <2> QED
    BY <1>2, <1>3, <2>2 DEF TaskOK
<1>9. StoredOK'
  BY <1>2, <1>4 DEF IInv, StoredOK, AttemptOK, d
<1>10. WaitingOK'
  <2> SUFFICES ASSUME NEW e \in Deliveries,
                      \/ mem[e] = "deferred"
                      \/ mem[e] = "pending" /\ \E u \in Workers : e \in tasks'[u].todo
               PROVE  sends'[e] <= touched[e] + lost'[e]
    BY DEF WaitingOK, Unspent
  <2>1. CASE e = d
    BY <1>4, <1>6, <2>1, DeliveryFacts DEF Statuses
  <2>2. CASE e # d
    BY <1>3, <1>4, <2>2 DEF IInv, WaitingOK, Unspent
  <2> QED
    BY <2>1, <2>2
<1>11. SentOnce' /\ RecoveryRepeatsNothing'
  <2> SUFFICES ASSUME NEW e \in Deliveries
               PROVE  /\ sends'[e] <= 1 + touched[e] + lost'[e]
                      /\ disk[e] = "deferred" => sends'[e] <= touched[e] + lost'[e]
    BY DEF SentOnce, RecoveryRepeatsNothing
  <2>1. CASE e = d
    BY <1>4, <1>6, <2>1
  <2>2. CASE e # d
    BY <1>4, <2>2 DEF IInv, SentOnce, RecoveryRepeatsNothing
  <2> QED
    BY <2>1, <2>2
<1>12. InjectedWasSent'
  BY <1>4 DEF IInv, InjectedWasSent
<1> QED
  BY <1>5, <1>7, <1>8, <1>9, <1>10, <1>11, <1>12 DEF IInv

(* The recipient did not get the turn. *)
LEMMA Refused ==
    ASSUME IInv, NEW t \in Workers, tasks[t].pc = "send_turn",
           session' \in [Recipients -> {"idle", "busy", "stuck", "closed"}], wakeups' \in Seq(Recipients),
           NEW goal \in {"deferred", "failed"}, Aim(t, "transition", goal),
           UNCHANGED <<memory, store, guard, starting, history>>
    PROVE  IInv'
<1> USE DEF memory, store, history
<1>1. TypeOK /\ TaskOK(t) /\ tasks[t].cur # None /\ AttemptOK(t) /\ goal \in Statuses
  BY DEF IInv, TaskOK, Statuses
<1>2. /\ tasks' \in [Workers -> TaskType]
      /\ \A u \in Workers : u # t => tasks'[u] = tasks[u]
      /\ tasks'[t].pc = "transition" /\ tasks'[t].goal = goal /\ tasks'[t].cur = tasks[t].cur
      /\ tasks'[t].todo = tasks[t].todo /\ tasks'[t].save = tasks[t].save
  BY <1>1, AimFacts
<1>3. TypeOK'
  BY <1>1, <1>2 DEF TypeOK
<1>4. AttemptOK(t)'
  BY <1>1, <1>2 DEF AttemptOK, Deciding, Unspent
<1>5. TaskOK(t)'
  BY <1>1, <1>2, <1>4 DEF TaskOK
<1> QED
  BY <1>2, <1>3, <1>5, Quiet

(* The recipient of an attempt, and what the waker hears of it. *)
LEMMA SendFacts ==
    ASSUME IInv, NEW t \in Workers, tasks[t].pc = "send_turn"
    PROVE  /\ tasks[t].cur \in Deliveries /\ tasks[t].cur[2] \in Recipients
           /\ session \in [Recipients -> {"idle", "busy", "stuck", "closed"}]
           /\ wakeups \in Seq(Recipients)
           /\ Wake(tasks[t].cur[2]) => wakeups' \in Seq(Recipients)
<1>1. /\ tasks[t].cur \in Deliveries /\ wakeups \in Seq(Recipients)
      /\ session \in [Recipients -> {"idle", "busy", "stuck", "closed"}]
  BY ListFacts DEF IInv, TypeOK, TaskOK
<1>2. tasks[t].cur[2] \in Recipients
  BY <1>1, DeliveryFacts
<1>3. Append(wakeups, tasks[t].cur[2]) \in Seq(Recipients)
  BY <1>1, <1>2
<1> QED
  BY <1>1, <1>2, <1>3 DEF Wake

LEMMA SendsTurn == ASSUME IInv, NEW t \in Workers, SendTurn(t) PROVE IInv'
<1>1. /\ tasks[t].pc = "send_turn"
      /\ UNCHANGED <<memory, store, guard, wakeups, starting, lost, touched, turns, crashes>>
  BY DEF SendTurn
<1>2. CASE /\ session' = [session EXCEPT ![tasks[t].cur[2]] = "busy"]
           /\ sends' = [sends EXCEPT ![tasks[t].cur] = @ + 1]
           /\ Aim(t, "transition", "injected")
  <2>1. session' \in [Recipients -> {"idle", "busy", "stuck", "closed"}] /\ wakeups' \in Seq(Recipients)
    BY <1>1, <1>2, SendFacts
  <2> QED
    BY <1>1, <1>2, <2>1, Accepted
<1>3. CASE Aim(t, "transition", "deferred") /\ UNCHANGED <<session, sends>>
  <2>1. UNCHANGED <<memory, store, guard, session, wakeups, starting, history>>
    BY <1>1, <1>3 DEF history
  <2>2. session' \in [Recipients -> {"idle", "busy", "stuck", "closed"}] /\ wakeups' \in Seq(Recipients)
    BY <1>1, <2>1, SendFacts
  <2> QED
    BY <1>1, <1>3, <2>1, <2>2, Refused
<1> QED
  BY <1>2, <1>3 DEF SendTurn

(* The send returns an error. *)
LEMMA SendFails ==
    ASSUME IInv, NEW t \in Workers, tasks[t].pc = "send_turn",
           session' \in [Recipients -> {"idle", "busy", "stuck", "closed"}], wakeups' \in Seq(Recipients),
           NEW goal \in {"deferred", "failed"}, Aim(t, "transition", goal),
           Taken(tasks[t].cur) \/ UNCHANGED <<lost, sends>>,
           UNCHANGED <<memory, store, guard, starting, touched, turns, crashes>>
    PROVE  IInv'
<1>1. CASE Taken(tasks[t].cur)
  BY <1>1, Accepted DEF Taken
<1>2. CASE UNCHANGED <<lost, sends>>
  BY <1>2, Refused DEF history
<1> QED
  BY <1>1, <1>2

LEMMA SendErrors == ASSUME IInv, NEW t \in Workers, SendErrs(t) PROVE IInv'
<1>1. CASE ProviderErrs(t)
  <2>1. /\ tasks[t].pc = "send_turn" /\ Wake(tasks[t].cur[2])
        /\ Taken(tasks[t].cur) \/ UNCHANGED <<lost, sends>>
        /\ UNCHANGED <<memory, store, guard, session, starting, touched, turns, crashes>>
    BY <1>1 DEF ProviderErrs
  <2>2. PICK goal \in {"deferred", "failed"} : Aim(t, "transition", goal)
    BY <1>1 DEF ProviderErrs
  <2>3. session' \in [Recipients -> {"idle", "busy", "stuck", "closed"}] /\ wakeups' \in Seq(Recipients)
    BY <2>1, SendFacts
  <2> QED
    BY <2>1, <2>2, <2>3, SendFails
<1>2. CASE SendIsNotStored(t)
  <2>1. /\ tasks[t].pc = "send_turn" /\ Aim(t, "transition", "failed")
        /\ Taken(tasks[t].cur) \/ UNCHANGED <<lost, sends>>
        /\ UNCHANGED session \/ session' = [session EXCEPT ![tasks[t].cur[2]] = "stuck"]
        /\ UNCHANGED <<memory, store, guard, wakeups, starting, touched, turns, crashes>>
    BY <1>2 DEF SendIsNotStored
  <2>2. session' \in [Recipients -> {"idle", "busy", "stuck", "closed"}] /\ wakeups' \in Seq(Recipients)
    BY <2>1, SendFacts
  <2> QED
    BY <2>1, <2>2, SendFails
<1> QED
  BY <1>1, <1>2 DEF SendErrs

-----------------------------------------------------------------------------
(* Requests *)

(* A request begins: the others are in the middle of theirs. *)
LEMMA Requested ==
    ASSUME IInv, TypeOK', NEW t \in Workers, NEW k \in TaskType, tasks' = [tasks EXCEPT ![t] = k],
           k.cur = None, k.goal \in {"pending", "cancelled"}, k.pc \in {"store_message", "store_team", "save"},
           k.pc = "store_message" => k.snap \in Messages /\ k.snap \in known',
           \A d \in k.todo : d[1] \in diskKnown' \/ (k.pc = "store_message" /\ d[1] = k.snap),
           UNCHANGED <<store, guard, sends, lost>>,
           team' = "live" => team = "live" /\ known \subseteq known',
           \A d \in Deliveries :
              touched[d] <= touched'[d] /\ (d[1] \in diskKnown =>
                 \/ mem'[d] \in {mem[d], None}
                 \/ /\ mem[d] \in {"pending", "deferred", "failed"} /\ mem'[d] \in {"pending", "cancelled"}
                    /\ touched[d] < touched'[d]),
           \A d \in Deliveries : d[1] \in diskKnown /\ HeadOfQueue(d) =>
              \A e \in Deliveries : d[2] = e[2] /\ rank'[e[1]] < rank'[d[1]] =>
                 mem'[e] = None \/ is_terminal_status(mem'[e]) \/ touched'[e] > 0
    PROVE  \A u \in Workers : TaskOK(u)'
<1> USE DEF store
<1>1. TypeOK /\ tasks'[t] = k /\ \A u \in Workers : u # t => tasks'[u] = tasks[u]
  BY DEF IInv, TypeOK
<1>2. TaskOK(t)'
  BY <1>1 DEF TaskOK
<1>3. ASSUME NEW u \in Workers, u # t PROVE TaskOK(u)'
  <2>1. TaskOK(u) /\ tasks'[u] = tasks[u]
    BY <1>1, <1>3 DEF IInv
  <2>2. ASSUME tasks[u].cur # None
        PROVE  /\ tasks[u].cur \in Deliveries /\ tasks[u].cur[1] \in diskKnown
               /\ HeadOfQueue(tasks[u].cur) => HeadOfQueue(tasks[u].cur)'
    <3>1. tasks[u].cur \in Deliveries /\ tasks[u].cur[1] \in diskKnown
      BY <2>2, ListFacts DEF AttemptOK
    <3>2. ASSUME HeadOfQueue(tasks[u].cur)
          PROVE  \A e \in Deliveries : Precedes(e, tasks[u].cur)' =>
                    mem'[e] = None \/ is_terminal_status(mem'[e]) \/ touched'[e] > 0
      BY <2>1, <3>1, <3>2 DEF Precedes
    <3>3. HeadOfQueue(tasks[u].cur) => HeadOfQueue(tasks[u].cur)'
      BY <2>1, <3>2 DEF HeadOfQueue
    <3> QED
      BY <3>1, <3>3
  <2>3. Frame(u)
    BY <2>1, <2>2 DEF Frame
  <2> QED
    BY <1>1, <2>1, <2>3, Framed
<1> QED
  BY <1>2, <1>3

LEMMA Creates ==
    ASSUME IInv, NEW t \in Workers, NEW m \in Messages, NEW R \in SUBSET Recipients, NEW p \in Policies,
           create_message_and_deliveries(t, m, R, p)
    PROVE  IInv'
<1> USE DEF store, history
<1> DEFINE k == [Idle EXCEPT !.pc = "store_message", !.todo = {m} \X R, !.save = {m} \X R,
                             !.goal = "pending", !.trigger = "queue", !.snap = m]
<1>1. /\ team = "live" /\ m \notin known /\ known' = known \cup {m} /\ clock' = clock + 1
      /\ rank' = [rank EXCEPT ![m] = clock'] /\ policy' = [policy EXCEPT ![m] = p]
      /\ mem' = [d \in Deliveries |-> IF d \in {m} \X R THEN "pending" ELSE mem[d]]
      /\ tasks' = [tasks EXCEPT ![t] = k]
      /\ UNCHANGED <<team, store, guard, session, wakeups, starting, history>>
  BY DEF create_message_and_deliveries
<1>2. TypeOK /\ {m} \X R \in SUBSET Deliveries
  BY DEF IInv, Deliveries
<1>3. /\ k \in TaskType /\ k.pc = "store_message" /\ k.todo = {m} \X R /\ k.goal = "pending"
      /\ k.cur = None /\ k.snap = m
  BY <1>2 DEF Idle, TaskType, Statuses
<1> HIDE DEF k
<1>4. /\ \A d \in Deliveries : mem'[d] = IF d \in {m} \X R THEN "pending" ELSE mem[d]
      /\ \A n \in Messages : rank'[n] = IF n = m THEN clock + 1 ELSE rank[n]
      /\ \A n \in Messages : rank[n] \in Nat /\ rank[n] <= clock
      /\ clock \in Nat
  BY <1>1, <1>2 DEF TypeOK, IInv, StoredOK
<1>5. TypeOK'
  <2>1. mem' \in [Deliveries -> Statuses \cup {None}]
    BY <1>1, <1>2 DEF TypeOK, Statuses
  <2>2. clock' \in Nat /\ rank' \in [Messages -> Nat] /\ policy' \in [Messages -> Policies \cup {None}]
        /\ known' \subseteq Messages /\ tasks' \in [Workers -> TaskType]
    BY <1>1, <1>2, <1>3 DEF TypeOK
  <2> QED
    BY <1>1, <1>2, <2>1, <2>2 DEF TypeOK
<1>6. m \notin diskKnown /\ \A d \in {m} \X R : sends[d] = 0 /\ d[1] = m
  <2>1. m \notin diskKnown
    BY <1>1 DEF IInv, StoredOK
  <2>2. \A d \in {m} \X R : d[1] = m /\ d \in Deliveries
    BY <1>2
  <2> QED
    BY <1>2, <2>1, <2>2 DEF IInv, StoredOK, TypeOK
<1>7. \A u \in Workers : TaskOK(u)'
  <2>1. \A d \in Deliveries : /\ touched[d] <= touched'[d]
                              /\ d[1] \in diskKnown => mem'[d] = mem[d]
    BY <1>1, <1>2, <1>4, <1>6 DEF TypeOK
  <2>2. ASSUME NEW d \in Deliveries, d[1] \in diskKnown, HeadOfQueue(d),
               NEW e \in Deliveries, d[2] = e[2], rank'[e[1]] < rank'[d[1]]
        PROVE  mem'[e] = None \/ is_terminal_status(mem'[e]) \/ touched'[e] > 0
    <3>1. d[1] \in Messages /\ e[1] \in Messages /\ d[1] # m
      BY <1>6, <2>2, DeliveryFacts
    <3>2. rank'[d[1]] = rank[d[1]] /\ e[1] # m
      BY <1>4, <2>2, <3>1
    <3>3. e \notin {m} \X R
      BY <1>6, <3>2
    <3>4. Precedes(e, d) /\ mem'[e] = mem[e]
      BY <1>4, <2>2, <3>1, <3>2, <3>3 DEF Precedes
    <3> QED
      BY <1>1, <2>2, <3>4 DEF HeadOfQueue
  <2> QED
    BY <1>1, <1>3, <1>5, <1>6, <2>1, <2>2, Requested
<1>8. StoredOK'
  BY <1>1, <1>4 DEF IInv, StoredOK
<1>9. WaitingOK'
  <2> SUFFICES ASSUME NEW d \in Deliveries,
                      \/ mem'[d] = "deferred"
                      \/ mem'[d] = "pending" /\ \E u \in Workers : d \in tasks'[u].todo
               PROVE  sends[d] <= touched[d] + lost[d]
    BY <1>1 DEF WaitingOK, Unspent
  <2>1. CASE d \in {m} \X R
    BY <1>2, <1>6, <2>1 DEF TypeOK
  <2>2. CASE d \notin {m} \X R
    <3>1. \A u \in Workers : d \in tasks'[u].todo => d \in tasks[u].todo
      BY <1>1, <1>2, <1>3, <2>2 DEF TypeOK
    <3> QED
      BY <1>4, <2>2, <3>1 DEF IInv, WaitingOK, Unspent
  <2> QED
    BY <2>1, <2>2
<1>10. SentOnce' /\ RecoveryRepeatsNothing' /\ InjectedWasSent'
  BY <1>1, <1>4 DEF IInv, SentOnce, RecoveryRepeatsNothing, InjectedWasSent
<1> QED
  BY <1>5, <1>7, <1>8, <1>9, <1>10 DEF IInv

LEMMA Retries == ASSUME IInv, NEW t \in Workers, NEW d \in Deliveries, retry_delivery(t, d) PROVE IInv'
<1> USE DEF store
<1> DEFINE k == [Idle EXCEPT !.pc = "save", !.todo = {d}, !.save = {d}, !.goal = "pending",
                             !.trigger = "retry"]
<1>1. /\ mem[d] \in {"failed", "deferred"} /\ mem' = [mem EXCEPT ![d] = "pending"]
      /\ touched' = [touched EXCEPT ![d] = @ + 1] /\ tasks' = [tasks EXCEPT ![t] = k]
      /\ UNCHANGED <<known, rank, clock, policy, team, store, guard, session, wakeups, starting, sends,
                     lost, turns, crashes>>
  BY DEF retry_delivery
<1>2. TypeOK
  BY DEF IInv
<1>3. k \in TaskType /\ k.pc = "save" /\ k.todo = {d} /\ k.goal = "pending" /\ k.cur = None
  BY DEF Idle, TaskType, Statuses
<1> HIDE DEF k
<1>4. \A e \in Deliveries : /\ mem'[e] = IF e = d THEN "pending" ELSE mem[e]
                            /\ touched'[e] = IF e = d THEN touched[e] + 1 ELSE touched[e]
                            /\ touched[e] \in Nat /\ sends[e] \in Nat /\ lost[e] \in Nat
  BY <1>1, <1>2 DEF TypeOK
<1>5. TypeOK'
  <2>1. mem' \in [Deliveries -> Statuses \cup {None}] /\ touched' \in [Deliveries -> Nat]
        /\ tasks' \in [Workers -> TaskType]
    BY <1>1, <1>2, <1>3, <1>4 DEF TypeOK, Statuses
  <2> QED
    BY <1>1, <1>2, <2>1 DEF TypeOK
<1>6. d[1] \in diskKnown
  BY <1>1 DEF IInv, StoredOK
<1>7. \A u \in Workers : TaskOK(u)'
  <2>1. \A e \in Deliveries :
           /\ touched[e] <= touched'[e]
           /\ \/ mem'[e] = mem[e]
              \/ /\ mem[e] \in {"pending", "deferred", "failed"} /\ mem'[e] = "pending"
                 /\ touched[e] < touched'[e]
    BY <1>1, <1>4
  <2>2. ASSUME NEW f \in Deliveries, HeadOfQueue(f),
               NEW e \in Deliveries, f[2] = e[2], rank'[e[1]] < rank'[f[1]]
        PROVE  mem'[e] = None \/ is_terminal_status(mem'[e]) \/ touched'[e] > 0
    BY <1>1, <1>4, <2>2 DEF HeadOfQueue, Precedes
  <2> QED
    BY <1>1, <1>3, <1>5, <1>6, <2>1, <2>2, Requested
<1>8. StoredOK'
  BY <1>1, <1>4 DEF IInv, StoredOK
<1>9. WaitingOK'
  <2> SUFFICES ASSUME NEW e \in Deliveries,
                      \/ mem'[e] = "deferred"
                      \/ mem'[e] = "pending" /\ \E u \in Workers : e \in tasks'[u].todo
               PROVE  sends[e] <= touched'[e] + lost[e]
    BY <1>1 DEF WaitingOK, Unspent
  <2>1. CASE e = d
    BY <1>4, <2>1 DEF IInv, SentOnce
  <2>2. CASE e # d
    <3>1. \A u \in Workers : e \in tasks'[u].todo => e \in tasks[u].todo
      BY <1>1, <1>2, <1>3, <2>2 DEF TypeOK
    <3> QED
      BY <1>4, <2>2, <3>1 DEF IInv, WaitingOK, Unspent
  <2> QED
    BY <2>1, <2>2
<1>10. SentOnce' /\ RecoveryRepeatsNothing' /\ InjectedWasSent'
  BY <1>1, <1>4 DEF IInv, SentOnce, RecoveryRepeatsNothing, InjectedWasSent
<1> QED
  BY <1>5, <1>7, <1>8, <1>9, <1>10 DEF IInv

LEMMA Cancels == ASSUME IInv, NEW t \in Workers, NEW m \in Messages, cancel_message(t, m) PROVE IInv'
<1> USE DEF store
<1> DEFINE D == DeliveriesOf(m)
           k == [Idle EXCEPT !.pc = "save", !.save = D, !.goal = "cancelled"]
<1>1. /\ \A d \in D : mem[d] \in Waiting
      /\ mem' = [d \in Deliveries |-> IF d \in D THEN "cancelled" ELSE mem[d]]
      /\ touched' = [d \in Deliveries |-> IF d \in D THEN touched[d] + 1 ELSE touched[d]]
      /\ tasks' = [tasks EXCEPT ![t] = k]
      /\ UNCHANGED <<known, rank, clock, policy, team, store, guard, session, wakeups, starting, sends,
                     lost, turns, crashes>>
  BY DEF cancel_message
<1>2. TypeOK /\ D \in SUBSET Deliveries
  BY DEF IInv, DeliveriesOf
<1> HIDE DEF D
<1>3. k \in TaskType /\ k.pc = "save" /\ k.todo = {} /\ k.goal = "cancelled" /\ k.cur = None
  BY <1>2 DEF Idle, TaskType, Statuses
<1> HIDE DEF k
<1>4. \A e \in Deliveries : /\ mem'[e] = IF e \in D THEN "cancelled" ELSE mem[e]
                            /\ touched'[e] = IF e \in D THEN touched[e] + 1 ELSE touched[e]
                            /\ touched[e] \in Nat /\ sends[e] \in Nat /\ lost[e] \in Nat
  BY <1>1, <1>2 DEF TypeOK
<1>5. TypeOK'
  <2>1. mem' \in [Deliveries -> Statuses \cup {None}] /\ touched' \in [Deliveries -> Nat]
        /\ tasks' \in [Workers -> TaskType]
    BY <1>1, <1>2, <1>3 DEF TypeOK, Statuses
  <2> QED
    BY <1>1, <1>2, <2>1 DEF TypeOK
<1>6. \A u \in Workers : TaskOK(u)'
  <2>1. \A e \in Deliveries :
           /\ touched[e] <= touched'[e]
           /\ \/ mem'[e] = mem[e]
              \/ /\ mem[e] \in {"pending", "deferred", "failed"} /\ mem'[e] = "cancelled"
                 /\ touched[e] < touched'[e]
    BY <1>1, <1>4 DEF Waiting
  <2>2. ASSUME NEW f \in Deliveries, HeadOfQueue(f),
               NEW e \in Deliveries, f[2] = e[2], rank'[e[1]] < rank'[f[1]]
        PROVE  mem'[e] = None \/ is_terminal_status(mem'[e]) \/ touched'[e] > 0
    BY <1>1, <1>4, <2>2 DEF HeadOfQueue, Precedes
  <2> QED
    BY <1>1, <1>3, <1>5, <2>1, <2>2, Requested
<1>7. StoredOK'
  BY <1>1, <1>4 DEF IInv, StoredOK
<1>8. WaitingOK'
  <2> SUFFICES ASSUME NEW e \in Deliveries,
                      \/ mem'[e] = "deferred"
                      \/ mem'[e] = "pending" /\ \E u \in Workers : e \in tasks'[u].todo
               PROVE  sends[e] <= touched'[e] + lost[e]
    BY <1>1 DEF WaitingOK, Unspent
  <2>1. \A u \in Workers : e \in tasks'[u].todo => e \in tasks[u].todo
    BY <1>1, <1>2, <1>3 DEF TypeOK
  <2> QED
    BY <1>4, <2>1 DEF IInv, WaitingOK, Unspent
<1>9. SentOnce' /\ RecoveryRepeatsNothing' /\ InjectedWasSent'
  BY <1>1, <1>4 DEF IInv, SentOnce, RecoveryRepeatsNothing, InjectedWasSent
<1> QED
  BY <1>5, <1>6, <1>7, <1>8, <1>9 DEF IInv

LEMMA Deletes == ASSUME IInv, NEW t \in Workers, delete_team(t) PROVE IInv'
<1> USE DEF store, history
<1> DEFINE k == [Idle EXCEPT !.pc = "store_team", !.goal = "cancelled",
                             !.save = {d \in Deliveries : mem[d] \in Waiting}]
<1>1. /\ team' = "deleted" /\ known' = {} /\ mem' = [d \in Deliveries |-> None]
      /\ tasks' = [tasks EXCEPT ![t] = k]
      /\ UNCHANGED <<rank, clock, policy, store, guard, session, wakeups, starting, history>>
  BY DEF delete_team
<1>2. TypeOK
  BY DEF IInv
<1>3. k \in TaskType /\ k.pc = "store_team" /\ k.todo = {} /\ k.goal = "cancelled" /\ k.cur = None
  BY DEF Idle, TaskType, Statuses
<1> HIDE DEF k
<1>4. \A e \in Deliveries : mem'[e] = None /\ touched[e] <= touched'[e]
  BY <1>1, <1>2 DEF TypeOK
<1>5. TypeOK'
  <2>1. mem' \in [Deliveries -> Statuses \cup {None}] /\ tasks' \in [Workers -> TaskType]
        /\ known' \subseteq Messages
    BY <1>1, <1>2, <1>3 DEF TypeOK
  <2> QED
    BY <1>1, <1>2, <2>1 DEF TypeOK
<1>6. \A u \in Workers : TaskOK(u)'
  BY <1>1, <1>3, <1>4, <1>5, Requested
<1>7. StoredOK' /\ WaitingOK'
  BY <1>1, <1>4, DeliveryFacts DEF IInv, StoredOK, WaitingOK, Statuses
<1>8. SentOnce' /\ RecoveryRepeatsNothing' /\ InjectedWasSent'
  BY <1>1, <1>4, DeliveryFacts DEF IInv, SentOnce, RecoveryRepeatsNothing, InjectedWasSent, Statuses
<1> QED
  BY <1>5, <1>6, <1>7, <1>8 DEF IInv

(* What is read back after a restart is what was stored. *)
LEMMA Crashes == ASSUME IInv, Crash PROVE IInv'
<1> USE DEF store
<1>1. TypeOK
  BY DEF IInv
<1>2. \A d \in Deliveries : mem'[d] = Hydrated(d) /\ mem'[d] \in {disk[d], None}
  BY DEF Crash, Hydrated
<1>3. TypeOK'
  <2>1. mem' \in [Deliveries -> Statuses \cup {None}]
    BY <1>1 DEF Crash, Hydrated, TypeOK
  <2>2. tasks' \in [Workers -> TaskType] /\ guard' \in [Recipients -> Workers \cup {None}]
    BY IdleFacts DEF Crash
  <2>3. known' \subseteq Messages /\ team' \in {"live", "deleted"} /\ crashes' \in Nat
    BY <1>1 DEF Crash, TypeOK
  <2>4. wakeups' \in Seq(Recipients) /\ starting' \subseteq Recipients
        /\ session' \in [Recipients -> {"idle", "busy", "stuck", "closed"}]
    BY DEF Crash
  <2>5. UNCHANGED <<rank, clock, policy, store, sends, lost, touched, turns>>
    BY DEF Crash
  <2> QED
    BY <1>1, <2>1, <2>2, <2>3, <2>4, <2>5 DEF TypeOK
<1>4. ASSUME NEW t \in Workers PROVE TaskOK(t)' /\ tasks'[t].todo = {}
  <2>1. tasks'[t] = Idle
    BY DEF Crash
  <2> QED
    BY <2>1, IdleFacts DEF TaskOK
<1>5. StoredOK'
  <2>1. \A d \in Deliveries : mem'[d] # None => d[1] \in diskKnown
    BY <1>2 DEF Hydrated
  <2>2. team' = "live" => diskKnown' \subseteq known'
    BY DEF Crash
  <2>3. UNCHANGED <<rank, clock, diskKnown, sends>>
    BY DEF Crash
  <2> QED
    BY <2>1, <2>2, <2>3, DeliveryFacts DEF IInv, StoredOK, Statuses
<1>6. UNCHANGED <<disk, sends, lost, touched>>
  BY DEF Crash
<1>7. WaitingOK'
  BY <1>2, <1>4, <1>6, DeliveryFacts DEF IInv, WaitingOK, Unspent, RecoveryRepeatsNothing, Statuses
<1>8. SentOnce' /\ RecoveryRepeatsNothing' /\ InjectedWasSent'
  BY <1>2, <1>6, DeliveryFacts
  DEF IInv, SentOnce, RecoveryRepeatsNothing, InjectedWasSent, Statuses
<1> QED
  BY <1>3, <1>4, <1>5, <1>7, <1>8 DEF IInv

LEMMA Initially == ASSUME Init PROVE IInv
<1>1. TypeOK
  BY IdleFacts DEF Init, TypeOK
<1>2. \A t \in Workers : TaskOK(t) /\ tasks[t].todo = {}
  <2> TAKE t \in Workers
  <2>1. tasks[t] = Idle
    BY DEF Init
  <2> QED
    BY <2>1, IdleFacts DEF TaskOK
<1>3. \A d \in Deliveries : mem[d] = None /\ disk[d] = None /\ sends[d] = 0 /\ touched[d] = 0 /\ lost[d] = 0
  BY DEF Init
<1>4. StoredOK /\ WaitingOK
  BY <1>3, DeliveryFacts DEF Init, StoredOK, WaitingOK, Statuses
<1>5. SentOnce /\ RecoveryRepeatsNothing /\ InjectedWasSent
  BY <1>3, DeliveryFacts DEF SentOnce, RecoveryRepeatsNothing, InjectedWasSent, Statuses
<1> QED
  BY <1>1, <1>2, <1>4, <1>5 DEF IInv

-----------------------------------------------------------------------------
(* Every step keeps the invariant. *)
LEMMA Inductive == ASSUME IInv, [Next]_vars PROVE IInv'
<1>1. ASSUME NEW t \in Tasks, Request(t) PROVE IInv'
  <2>1. t \in Workers
    BY DEF Workers
  <2> QED
    BY <1>1, <2>1, Creates, Retries, Cancels, Deletes DEF Request
<1>2. ASSUME NEW t \in Workers, Step(t) PROVE IInv'
  BY <1>2, StoresMessage, StoresTeam, StoresDelivery, Saves, ChecksRecipient, InterruptsRecipient,
     Transitions, SendsTurn DEF Step
<1>3. ASSUME NEW t \in Workers, Attempt(t) \/ StoreFails(t) \/ SendErrs(t) PROVE IInv'
  BY <1>3, Skips, Injects, StoreErrors, SendErrors DEF Attempt
<1>4. CASE resume_deferred_for_recipient \/ WakerLags
  BY <1>4, Wakes, Lags
<1>5. ASSUME NEW r \in Recipients,
             recover_startup_deferred_deliveries(r) \/ TurnEnds(r) \/ SessionChanges(r)
      PROVE  IInv'
  BY <1>5, Recovers, TurnsEnd, SessionsChange
<1>6. CASE Crash
  BY <1>6, Crashes
<1>7. CASE UNCHANGED vars
  <2>1. TypeOK'
    BY <1>7 DEF vars, memory, store, history, IInv, TypeOK
  <2>2. UNCHANGED <<memory, store, guard, tasks, sends, lost, touched>>
    BY <1>7 DEF vars, history
  <2> QED
    BY <2>1, <2>2, Unaffected
<1> QED
  BY <1>1, <1>2, <1>3, <1>4, <1>5, <1>6, <1>7 DEF Next

(* The invariant of the deliveries, over all interleavings and restarts. *)
THEOREM InductiveInvariant == Spec => []IInv
BY Initially, Inductive, PTL DEF Spec

(* Every variable keeps its type. *)
THEOREM TypeCorrect == Spec => []TypeOK
<1>1. IInv => TypeOK
  BY DEF IInv
<1> QED
  BY <1>1, InductiveInvariant, PTL

(***************************************************************************)
(* A delivery becomes a turn of its recipient at most once, and once more  *)
(* for each retry or cancellation that clients ask for: attempts on one    *)
(* recipient exclude each other although the status is changed under       *)
(* another lock, and the store is never ahead of what was sent.            *)
(***************************************************************************)
THEOREM DeliveredOnce == Spec => []SentOnce
<1>1. IInv => SentOnce
  BY DEF IInv
<1> QED
  BY <1>1, InductiveInvariant, PTL

(* Startup recovery sends nothing that was sent before the crash. *)
THEOREM RecoveryIsSafe == Spec => []RecoveryRepeatsNothing
<1>1. IInv => RecoveryRepeatsNothing
  BY DEF IInv
<1> QED
  BY <1>1, InductiveInvariant, PTL

(* Nothing is called injected, in memory or in the store, that was not sent. *)
THEOREM InjectedIsTrue == Spec => []InjectedWasSent
<1>1. IInv => InjectedWasSent
  BY DEF IInv
<1> QED
  BY <1>1, InductiveInvariant, PTL

(* Only an attempt sends, and it knows that its delivery is the first. *)
LEMMA SendsTheHead ==
    ASSUME IInv, [Next]_vars, NEW d \in Deliveries, sends'[d] > sends[d]
    PROVE  HeadOfQueue(d)
<1> USE DEF history
<1>0. sends[d] \in Nat
  BY DEF IInv, TypeOK
<1>1. ASSUME NEW t \in Workers, SendTurn(t) \/ SendErrs(t) PROVE HeadOfQueue(d)
  <2>1. tasks[t].pc = "send_turn" /\ tasks[t].cur # None /\ tasks[t].cur \in Deliveries /\ AttemptOK(t)
    BY <1>1, ListFacts DEF SendTurn, SendErrs, ProviderErrs, SendIsNotStored, IInv, TaskOK
  <2>2. HeadOfQueue(tasks[t].cur)
    BY <2>1 DEF AttemptOK
  <2>3. sends' = sends \/ sends' = [sends EXCEPT ![tasks[t].cur] = @ + 1]
    BY <1>1 DEF SendTurn, SendErrs, ProviderErrs, SendIsNotStored, Taken
  <2>4. d = tasks[t].cur
    BY <1>0, <2>1, <2>3 DEF IInv, TypeOK
  <2> QED
    BY <2>2, <2>4
<1>2. ASSUME sends' = sends PROVE HeadOfQueue(d)
  BY <1>0, <1>2
<1>3. ASSUME NEW t \in Tasks, Request(t) PROVE sends' = sends
  <2>1. ASSUME NEW m \in Messages, NEW R \in SUBSET Recipients, NEW p \in Policies,
               create_message_and_deliveries(t, m, R, p)
        PROVE  sends' = sends
    BY <2>1 DEF create_message_and_deliveries
  <2>2. ASSUME NEW e \in Deliveries, retry_delivery(t, e) PROVE sends' = sends
    BY <2>2 DEF retry_delivery
  <2>3. ASSUME NEW m \in Messages, cancel_message(t, m) PROVE sends' = sends
    BY <2>3 DEF cancel_message
  <2>4. ASSUME delete_team(t) PROVE sends' = sends
    BY <2>4 DEF delete_team
  <2> QED
    BY <1>3, <2>1, <2>2, <2>3, <2>4 DEF Request
<1>4. ASSUME NEW t \in Workers, Step(t) PROVE SendTurn(t) \/ sends' = sends
  BY <1>4 DEF Step, StoreMessage, StoreTeam, upsert_team_delivery, Saved, CheckRecipient,
     InterruptRecipient, transition_delivery_status
<1>5. ASSUME NEW t \in Workers, Attempt(t) \/ StoreFails(t) PROVE sends' = sends
  <2>1. ASSUME NEW e \in Deliveries, Skip(t, e) PROVE sends' = sends
    BY <2>1 DEF Skip
  <2>2. ASSUME NEW e \in Deliveries, inject_delivery(t, e) PROVE sends' = sends
    BY <2>2 DEF inject_delivery
  <2>3. ASSUME StoreFails(t) PROVE sends' = sends
    BY <2>3 DEF StoreFails
  <2> QED
    BY <1>5, <2>1, <2>2, <2>3 DEF Attempt
<1>6. ASSUME resume_deferred_for_recipient \/ WakerLags \/ Crash PROVE sends' = sends
  BY <1>6 DEF resume_deferred_for_recipient, WakerLags, Crash
<1>7. ASSUME NEW r \in Recipients,
             recover_startup_deferred_deliveries(r) \/ TurnEnds(r) \/ SessionChanges(r)
      PROVE  sends' = sends
  BY <1>7 DEF recover_startup_deferred_deliveries, TurnEnds, SessionChanges
<1>8. ASSUME UNCHANGED vars PROVE sends' = sends
  BY <1>8 DEF vars
<1> QED
  BY <1>1, <1>2, <1>3, <1>4, <1>5, <1>6, <1>7, <1>8 DEF Next

(***************************************************************************)
(* The queue of a recipient is kept: what is sent is the first of it, up   *)
(* to what clients have called back with a retry.                          *)
(***************************************************************************)
THEOREM QueuesKeepOrder == Spec => QueueOrder
<1>1. ASSUME IInv, [Next]_vars
      PROVE  [\A d \in Deliveries : sends'[d] > sends[d] =>
                 \A e \in Deliveries : Precedes(e, d) =>
                    mem[e] = None \/ is_terminal_status(mem[e]) \/ touched[e] > 0]_vars
  BY <1>1, SendsTheHead DEF HeadOfQueue
<1> QED
  BY <1>1, InductiveInvariant, PTL DEF Spec, QueueOrder
=============================================================================
