------------------------- MODULE AcpProviderProofs --------------------------
(***************************************************************************)
(* Proofs about AcpProvider for any sessions, callers, requests and        *)
(* faults, any capacity and any number of turns and agent processes.       *)
(***************************************************************************)
EXTENDS AcpProvider, TLAPS

-----------------------------------------------------------------------------
(* The inductive invariant *)

(* Where a call of the provider can be. *)
CallType ==
    [pc : {"idle", "open_connect", "open_request", "open_activate", "accept", "decline", "cancel",
           "register", "waiting", "close_cancel", "close_complete", "close_remove", "close_idle",
           "close_shutdown"},
     s : Sessions \cup {None}, t : Turns \cup {None}, conn : Conns \cup {None},
     how : {"new", "resume", None}, got : Results \cup {"closed", None}]

(* The task of a turn was spawned. *)
Spawned(t) == prompts[t].pc # "none"

Opening(c) == acalls[c].pc \in {"open_connect", "open_request", "open_activate"}
Deciding(c) == acalls[c].pc \in {"accept", "decline"}
Closing(c) == acalls[c].pc \in {"close_cancel", "close_complete"}

(* The call activates or releases its slot whatever happens to it; a       *)
(* resume has activated it before it asks the agent.                       *)
Reserving(c) == Opening(c) /\ (acalls[c].pc = "open_request" => acalls[c].how = "new")

(* A decision that is under way is the only one on its turn: the approval  *)
(* was taken out, nothing has spawned or completed the turn.               *)
DecisionOK(c) ==
    LET s == acalls[c].s
        t == acalls[c].t
    IN  /\ t \in Turns /\ s \in Sessions /\ owner[t] = s /\ ~Spawned(t)
        /\ Exists(s) => t \notin sessions[s].approvals /\ sessions[s].completed[t] = None
        /\ \A d \in Calls \ {c} : Deciding(d) => acalls[d].t # t

CallOK(c) ==
    LET s == acalls[c].s
        t == acalls[c].t
    IN  /\ Opening(c) => s \in Sessions /\ acalls[c].how # None
        /\ Deciding(c) => DecisionOK(c)
        /\ acalls[c].pc \in {"register", "waiting"} => t \in Turns /\ owner[t] \in Sessions
        /\ Closing(c) => t \in Turns /\ s \in Sessions /\ owner[t] = s /\ Spawned(t)
        /\ acalls[c].pc = "close_remove" => s \in Sessions

(* The turns that a session holds are its own; the active one runs and has *)
(* no result, one that waits for an approval has never run.                *)
SessionOK(s) ==
    Exists(s) =>
       /\ sessions[s].active # None =>
             LET t == sessions[s].active
             IN  /\ owner[t] = s /\ prompts[t].pc \notin {"none", "done"}
                 /\ sessions[s].completed[t] = None
       /\ \A t \in sessions[s].approvals :
             owner[t] = s /\ ~Spawned(t) /\ sessions[s].completed[t] = None
       /\ \A t \in Turns : sessions[s].completed[t] # None => owner[t] = s

PromptOK(t) ==
    /\ Spawned(t) => owner[t] \in Sessions
    /\ prompts[t].pc \in {"check", "insert"} => prompts[t].conn \in Conns
    /\ prompts[t].pc = "answered" => prompts[t].answer \in Results \cup {"error"}

(* A connection knows prompts only. *)
ConnOK(k) == \A t \in conns[k].pending \cup conns[k].working : Spawned(t)

SlotsHeld ==
    \A s \in Sessions : OnlyReserved(s) =>
       \E c \in Calls : Reserving(c) /\ acalls[c].s = s

CallsOK == \A c \in Calls : CallOK(c)
SessionsOK == \A s \in Sessions : SessionOK(s)
WiresOK == (\A t \in Turns : PromptOK(t)) /\ (\A k \in Conns : ConnOK(k))

Typed == ATypeOK /\ scope \in Scopes /\ acalls \in [Calls -> CallType]

Kept == CallsOK /\ SessionsOK /\ SlotsHeld /\ NoMissedResult

IInv == Typed /\ WiresOK /\ Kept

-----------------------------------------------------------------------------
(* Facts about the constants and the operators *)

LEMMA Distinct ==
    /\ None \notin Turns /\ None \notin Conns /\ None \notin Sessions /\ None \notin SessionType
    /\ None \notin Results /\ None # "closed" /\ None # "new" /\ None # "resume"
  BY AcpConstants DEF Turns, Conns, Results

LEMMA ScopesAreSmall ==
    ASSUME scope \in Scopes
    PROVE  scope.calls \subseteq Calls /\ scope.sessions \subseteq Sessions
  BY AcpConstants DEF ScopeType

LEMMA IdleCallType == IdleCall \in CallType
  BY DEF IdleCall, CallType

(* The calls are as in calls, but for what waiters were told. *)
Follows(calls) ==
    /\ acalls' \in [Calls -> CallType]
    /\ \A d \in Calls : /\ acalls'[d].pc = calls[d].pc /\ acalls'[d].s = calls[d].s
                        /\ acalls'[d].t = calls[d].t /\ acalls'[d].how = calls[d].how
                        /\ acalls'[d].got = None => calls[d].got = None

Told(T) ==
    \A d \in Calls : acalls'[d].pc = "waiting" /\ acalls'[d].got = None => acalls'[d].t \notin T

(* Notify tells every waiter of these turns and nobody else. *)
LEMMA Notifies ==
    ASSUME NEW calls \in [Calls -> CallType], NEW T, NEW what \in Results \cup {"closed"},
           acalls' = Notify(calls, T, what)
    PROVE  Follows(calls) /\ Told(T)
  <1>1. ASSUME NEW d \in Calls
        PROVE  /\ acalls'[d] \in CallType
               /\ acalls'[d].pc = calls[d].pc /\ acalls'[d].s = calls[d].s
               /\ acalls'[d].t = calls[d].t /\ acalls'[d].how = calls[d].how
               /\ acalls'[d].got = None => calls[d].got = None
               /\ acalls'[d].pc = "waiting" /\ acalls'[d].got = None => acalls'[d].t \notin T
    <2> DEFINE n == [calls[d] EXCEPT !.got = what]
    <2>1. calls[d] \in CallType
      OBVIOUS
    <2>2. /\ n \in CallType /\ n.got = what
          /\ n.pc = calls[d].pc /\ n.s = calls[d].s /\ n.t = calls[d].t /\ n.how = calls[d].how
      BY <2>1 DEF CallType
    <2>3. acalls'[d] = IF calls[d].pc = "waiting" /\ calls[d].got = None /\ calls[d].t \in T
                       THEN n ELSE calls[d]
      BY DEF Notify
    <2>4. what # None
      BY Distinct
    <2> HIDE DEF n
    <2> QED
      BY <2>1, <2>2, <2>3, <2>4
  <1>2. acalls' = [d \in Calls |-> acalls'[d]]
    BY DEF Notify
  <1> QED
    BY <1>1, <1>2 DEF Follows, Told

LEMMA StaysAsItWas ==
    ASSUME NEW calls \in [Calls -> CallType], acalls' = calls
    PROVE  Follows(calls)
  BY DEF Follows

(* The calls after one of them has moved on. *)
LEMMA Moves ==
    ASSUME Typed, NEW c \in Calls, NEW m \in CallType
    PROVE  /\ [acalls EXCEPT ![c] = m] \in [Calls -> CallType]
           /\ [acalls EXCEPT ![c] = m][c] = m
           /\ \A d \in Calls \ {c} : [acalls EXCEPT ![c] = m][d] = acalls[d]
  BY DEF Typed

LEMMA Returns ==
    ASSUME Typed, NEW c \in Calls
    PROVE  /\ AReturn(c) \in [Calls -> CallType] /\ AReturn(c)[c] = IdleCall
           /\ \A d \in Calls \ {c} : AReturn(c)[d] = acalls[d]
  BY Moves, IdleCallType DEF AReturn

LEMMA GoesOn ==
    ASSUME Typed, NEW c \in Calls,
           NEW pc \in {"open_request", "open_activate", "cancel", "waiting", "close_complete",
                       "close_remove", "close_idle", "close_shutdown"}
    PROVE  /\ AGoto(c, pc) \in [Calls -> CallType]
           /\ AGoto(c, pc)[c] = [acalls[c] EXCEPT !.pc = pc]
           /\ AGoto(c, pc)[c].pc = pc /\ AGoto(c, pc)[c].s = acalls[c].s
           /\ AGoto(c, pc)[c].t = acalls[c].t /\ AGoto(c, pc)[c].how = acalls[c].how
           /\ AGoto(c, pc)[c].got = acalls[c].got
           /\ \A d \in Calls \ {c} : AGoto(c, pc)[d] = acalls[d]
  <1> DEFINE m == [acalls[c] EXCEPT !.pc = pc]
  <1>1. acalls[c] \in CallType
    BY DEF Typed
  <1>2. /\ m \in CallType /\ m.pc = pc /\ m.s = acalls[c].s /\ m.t = acalls[c].t
        /\ m.how = acalls[c].how /\ m.got = acalls[c].got
    BY <1>1 DEF CallType
  <1>3. AGoto(c, pc) = [acalls EXCEPT ![c] = m]
    BY DEF AGoto
  <1> HIDE DEF m
  <1>4. QED
    BY <1>2, <1>3, Moves DEF m

-----------------------------------------------------------------------------
(* What the helpers do to the sessions *)

(* The turn has a result, if its session is there, and holds it no more. *)
Completed(s, t) ==
    /\ sessions' \in [Sessions -> SessionType \cup {None}]
    /\ \A r \in Sessions \ {s} : sessions'[r] = sessions[r]
    /\ sessions'[s] # None <=> Exists(s)
    /\ Exists(s) => /\ sessions'[s].ready = sessions[s].ready
                    /\ sessions'[s].left = sessions[s].left
                    /\ sessions'[s].active \in {sessions[s].active, None} \ {t}
                    /\ sessions'[s].approvals = sessions[s].approvals \ {t}
                    /\ sessions'[s].completed[t] # None
                    /\ \A u \in Turns \ {t} :
                          sessions'[s].completed[u] = sessions[s].completed[u]

LEMMA Completes ==
    ASSUME Typed, NEW s \in Sessions, SessionOK(s), NEW t \in Turns, NEW status \in Results,
           NEW calls \in [Calls -> CallType], complete_turn(s, t, status, calls)
    PROVE  /\ Completed(s, t) /\ Follows(calls)
           /\ Exists(s) /\ sessions[s].completed[t] = None => Told({t})
  <1> DEFINE e == [sessions[s] EXCEPT !.active = IF @ = t THEN None ELSE @,
                                      !.approvals = @ \ {t}, !.completed[t] = status]
  <1>1. sessions \in [Sessions -> SessionType \cup {None}] /\ t # None /\ status # None
    BY Distinct DEF Typed, ATypeOK
  <1>2. CASE ~Exists(s)
    BY <1>1, <1>2, StaysAsItWas DEF complete_turn, Completed, Exists
  <1>3. CASE Exists(s) /\ sessions[s].completed[t] # None
    <2>1. sessions' = sessions /\ acalls' = calls
      BY <1>3 DEF complete_turn
    <2>2. sessions[s].active # t /\ t \notin sessions[s].approvals
      BY <1>1, <1>3 DEF SessionOK
    <2> QED
      BY <1>1, <1>3, <2>1, <2>2, StaysAsItWas DEF Completed, Exists
  <1>4. CASE Exists(s) /\ sessions[s].completed[t] = None
    <2>1. sessions[s] \in SessionType
      BY <1>1, <1>4 DEF Exists
    <2>2. /\ e \in SessionType /\ e.ready = sessions[s].ready /\ e.left = sessions[s].left
          /\ e.active = (IF sessions[s].active = t THEN None ELSE sessions[s].active)
          /\ e.approvals = sessions[s].approvals \ {t} /\ e.completed[t] = status
          /\ \A u \in Turns \ {t} : e.completed[u] = sessions[s].completed[u]
      BY <2>1 DEF SessionType
    <2>3. sessions' = [sessions EXCEPT ![s] = e] /\ acalls' = Notify(calls, {t}, status)
      BY <1>4 DEF complete_turn
    <2> HIDE DEF e
    <2>4. sessions'[s] = e /\ sessions' \in [Sessions -> SessionType \cup {None}]
          /\ \A r \in Sessions \ {s} : sessions'[r] = sessions[r]
      BY <1>1, <2>2, <2>3
    <2>5. Completed(s, t)
      BY <1>1, <1>4, <2>2, <2>4, Distinct DEF Completed
    <2>6. Follows(calls) /\ Told({t})
      BY <2>3, Notifies
    <2> QED
      BY <2>5, <2>6
  <1> QED
    BY <1>2, <1>3, <1>4

LEMMA Removes ==
    ASSUME Typed, NEW s \in Sessions, NEW calls \in [Calls -> CallType], Remove(s, calls)
    PROVE  /\ sessions' \in [Sessions -> SessionType \cup {None}] /\ sessions'[s] = None
           /\ \A r \in Sessions \ {s} : sessions'[r] = sessions[r]
           /\ Follows(calls) /\ Told(TurnsOf(s))
  <1>1. Follows(calls) /\ Told(TurnsOf(s))
    BY Notifies DEF Remove
  <1> QED
    BY <1>1 DEF Remove, Typed, ATypeOK

-----------------------------------------------------------------------------
(* What a step leaves of the invariant, by what it does to the sessions *)

(* Tasks go on, and none of them begins or ends. *)
PromptsMove ==
    \A t \in Turns : \/ prompts'[t].pc = prompts[t].pc
                     \/ Spawned(t) /\ prompts'[t].pc \notin {"none", "done"}

(* Everybody but the calls outside C does what it did. *)
Others(C, calls) ==
    /\ C \subseteq Calls /\ calls \in [Calls -> CallType] /\ Follows(calls)
    /\ \A d \in C : calls[d] = acalls[d]

OwnersStay == \A t \in Turns : owner[t] # None => owner'[t] = owner[t]
SpawnedStay == \A t \in Turns : Spawned(t) => prompts'[t].pc # "none"

(* Nobody touches the turn that the call decides about. *)
Undisturbed(d) ==
    LET s == acalls[d].s
        t == acalls[d].t
    IN  Deciding(d) =>
           /\ prompts'[t].pc = "none"
           /\ sessions'[s] # None => /\ t \notin sessions'[s].approvals
                                     /\ sessions'[s].completed[t] = None

LEMMA OtherCalls ==
    ASSUME IInv, NEW C, NEW calls, Others(C, calls), OwnersStay, SpawnedStay,
           \A d \in C : Undisturbed(d),
           \A c \in Calls \ C : CallOK(c)'
    PROVE  CallsOK'
  <1> SUFFICES ASSUME NEW c \in C PROVE CallOK(c)'
    BY DEF CallsOK
  <1>0. c \in Calls /\ calls[c] = acalls[c] /\ Follows(calls)
    BY DEF Others
  <1>1. c \in Calls /\ acalls'[c].pc = acalls[c].pc /\ acalls'[c].s = acalls[c].s
        /\ acalls'[c].t = acalls[c].t /\ acalls'[c].how = acalls[c].how
    BY <1>0 DEF Follows
  <1>2. CallOK(c) /\ None \notin Sessions
    BY <1>1, Distinct DEF IInv, Kept, CallsOK
  <1>3. ASSUME Deciding(c)' PROVE DecisionOK(c)'
    <2>1. Deciding(c) /\ DecisionOK(c)
      BY <1>1, <1>2, <1>3 DEF Deciding, CallOK
    <2>2. \A d \in Calls \ {c} : Deciding(d)' => acalls'[d].t # acalls'[c].t
      <3> SUFFICES ASSUME NEW d \in Calls \ {c}, Deciding(d)' PROVE acalls'[d].t # acalls'[c].t
        OBVIOUS
      <3>1. CASE d \in C
        <4>1. calls[d] = acalls[d]
          BY <3>1 DEF Others
        <4>2. acalls'[d].pc = acalls[d].pc /\ acalls'[d].t = acalls[d].t
          BY <1>0, <4>1 DEF Follows
        <4> QED
          BY <1>1, <2>1, <4>2 DEF Deciding, DecisionOK
      <3>2. CASE d \notin C
        BY <1>1, <1>3, <3>2 DEF CallOK, DecisionOK
      <3> QED
        BY <3>1, <3>2
    <2>3. /\ acalls[c].t \in Turns /\ acalls[c].s \in Sessions /\ owner[acalls[c].t] = acalls[c].s
      BY <2>1 DEF DecisionOK
    <2>4. owner'[acalls[c].t] = acalls[c].s
      BY <2>3, <1>2 DEF OwnersStay
    <2> QED
      BY <1>1, <2>1, <2>2, <2>3, <2>4 DEF DecisionOK, Exists, Spawned, Undisturbed
  <1>4. Opening(c)' => acalls'[c].s \in Sessions /\ acalls'[c].how # None
    BY <1>1, <1>2 DEF CallOK, Opening
  <1>5. acalls'[c].pc \in {"register", "waiting"} =>
           acalls'[c].t \in Turns /\ owner'[acalls'[c].t] \in Sessions
    BY <1>1, <1>2 DEF CallOK, OwnersStay
  <1>6. Closing(c)' => /\ acalls'[c].t \in Turns /\ acalls'[c].s \in Sessions
                       /\ owner'[acalls'[c].t] = acalls'[c].s /\ Spawned(acalls[c].t)'
    BY <1>1, <1>2 DEF CallOK, Closing, Spawned, OwnersStay, SpawnedStay
  <1>7. acalls'[c].pc = "close_remove" => acalls'[c].s \in Sessions
    BY <1>1, <1>2 DEF CallOK
  <1> QED
    BY <1>1, <1>3, <1>4, <1>5, <1>6, <1>7 DEF CallOK

(* A waiter of this step was one before it, unless it is the caller. *)
LEMMA Waiters ==
    ASSUME NEW C, NEW calls, Others(C, calls), NEW d \in C,
           acalls'[d].pc = "waiting", acalls'[d].got = None, IInv
    PROVE  /\ d \in Calls /\ acalls'[d].t = acalls[d].t /\ acalls[d].t \in Turns
           /\ owner[acalls[d].t] \in Sessions /\ Exists(owner[acalls[d].t])
           /\ sessions[owner[acalls[d].t]].completed[acalls[d].t] = None
  <1>1. d \in Calls /\ calls[d] = acalls[d] /\ Follows(calls)
    BY DEF Others
  <1>2. acalls[d].pc = "waiting" /\ acalls[d].got = None /\ acalls'[d].t = acalls[d].t
    BY <1>1 DEF Follows
  <1>3. CallOK(d) /\ NoMissedResult
    BY <1>1 DEF IInv, Kept, CallsOK
  <1> QED
    BY <1>1, <1>2, <1>3 DEF CallOK, NoMissedResult

(* Slots that are reserved after the step were so before, by a call in C.  *)
LEMMA Holders ==
    ASSUME IInv, NEW C, NEW calls, Others(C, calls), NEW s \in Sessions,
           OnlyReserved(s),
           \A c \in Calls \ C : Reserving(c) => acalls[c].s # s \/ (Reserving(c)' /\ acalls'[c].s = s)
    PROVE  \E c \in Calls : Reserving(c)' /\ acalls'[c].s = s
  <1>1. PICK c \in Calls : Reserving(c) /\ acalls[c].s = s
    BY DEF IInv, Kept, SlotsHeld
  <1>2. CASE c \in C
    <2>1. calls[c] = acalls[c] /\ Follows(calls)
      BY <1>2 DEF Others
    <2>2. acalls'[c].pc = acalls[c].pc /\ acalls'[c].s = acalls[c].s /\ acalls'[c].how = acalls[c].how
      BY <2>1 DEF Follows
    <2> QED
      BY <1>1, <2>2 DEF Reserving, Opening
  <1>3. CASE c \notin C
    BY <1>1, <1>3
  <1> QED
    BY <1>2, <1>3

(* The task of the turn is done, if any is. *)
TaskEnds(t) ==
    \A u \in Turns : \/ prompts'[u].pc = prompts[u].pc
                     \/ u = t /\ Spawned(t) /\ prompts'[u].pc = "done"

(* These calls do not decide about the turn. *)
Bystanders(C, t) == \A d \in C : Deciding(d) => acalls[d].t # t

(* The others are the one that completes it. *)
Completers(C) ==
    \A c \in Calls \ C :
       ~Reserving(c) /\ acalls'[c].pc \in {"idle", "close_remove"} /\ CallOK(c)'

(* A step that completes a turn. *)
LEMMA CompletingStep ==
    ASSUME IInv, NEW s \in Sessions, NEW t \in Turns, owner[t] = s, owner' = owner,
           NEW C, NEW calls, Others(C, calls), Completed(s, t),
           Exists(s) /\ sessions[s].completed[t] = None => Told({t}),
           TaskEnds(t), Bystanders(C, t), Completers(C)
    PROVE  Kept'
  <1>1. CallsOK'
    <2>1. ASSUME NEW d \in C PROVE Undisturbed(d)
      <3> SUFFICES ASSUME Deciding(d) PROVE Undisturbed(d)
        BY DEF Undisturbed
      <3>1. DecisionOK(d) /\ acalls[d].t # t
        BY DEF Others, IInv, Kept, CallsOK, CallOK, Bystanders
      <3>2. prompts'[acalls[d].t].pc = "none"
        BY <3>1 DEF DecisionOK, Spawned, TaskEnds
      <3>3. ASSUME sessions'[acalls[d].s] # None
            PROVE  /\ acalls[d].t \notin sessions'[acalls[d].s].approvals
                   /\ sessions'[acalls[d].s].completed[acalls[d].t] = None
        <4>1. CASE acalls[d].s = s
          BY <3>1, <3>3, <4>1 DEF Completed, DecisionOK
        <4>2. CASE acalls[d].s # s
          BY <3>1, <3>3, <4>2 DEF Completed, DecisionOK, Exists
        <4> QED
          BY <4>1, <4>2
      <3> QED
        BY <3>2, <3>3 DEF Undisturbed
    <2>2. OwnersStay /\ SpawnedStay
      BY DEF OwnersStay, SpawnedStay, Spawned, TaskEnds
    <2> QED
      BY <2>1, <2>2, OtherCalls DEF Completers
  <1>2. ASSUME NEW r \in Sessions PROVE SessionOK(r)'
    <2> SUFFICES ASSUME sessions'[r] # None PROVE SessionOK(r)'
      BY DEF SessionOK, Exists
    <2>1. SessionOK(r) /\ sessions \in [Sessions -> SessionType \cup {None}]
      BY DEF IInv, Kept, SessionsOK, Typed, ATypeOK
    <2>2. CASE r # s
      <3>1. sessions'[r] = sessions[r] /\ Exists(r)
        BY <2>2 DEF Completed, Exists
      <3>2. sessions[r] \in SessionType
        BY <2>1, <3>1 DEF Exists
      <3>3. /\ sessions[r].active \in Turns \cup {None} /\ sessions[r].approvals \subseteq Turns
        BY <3>2 DEF SessionType
      <3> QED
        BY <2>1, <2>2, <3>1, <3>3 DEF SessionOK, Exists, Spawned, TaskEnds
    <2>3. CASE r = s
      <3>1. Exists(s) /\ sessions[s] \in SessionType /\ t # None
        BY <2>1, <2>3, Distinct DEF Completed, Exists
      <3>2. /\ sessions[s].active \in Turns \cup {None} /\ sessions[s].approvals \subseteq Turns
        BY <3>1 DEF SessionType
      <3> QED
        BY <2>1, <2>3, <3>1, <3>2 DEF SessionOK, Completed, Exists, Spawned, TaskEnds
    <2> QED
      BY <2>2, <2>3
  <1>3. SlotsHeld'
    <2> SUFFICES ASSUME NEW r \in Sessions, OnlyReserved(r)'
                 PROVE  \E c \in Calls : Reserving(c)' /\ acalls'[c].s = r
      BY DEF SlotsHeld
    <2>1. OnlyReserved(r)
      BY DEF Completed, Exists, OnlyReserved
    <2> QED
      BY <2>1, Holders DEF Completers
  <1>4. NoMissedResult'
    <2> SUFFICES ASSUME NEW d \in Calls, acalls'[d].pc = "waiting", acalls'[d].got = None
                 PROVE  /\ sessions'[owner[acalls'[d].t]] # None
                        /\ sessions'[owner[acalls'[d].t]].completed[acalls'[d].t] = None
      BY DEF NoMissedResult, Exists
    <2>1. d \in C
      BY DEF Completers
    <2>2. /\ acalls'[d].t = acalls[d].t /\ acalls[d].t \in Turns
          /\ owner[acalls[d].t] \in Sessions /\ Exists(owner[acalls[d].t])
          /\ sessions[owner[acalls[d].t]].completed[acalls[d].t] = None
      BY <2>1, Waiters
    <2>3. acalls[d].t # t
      BY <2>2 DEF Told
    <2> QED
      BY <2>2, <2>3 DEF Completed, Exists
  <1> QED
    BY <1>1, <1>2, <1>3, <1>4 DEF Kept, SessionsOK

(* A step that removes a session. *)
LEMMA RemovingStep ==
    ASSUME IInv, NEW s \in Sessions, owner' = owner, prompts' = prompts,
           NEW C, NEW calls, Others(C, calls), Remove(s, calls),
           \A c \in Calls \ C : /\ Reserving(c) => acalls[c].s = s
                                /\ calls[c].pc \in {"idle", "close_idle"}
    PROVE  Kept' /\ sessions' \in [Sessions -> SessionType \cup {None}]
  <1>1. /\ sessions' \in [Sessions -> SessionType \cup {None}] /\ sessions'[s] = None
        /\ \A r \in Sessions \ {s} : sessions'[r] = sessions[r]
        /\ Follows(calls) /\ Told(TurnsOf(s))
    BY Removes DEF IInv, Others
  <1>2. CallsOK'
    <2>1. ASSUME NEW d \in C PROVE Undisturbed(d)
      BY <1>1 DEF Undisturbed, Others, IInv, Kept, CallsOK, CallOK, DecisionOK, Spawned, Exists
    <2>2. OwnersStay /\ SpawnedStay
      BY DEF OwnersStay, SpawnedStay, Spawned
    <2>3. ASSUME NEW c \in Calls \ C PROVE CallOK(c)'
      BY <1>1 DEF CallOK, Follows, Opening, Deciding, Closing
    <2> QED
      BY <2>1, <2>2, <2>3, OtherCalls
  <1>3. SessionsOK'
    BY <1>1 DEF SessionsOK, SessionOK, Exists, Spawned, IInv, Kept
  <1>4. SlotsHeld'
    <2> SUFFICES ASSUME NEW r \in Sessions, OnlyReserved(r)'
                 PROVE  \E c \in Calls : Reserving(c)' /\ acalls'[c].s = r
      BY DEF SlotsHeld
    <2>1. r # s /\ OnlyReserved(r)
      BY <1>1 DEF Exists, OnlyReserved
    <2>2. \A c \in Calls \ C : Reserving(c) => acalls[c].s # r
      BY <2>1
    <2> QED
      BY <2>1, <2>2, Holders
  <1>5. NoMissedResult'
    <2> SUFFICES ASSUME NEW d \in Calls, acalls'[d].pc = "waiting", acalls'[d].got = None
                 PROVE  /\ sessions'[owner[acalls'[d].t]] # None
                        /\ sessions'[owner[acalls'[d].t]].completed[acalls'[d].t] = None
      BY DEF NoMissedResult, Exists
    <2>1. d \in C
      BY <1>1 DEF Follows
    <2>2. /\ acalls'[d].t = acalls[d].t /\ acalls[d].t \in Turns
          /\ owner[acalls[d].t] \in Sessions /\ Exists(owner[acalls[d].t])
          /\ sessions[owner[acalls[d].t]].completed[acalls[d].t] = None
      BY <2>1, Waiters
    <2>3. owner[acalls[d].t] # s
      BY <1>1, <2>2 DEF Told, TurnsOf
    <2> QED
      BY <1>1, <2>2, <2>3 DEF Exists
  <1> QED
    BY <1>1, <1>2, <1>3, <1>4, <1>5 DEF Kept

(* A step that leaves the sessions alone. *)
LEMMA QuietStep ==
    ASSUME IInv, sessions' = sessions, owner' = owner, PromptsMove,
           NEW C, NEW calls, Others(C, calls),
           \A c \in Calls \ C :
              /\ CallOK(c)'
              /\ Reserving(c) /\ OnlyReserved(acalls[c].s) =>
                    Reserving(c)' /\ acalls'[c].s = acalls[c].s
              /\ acalls'[c].pc = "waiting" /\ acalls'[c].got = None =>
                    /\ Exists(owner[acalls'[c].t])
                    /\ sessions[owner[acalls'[c].t]].completed[acalls'[c].t] = None
    PROVE  Kept'
  <1>1. CallsOK'
    <2>1. ASSUME NEW d \in C PROVE Undisturbed(d)
      <3> SUFFICES ASSUME Deciding(d) PROVE Undisturbed(d)
        BY DEF Undisturbed
      <3>1. DecisionOK(d)
        BY DEF Others, IInv, Kept, CallsOK, CallOK
      <3> QED
        BY <3>1 DEF DecisionOK, Undisturbed, PromptsMove, Spawned, Exists
    <2>2. OwnersStay /\ SpawnedStay
      BY DEF OwnersStay, SpawnedStay, Spawned, PromptsMove
    <2> QED
      BY <2>1, <2>2, OtherCalls
  <1>2. ASSUME NEW r \in Sessions PROVE SessionOK(r)'
    <2> SUFFICES ASSUME Exists(r) PROVE SessionOK(r)'
      BY DEF SessionOK, Exists
    <2>1. SessionOK(r) /\ sessions \in [Sessions -> SessionType \cup {None}]
      BY DEF IInv, Kept, SessionsOK, Typed, ATypeOK
    <2>2. sessions[r] \in SessionType
      BY <2>1 DEF Exists
    <2>3. /\ sessions[r].active \in Turns \cup {None} /\ sessions[r].approvals \subseteq Turns
      BY <2>2 DEF SessionType
    <2> QED
      BY <2>1, <2>3 DEF SessionOK, Exists, Spawned, PromptsMove
  <1>3. SlotsHeld'
    <2> SUFFICES ASSUME NEW r \in Sessions, OnlyReserved(r)
                 PROVE  \E c \in Calls : Reserving(c)' /\ acalls'[c].s = r
      BY DEF SlotsHeld, OnlyReserved, Exists
    <2> QED
      BY Holders
  <1>4. NoMissedResult'
    <2> SUFFICES ASSUME NEW d \in Calls, acalls'[d].pc = "waiting", acalls'[d].got = None
                 PROVE  /\ Exists(owner[acalls'[d].t])
                        /\ sessions[owner[acalls'[d].t]].completed[acalls'[d].t] = None
      BY DEF NoMissedResult, Exists
    <2>1. CASE d \in C
      BY <2>1, Waiters
    <2> QED
      BY <2>1
  <1> QED
    BY <1>1, <1>2, <1>3, <1>4 DEF Kept, SessionsOK

-----------------------------------------------------------------------------
(* Connections and tasks *)

PromptType == [pc : {"none", "connect", "check", "insert", "waiting", "answered", "done"},
               conn : Conns \cup {None}, answer : Results \cup {"error", None}, late : BOOLEAN]
ConnType == [agent : {"none", "alive", "dead"}, closed : BOOLEAN, pending : SUBSET Turns,
             working : SUBSET Turns, reader : {"none", "reading", "reap", "take", "gone"}]

LEMMA TypesOfParts ==
    ASSUME Typed
    PROVE  /\ sessions \in [Sessions -> SessionType \cup {None}]
           /\ owner \in [Turns -> Sessions \cup {None}] /\ cancelled \in [Turns -> BOOLEAN]
           /\ prompts \in [Turns -> PromptType] /\ conns \in [Conns -> ConnType]
           /\ slot \in Conns \cup {None} /\ acalls \in [Calls -> CallType] /\ scope \in Scopes
  BY DEF Typed, ATypeOK, PromptType, ConnType

LEMMA TypedNext ==
    ASSUME sessions' \in [Sessions -> SessionType \cup {None}],
           owner' \in [Turns -> Sessions \cup {None}], cancelled' \in [Turns -> BOOLEAN],
           prompts' \in [Turns -> PromptType], conns' \in [Conns -> ConnType],
           slot' \in Conns \cup {None}, acalls' \in [Calls -> CallType], scope' \in Scopes
    PROVE  Typed'
  <1>1. \A c \in Calls : acalls'[c].got \in Results \cup {"closed", None}
    BY DEF CallType
  <1> QED
    BY <1>1 DEF Typed, ATypeOK, PromptType, ConnType

(* No connection gets to know a prompt. *)
ConnsShrink ==
    \A k \in Conns : conns'[k].pending \subseteq conns[k].pending
                     /\ conns'[k].working \subseteq conns[k].working

LEMMA ConnsKept ==
    ASSUME IInv, SpawnedStay, ConnsShrink
    PROVE  \A k \in Conns : ConnOK(k)'
  <1> SUFFICES ASSUME NEW k \in Conns, NEW t \in conns'[k].pending \cup conns'[k].working
               PROVE  prompts'[t].pc # "none"
    BY DEF ConnOK, Spawned
  <1>1. t \in conns[k].pending \cup conns[k].working
    BY DEF ConnsShrink
  <1>2. conns[k] \in ConnType
    BY TypesOfParts DEF IInv
  <1>3. t \in Turns /\ Spawned(t)
    BY <1>1, <1>2 DEF IInv, WiresOK, ConnOK, ConnType
  <1> QED
    BY <1>3 DEF SpawnedStay

(* The tasks and what connections know of them stay as they are. *)
LEMMA WiresKept ==
    ASSUME IInv, OwnersStay, prompts' = prompts, ConnsShrink
    PROVE  WiresOK'
  <1>1. SpawnedStay
    BY DEF SpawnedStay, Spawned
  <1>2. None \notin Sessions
    BY Distinct
  <1>3. \A t \in Turns : PromptOK(t)'
    BY <1>2 DEF IInv, WiresOK, PromptOK, Spawned, OwnersStay
  <1> QED
    BY <1>1, <1>3, ConnsKept DEF WiresOK

(* ensure_connection, or its failure. *)
LEMMA Connects ==
    ASSUME Typed, SpawnFails \/ \E k \in Conns : ensure_connection(k)
    PROVE  /\ conns' \in [Conns -> ConnType] /\ slot' \in Conns \cup {None}
           /\ ConnsShrink
  <1>1. conns \in [Conns -> ConnType] /\ slot \in Conns \cup {None}
    BY TypesOfParts
  <1>2. NewConn \in ConnType /\ NewConn.pending = {} /\ NewConn.working = {}
    BY DEF NewConn, NoConn, ConnType
  <1>3. CASE conns' = conns /\ slot' = slot
    BY <1>1, <1>3 DEF ConnsShrink
  <1>4. ASSUME NEW k \in Conns, conns' = [conns EXCEPT ![k] = NewConn], slot' = k
        PROVE  /\ conns' \in [Conns -> ConnType] /\ slot' \in Conns \cup {None}
               /\ ConnsShrink
    <2>1. conns' \in [Conns -> ConnType]
      BY <1>1, <1>2, <1>4
    <2>2. \A j \in Conns : conns'[j] = IF j = k THEN NewConn ELSE conns[j]
      BY <1>1, <1>4
    <2> QED
      BY <1>2, <1>4, <2>1, <2>2 DEF ConnsShrink
  <1> QED
    BY <1>3, <1>4 DEF SpawnFails, ensure_connection

(* The requests that are out on a connection fail, and nothing else does. *)
LEMMA FailsPending ==
    ASSUME IInv, owner' = owner, NEW k \in Conns, FailPending(k)
    PROVE  /\ prompts' \in [Turns -> PromptType] /\ PromptsMove
           /\ \A t \in Turns : PromptOK(t)'
  <1>1. prompts \in [Turns -> PromptType] /\ conns[k] \in ConnType
    BY TypesOfParts DEF IInv
  <1>2. ASSUME NEW t \in Turns
        PROVE  /\ prompts'[t] \in PromptType /\ PromptOK(t)'
               /\ \/ prompts'[t].pc = prompts[t].pc
                  \/ Spawned(t) /\ prompts'[t].pc \notin {"none", "done"}
    <2> DEFINE p == [prompts[t] EXCEPT !.pc = "answered", !.answer = "error"]
    <2>1. p \in PromptType /\ p.pc = "answered" /\ p.answer = "error"
      BY <1>1 DEF PromptType
    <2>2. prompts'[t] = IF t \in conns[k].pending THEN p ELSE prompts[t]
      BY DEF FailPending
    <2>3. PromptOK(t) /\ (t \in conns[k].pending => Spawned(t))
      BY DEF IInv, WiresOK, ConnOK
    <2> HIDE DEF p
    <2> QED
      BY <1>1, <2>1, <2>2, <2>3 DEF PromptOK, Spawned
  <1>3. prompts' = [t \in Turns |-> prompts'[t]]
    BY DEF FailPending
  <1>4. prompts' \in [Turns -> PromptType]
    BY <1>2, <1>3
  <1> QED
    BY <1>2, <1>4 DEF PromptsMove

(* One task goes on. *)
LEMMA PromptGoes ==
    ASSUME IInv, owner' = owner, NEW t \in Turns, NEW p \in PromptType,
           prompts' = [prompts EXCEPT ![t] = p],
           p.pc # "none" => owner[t] \in Sessions,
           p.pc \in {"check", "insert"} => p.conn \in Conns,
           p.pc = "answered" => p.answer \in Results \cup {"error"}
    PROVE  /\ prompts' \in [Turns -> PromptType] /\ prompts'[t] = p
           /\ \A u \in Turns \ {t} : prompts'[u] = prompts[u]
           /\ \A u \in Turns : PromptOK(u)'
  <1>1. prompts \in [Turns -> PromptType]
    BY TypesOfParts DEF IInv
  <1>2. /\ prompts' \in [Turns -> PromptType] /\ prompts'[t] = p
        /\ \A u \in Turns \ {t} : prompts'[u] = prompts[u]
    BY <1>1
  <1>3. ASSUME NEW u \in Turns PROVE PromptOK(u)'
    <2>1. PromptOK(u)
      BY DEF IInv, WiresOK
    <2> QED
      BY <1>2, <2>1 DEF PromptOK, Spawned
  <1> QED
    BY <1>2, <1>3

LEMMA PromptsMoveOn ==
    ASSUME PromptsMove
    PROVE  SpawnedStay
  BY DEF PromptsMove, SpawnedStay, Spawned

-----------------------------------------------------------------------------
(* Steps of a call that leave the sessions and the tasks alone *)

(* The call goes on at m. *)
LEMMA CallGoes ==
    ASSUME IInv, sessions' = sessions, owner' = owner, prompts' = prompts, scope' = scope,
           conns' \in [Conns -> ConnType], slot' \in Conns \cup {None}, ConnsShrink,
           cancelled' \in [Turns -> BOOLEAN],
           NEW c \in Calls, NEW m \in CallType, acalls' = [acalls EXCEPT ![c] = m],
           m.pc \in {"idle", "cancel", "register", "waiting", "open_connect", "open_request",
                     "open_activate", "close_cancel", "close_complete", "close_remove", "close_idle",
                     "close_shutdown"},
           m.pc \in {"open_connect", "open_request", "open_activate"} => m.s \in Sessions /\ m.how # None,
           m.pc \in {"register", "waiting"} => m.t \in Turns /\ owner[m.t] \in Sessions,
           m.pc \in {"close_cancel", "close_complete"} =>
              m.t \in Turns /\ m.s \in Sessions /\ owner[m.t] = m.s /\ Spawned(m.t),
           m.pc = "close_remove" => m.s \in Sessions,
           Reserving(c) /\ OnlyReserved(acalls[c].s) =>
              m.s = acalls[c].s /\ (m.pc = "open_activate" \/ (m.pc = "open_request" /\ m.how = "new")),
           m.pc = "waiting" /\ m.got = None =>
              Exists(owner[m.t]) /\ sessions[owner[m.t]].completed[m.t] = None
    PROVE  IInv'
  <1>1. Typed
    BY DEF IInv
  <1>2. acalls' \in [Calls -> CallType] /\ acalls'[c] = m
        /\ \A d \in Calls \ {c} : acalls'[d] = acalls[d]
    BY <1>1, Moves
  <1>3. Others(Calls \ {c}, acalls')
    BY <1>2, StaysAsItWas DEF Others
  <1>4. PromptsMove /\ OwnersStay
    BY DEF PromptsMove, OwnersStay
  <1>5. CallOK(c)'
    BY <1>2 DEF CallOK, Opening, Deciding, Closing, Spawned
  <1>6. Reserving(c) /\ OnlyReserved(acalls[c].s) => Reserving(c)' /\ acalls'[c].s = acalls[c].s
    BY <1>2 DEF Reserving, Opening
  <1>7. \A d \in Calls \ (Calls \ {c}) : d = c
    OBVIOUS
  <1>8. Kept'
    BY <1>2, <1>3, <1>4, <1>5, <1>6, <1>7, QuietStep
  <1>9. WiresOK'
    BY <1>4, WiresKept
  <1>10. Typed'
    BY <1>1, <1>2, TypesOfParts, TypedNext
  <1> QED
    BY <1>8, <1>9, <1>10 DEF IInv

LEMMA CallsTyped ==
    ASSUME Typed
    PROVE  \A c \in Calls : acalls[c] \in CallType
  BY DEF Typed

LEMMA ConnsStay ==
    ASSUME Typed, conns' = conns, slot' = slot
    PROVE  conns' \in [Conns -> ConnType] /\ slot' \in Conns \cup {None} /\ ConnsShrink
  BY TypesOfParts DEF ConnsShrink

LEMMA ReturnStep ==
    ASSUME IInv, sessions' = sessions, owner' = owner, prompts' = prompts, scope' = scope,
           conns' \in [Conns -> ConnType], slot' \in Conns \cup {None}, ConnsShrink,
           cancelled' \in [Turns -> BOOLEAN],
           NEW c \in Calls, acalls' = AReturn(c), ~(Reserving(c) /\ OnlyReserved(acalls[c].s))
    PROVE  IInv'
  <1>1. /\ IdleCall.pc = "idle" /\ IdleCall \in CallType
    BY IdleCallType DEF IdleCall
  <1> QED
    BY <1>1, CallGoes DEF AReturn

LEMMA InterruptTurn ==
    ASSUME IInv, scope' = scope, NEW c \in Calls, NEW s \in Sessions, NEW t \in Turns,
           interrupt_turn(c, s, t)
    PROVE  IInv'
  <1> DEFINE m == [acalls[c] EXCEPT !.pc = "cancel"]
  <1>1. Typed
    BY DEF IInv
  <1>2. m \in CallType /\ m.pc = "cancel"
    BY <1>1, CallsTyped DEF CallType
  <1>3. acalls' = [acalls EXCEPT ![c] = m] /\ acalls[c].pc = "idle" /\ ~Reserving(c)
    BY DEF interrupt_turn, AGoto, Reserving, Opening
  <1>4. sessions' = sessions /\ owner' = owner /\ prompts' = prompts /\ conns' = conns /\ slot' = slot
        /\ cancelled' \in [Turns -> BOOLEAN]
    BY <1>1, TypesOfParts DEF interrupt_turn
  <1> HIDE DEF m
  <1> QED
    BY <1>1, <1>2, <1>3, <1>4, ConnsStay, CallGoes

LEMMA SendsCancel ==
    ASSUME IInv, scope' = scope, NEW c \in Calls, SendCancel(c)
    PROVE  IInv'
  <1>1. Typed /\ ~Reserving(c)
    BY DEF IInv, SendCancel, Reserving, Opening
  <1>2. conns' \in [Conns -> ConnType] /\ slot' \in Conns \cup {None} /\ ConnsShrink
    BY <1>1, Connects DEF SendCancel
  <1>3. cancelled' \in [Turns -> BOOLEAN]
    BY <1>1, TypesOfParts DEF SendCancel
  <1> QED
    BY <1>1, <1>2, <1>3, ReturnStep DEF SendCancel

LEMMA WaitForTurn ==
    ASSUME IInv, scope' = scope, NEW c \in Calls, NEW t \in Turns, wait_for_turn(c, t)
    PROVE  IInv'
  <1> DEFINE m == [IdleCall EXCEPT !.pc = "register", !.t = t]
  <1>1. Typed
    BY DEF IInv
  <1>2. m \in CallType /\ m.pc = "register" /\ m.t = t
    BY DEF CallType, IdleCall
  <1>3. acalls' = [acalls EXCEPT ![c] = m] /\ ~Reserving(c) /\ owner[t] \in Sessions
    BY <1>1, TypesOfParts DEF wait_for_turn, Reserving, Opening
  <1>4. sessions' = sessions /\ owner' = owner /\ prompts' = prompts /\ conns' = conns /\ slot' = slot
        /\ cancelled' \in [Turns -> BOOLEAN]
    BY <1>1, TypesOfParts DEF wait_for_turn
  <1> HIDE DEF m
  <1> QED
    BY <1>1, <1>2, <1>3, <1>4, ConnsStay, CallGoes

LEMMA Registers ==
    ASSUME IInv, scope' = scope, NEW c \in Calls, Register(c)
    PROVE  IInv'
  <1>1. Typed /\ ~Reserving(c) /\ acalls[c].pc = "register" /\ CallOK(c)
    BY DEF IInv, Kept, CallsOK, Register, Reserving, Opening
  <1>2. sessions' = sessions /\ owner' = owner /\ prompts' = prompts /\ conns' = conns /\ slot' = slot
        /\ cancelled' \in [Turns -> BOOLEAN]
    BY <1>1, TypesOfParts DEF Register
  <1>3. acalls[c].t \in Turns /\ owner[acalls[c].t] \in Sessions
    BY <1>1 DEF CallOK
  <1>4. CASE acalls' = AReturn(c)
    BY <1>1, <1>2, <1>4, ConnsStay, ReturnStep
  <1>5. CASE acalls' = AGoto(c, "waiting") /\ Exists(owner[acalls[c].t])
             /\ sessions[owner[acalls[c].t]].completed[acalls[c].t] = None
    <2> DEFINE m == [acalls[c] EXCEPT !.pc = "waiting"]
    <2>1. m \in CallType /\ m.pc = "waiting" /\ m.t = acalls[c].t
      BY <1>1, CallsTyped DEF CallType
    <2>2. acalls' = [acalls EXCEPT ![c] = m]
      BY <1>5 DEF AGoto
    <2> HIDE DEF m
    <2> QED
      BY <1>1, <1>2, <1>3, <1>5, <2>1, <2>2, ConnsStay, CallGoes
  <1> QED
    BY <1>4, <1>5 DEF Register

LEMMA WaitEnd ==
    ASSUME IInv, scope' = scope, NEW c \in Calls, WaitEnds(c)
    PROVE  IInv'
  <1>1. Typed /\ ~Reserving(c)
    BY DEF IInv, WaitEnds, Reserving, Opening
  <1>2. sessions' = sessions /\ owner' = owner /\ prompts' = prompts /\ conns' = conns /\ slot' = slot
        /\ cancelled' \in [Turns -> BOOLEAN] /\ acalls' = AReturn(c)
    BY <1>1, TypesOfParts DEF WaitEnds
  <1> QED
    BY <1>1, <1>2, ConnsStay, ReturnStep

LEMMA CloseSession ==
    ASSUME IInv, scope' = scope, NEW c \in Calls, NEW s \in Sessions, close_session(c, s)
    PROVE  IInv'
  <1> DEFINE t == sessions[s].active
             pc == IF t = None THEN "close_remove" ELSE "close_cancel"
             m == [IdleCall EXCEPT !.pc = pc, !.s = s, !.t = t]
  <1>1. Typed /\ SessionOK(s) /\ Exists(s)
    BY DEF IInv, Kept, SessionsOK, close_session
  <1>2. sessions[s] \in SessionType
    BY <1>1, TypesOfParts DEF Exists
  <1>3. t \in Turns \cup {None} /\ (t # None => owner[t] = s /\ Spawned(t))
    BY <1>1, <1>2 DEF SessionType, SessionOK, Spawned
  <1>4. m \in CallType /\ m.pc = pc /\ m.s = s /\ m.t = t
    BY <1>3 DEF CallType, IdleCall
  <1>5. acalls' = [acalls EXCEPT ![c] = m] /\ ~Reserving(c)
    BY DEF close_session, Reserving, Opening
  <1>6. sessions' = sessions /\ owner' = owner /\ prompts' = prompts /\ conns' = conns /\ slot' = slot
        /\ cancelled' \in [Turns -> BOOLEAN]
    BY <1>1, TypesOfParts DEF close_session
  <1>7. pc \in {"close_remove", "close_cancel"} /\ (pc = "close_cancel" => t # None)
    OBVIOUS
  <1> HIDE DEF m, pc, t
  <1> QED
    BY <1>1, <1>3, <1>4, <1>5, <1>6, <1>7, ConnsStay, CallGoes

LEMMA ClosingCancels ==
    ASSUME IInv, scope' = scope, NEW c \in Calls, CloseCancel(c)
    PROVE  IInv'
  <1> DEFINE m == [acalls[c] EXCEPT !.pc = "close_complete"]
  <1>1. Typed /\ ~Reserving(c) /\ CallOK(c) /\ Closing(c)
    BY DEF IInv, Kept, CallsOK, CloseCancel, Reserving, Opening, Closing
  <1>2. /\ m \in CallType /\ m.pc = "close_complete" /\ m.s = acalls[c].s /\ m.t = acalls[c].t
    BY <1>1, CallsTyped DEF CallType
  <1>3. acalls' = [acalls EXCEPT ![c] = m] /\ sessions' = sessions /\ owner' = owner /\ prompts' = prompts
    BY DEF CloseCancel, AGoto
  <1>4. conns' \in [Conns -> ConnType] /\ slot' \in Conns \cup {None} /\ ConnsShrink
    BY <1>1, Connects, ConnsStay DEF CloseCancel
  <1>5. cancelled' \in [Turns -> BOOLEAN]
    BY <1>1, TypesOfParts DEF CloseCancel
  <1>6. /\ acalls[c].t \in Turns /\ acalls[c].s \in Sessions /\ owner[acalls[c].t] = acalls[c].s
        /\ Spawned(acalls[c].t)
    BY <1>1 DEF CallOK
  <1> HIDE DEF m
  <1> QED
    BY <1>1, <1>2, <1>3, <1>4, <1>5, <1>6, CallGoes

LEMMA CloseLooksForIdle ==
    ASSUME IInv, scope' = scope, NEW c \in Calls, CloseIdle(c)
    PROVE  IInv'
  <1> DEFINE m == [acalls[c] EXCEPT !.pc = "close_shutdown"]
  <1>1. Typed /\ ~Reserving(c)
    BY DEF IInv, CloseIdle, Reserving, Opening
  <1>2. sessions' = sessions /\ owner' = owner /\ prompts' = prompts /\ conns' = conns /\ slot' = slot
        /\ cancelled' \in [Turns -> BOOLEAN]
    BY <1>1, TypesOfParts DEF CloseIdle
  <1>3. CASE acalls' = AReturn(c)
    BY <1>1, <1>2, <1>3, ConnsStay, ReturnStep
  <1>4. CASE acalls' = AGoto(c, "close_shutdown")
    <2>1. m \in CallType /\ m.pc = "close_shutdown"
      BY <1>1, CallsTyped DEF CallType
    <2>2. acalls' = [acalls EXCEPT ![c] = m]
      BY <1>4 DEF AGoto
    <2> HIDE DEF m
    <2> QED
      BY <1>1, <1>2, <2>1, <2>2, ConnsStay, CallGoes
  <1> QED
    BY <1>3, <1>4 DEF CloseIdle

-----------------------------------------------------------------------------
(* Steps that remove a session or complete a turn *)

(* The call ends, or goes on, with the session removed. *)
LEMMA RemoveStep ==
    ASSUME IInv, scope' = scope, owner' = owner, prompts' = prompts, cancelled' = cancelled,
           conns' \in [Conns -> ConnType], slot' \in Conns \cup {None}, ConnsShrink,
           NEW c \in Calls, acalls[c].s \in Sessions, NEW calls \in [Calls -> CallType],
           \A d \in Calls \ {c} : calls[d] = acalls[d],
           calls[c].pc \in {"idle", "close_idle"},
           Remove(acalls[c].s, calls)
    PROVE  IInv'
  <1>1. Typed /\ OwnersStay
    BY DEF IInv, OwnersStay
  <1>2. Follows(calls)
    BY <1>1, Removes
  <1>3. Others(Calls \ {c}, calls)
    BY <1>2 DEF Others
  <1>4. \A d \in Calls \ (Calls \ {c}) : d = c
    OBVIOUS
  <1>5. Kept' /\ sessions' \in [Sessions -> SessionType \cup {None}]
    BY <1>3, <1>4, RemovingStep
  <1>6. WiresOK'
    BY <1>1, WiresKept
  <1>7. Typed'
    BY <1>1, <1>2, <1>5, TypesOfParts, TypedNext DEF Follows
  <1> QED
    BY <1>5, <1>6, <1>7 DEF IInv

LEMMA ReleaseStep ==
    ASSUME IInv, scope' = scope, owner' = owner, prompts' = prompts, cancelled' = cancelled,
           conns' \in [Conns -> ConnType], slot' \in Conns \cup {None}, ConnsShrink,
           NEW c \in Calls, Opening(c), Release(c)
    PROVE  IInv'
  <1>1. Typed /\ acalls[c].s \in Sessions
    BY DEF IInv, Kept, CallsOK, CallOK
  <1>2. AReturn(c) \in [Calls -> CallType] /\ AReturn(c)[c].pc = "idle"
        /\ \A d \in Calls \ {c} : AReturn(c)[d] = acalls[d]
    BY <1>1, Returns DEF IdleCall
  <1> QED
    BY <1>1, <1>2, RemoveStep DEF Release

LEMMA OpenConnects ==
    ASSUME IInv, scope' = scope, NEW c \in Calls, OpenConnect(c)
    PROVE  IInv'
  <1>1. Typed /\ Opening(c) /\ acalls[c].pc = "open_connect" /\ CallOK(c)
    BY DEF IInv, Kept, CallsOK, OpenConnect, Opening
  <1>2. owner' = owner /\ cancelled' = cancelled /\ prompts' = prompts
    BY DEF OpenConnect
  <1>3. conns' \in [Conns -> ConnType] /\ slot' \in Conns \cup {None} /\ ConnsShrink
    BY <1>1, Connects DEF OpenConnect
  <1>4. CASE Release(c)
    BY <1>1, <1>2, <1>3, <1>4, ReleaseStep
  <1>5. ASSUME NEW k \in Conns, sessions' = sessions,
               acalls' = [acalls EXCEPT ![c].conn = k,
                  ![c].pc = IF acalls[c].how = "new" THEN "open_request" ELSE "open_activate"]
        PROVE  IInv'
    <2> DEFINE pc == IF acalls[c].how = "new" THEN "open_request" ELSE "open_activate"
               m == [acalls[c] EXCEPT !.conn = k, !.pc = pc]
    <2>0. acalls[c] \in CallType
      BY <1>1, TypesOfParts
    <2>2. acalls' = [acalls EXCEPT ![c] = m]
      BY <1>5
    <2>3. pc \in {"open_request", "open_activate"} /\ (pc = "open_request" => acalls[c].how = "new")
      OBVIOUS
    <2> HIDE DEF pc
    <2>1. /\ m \in CallType /\ m.pc = pc /\ m.s = acalls[c].s /\ m.how = acalls[c].how
      BY <2>0, <2>3 DEF CallType
    <2>4. acalls[c].s \in Sessions /\ acalls[c].how # None /\ cancelled' \in [Turns -> BOOLEAN]
      BY <1>1, <1>2, TypesOfParts DEF CallOK
    <2> HIDE DEF m, pc
    <2> QED
      BY <1>2, <1>3, <1>5, <2>1, <2>2, <2>3, <2>4, CallGoes
  <1> QED
    BY <1>4, <1>5 DEF OpenConnect

LEMMA OpenRequests ==
    ASSUME IInv, scope' = scope, NEW c \in Calls, OpenRequest(c)
    PROVE  IInv'
  <1>1. Typed /\ Opening(c) /\ acalls[c].pc = "open_request" /\ CallOK(c)
    BY DEF IInv, Kept, CallsOK, OpenRequest, Opening
  <1>2. owner' = owner /\ cancelled' = cancelled /\ prompts' = prompts /\ conns' = conns /\ slot' = slot
    BY DEF OpenRequest
  <1>3. conns' \in [Conns -> ConnType] /\ slot' \in Conns \cup {None} /\ ConnsShrink
        /\ cancelled' \in [Turns -> BOOLEAN]
    BY <1>1, <1>2, ConnsStay, TypesOfParts
  <1>4. CASE Release(c)
    BY <1>1, <1>2, <1>3, <1>4, ReleaseStep
  <1>5. CASE sessions' = sessions /\ acalls[c].how # "new" /\ acalls' = AReturn(c)
    BY <1>1, <1>2, <1>3, <1>5, ReturnStep DEF Reserving
  <1>6. CASE sessions' = sessions /\ acalls[c].how = "new" /\ acalls' = AGoto(c, "open_activate")
    <2> DEFINE m == [acalls[c] EXCEPT !.pc = "open_activate"]
    <2>0. acalls[c] \in CallType
      BY <1>1, TypesOfParts
    <2>1. /\ m \in CallType /\ m.pc = "open_activate" /\ m.s = acalls[c].s /\ m.how = acalls[c].how
      BY <2>0 DEF CallType
    <2>2. acalls' = [acalls EXCEPT ![c] = m]
      BY <1>6 DEF AGoto
    <2>3. acalls[c].s \in Sessions /\ acalls[c].how # None
      BY <1>1 DEF CallOK
    <2> HIDE DEF m
    <2> QED
      BY <1>2, <1>3, <1>6, <2>1, <2>2, <2>3, CallGoes
  <1> QED
    BY <1>4, <1>5, <1>6 DEF OpenRequest

LEMMA CloseRemoves ==
    ASSUME IInv, scope' = scope, NEW c \in Calls, CloseRemove(c)
    PROVE  IInv'
  <1>1. Typed /\ acalls[c].s \in Sessions
    BY DEF IInv, Kept, CallsOK, CallOK, CloseRemove
  <1>2. owner' = owner /\ cancelled' = cancelled /\ prompts' = prompts /\ conns' = conns /\ slot' = slot
        /\ Remove(acalls[c].s, AGoto(c, "close_idle"))
    BY DEF CloseRemove
  <1>3. AGoto(c, "close_idle") \in [Calls -> CallType] /\ AGoto(c, "close_idle")[c].pc = "close_idle"
        /\ \A d \in Calls \ {c} : AGoto(c, "close_idle")[d] = acalls[d]
    BY <1>1, GoesOn
  <1> QED
    BY <1>1, <1>2, <1>3, ConnsStay, RemoveStep

(* The calls outside C are the one that completes a turn, if it is a call. *)
Caller(C, calls) ==
    /\ C \subseteq Calls /\ calls \in [Calls -> CallType]
    /\ \A d \in C : calls[d] = acalls[d]
    /\ \A c \in Calls \ C : /\ ~Reserving(c) /\ calls[c].pc \in {"idle", "close_remove"}
                            /\ calls[c].pc = "close_remove" => calls[c].s \in Sessions

(* A turn is completed by a call, by its own task or by the agent. *)
LEMMA CompleteStep ==
    ASSUME IInv, scope' = scope, owner' = owner, cancelled' = cancelled,
           conns' \in [Conns -> ConnType], slot' \in Conns \cup {None}, ConnsShrink,
           NEW t \in Turns, owner[t] \in Sessions, NEW status \in Results,
           prompts' = prompts \/ (Spawned(t) /\ prompts' = [prompts EXCEPT ![t] = Done]),
           NEW C, NEW calls, Caller(C, calls), Bystanders(C, t),
           complete_turn(owner[t], t, status, calls)
    PROVE  IInv'
  <1>1. Typed /\ SessionOK(owner[t])
    BY DEF IInv, Kept, SessionsOK
  <1>2. /\ Completed(owner[t], t) /\ Follows(calls)
        /\ Exists(owner[t]) /\ sessions[owner[t]].completed[t] = None => Told({t})
    BY <1>1, Completes DEF Caller
  <1>3. Others(C, calls)
    BY <1>2 DEF Others, Caller
  <1>4. Done \in PromptType /\ Done.pc = "done"
    BY DEF Done, NewPrompt, PromptType
  <1>5. /\ prompts' \in [Turns -> PromptType] /\ (\A u \in Turns : PromptOK(u)')
        /\ TaskEnds(t)
    <2>1. CASE prompts' = prompts
      BY <1>1, <2>1, TypesOfParts DEF IInv, WiresOK, PromptOK, Spawned, TaskEnds
    <2>2. CASE Spawned(t) /\ prompts' = [prompts EXCEPT ![t] = Done]
      <3>1. /\ prompts' \in [Turns -> PromptType] /\ prompts'[t] = Done
            /\ \A u \in Turns \ {t} : prompts'[u] = prompts[u]
            /\ \A u \in Turns : PromptOK(u)'
        BY <1>4, <2>2, PromptGoes
      <3> QED
        BY <1>4, <2>2, <3>1 DEF TaskEnds
    <2> QED
      BY <2>1, <2>2
  <1>6. Completers(C)
    <2> SUFFICES ASSUME NEW c \in Calls \ C
                 PROVE  ~Reserving(c) /\ acalls'[c].pc \in {"idle", "close_remove"} /\ CallOK(c)'
      BY DEF Completers
    <2>1. acalls'[c].pc = calls[c].pc /\ acalls'[c].s = calls[c].s
      BY <1>2 DEF Follows
    <2>2. ~Reserving(c) /\ acalls'[c].pc \in {"idle", "close_remove"}
          /\ (acalls'[c].pc = "close_remove" => acalls'[c].s \in Sessions)
      BY <2>1 DEF Caller
    <2> QED
      BY <2>2 DEF CallOK, Opening, Deciding, Closing
  <1>7. Kept'
    BY <1>2, <1>3, <1>5, <1>6, CompletingStep
  <1>8. SpawnedStay
    BY <1>5 DEF SpawnedStay, Spawned, TaskEnds
  <1>9. WiresOK'
    BY <1>5, <1>8, ConnsKept DEF WiresOK
  <1>10. Typed'
    BY <1>1, <1>2, <1>5, TypesOfParts, TypedNext DEF Follows, Completed
  <1> QED
    BY <1>7, <1>9, <1>10 DEF IInv

LEMMA CloseCompletes ==
    ASSUME IInv, scope' = scope, NEW c \in Calls, CloseComplete(c)
    PROVE  IInv'
  <1> DEFINE t == acalls[c].t
             calls == AGoto(c, "close_remove")
  <1>1. Typed /\ CallOK(c) /\ acalls[c].pc = "close_complete"
    BY DEF IInv, Kept, CallsOK, CloseComplete
  <1>2. t \in Turns /\ acalls[c].s \in Sessions /\ owner[t] = acalls[c].s /\ Spawned(t)
    BY <1>1 DEF CallOK, Closing
  <1>3. owner' = owner /\ cancelled' = cancelled /\ prompts' = prompts /\ conns' = conns /\ slot' = slot
        /\ complete_turn(owner[t], t, "interrupted", calls)
    BY <1>2 DEF CloseComplete
  <1>4. /\ calls \in [Calls -> CallType] /\ calls[c].pc = "close_remove" /\ calls[c].s = acalls[c].s
        /\ \A d \in Calls \ {c} : calls[d] = acalls[d]
    BY <1>1, GoesOn
  <1>5. \A d \in Calls : Deciding(d) => acalls[d].t # t
    BY <1>2 DEF IInv, Kept, CallsOK, CallOK, DecisionOK
  <1>6. ~Reserving(c) /\ "interrupted" \in Results
    BY <1>1 DEF Reserving, Opening, Results
  <1>7. \A d \in Calls \ (Calls \ {c}) : d = c
    OBVIOUS
  <1>8. conns' \in [Conns -> ConnType] /\ slot' \in Conns \cup {None} /\ ConnsShrink
    BY <1>1, <1>3, ConnsStay
  <1> HIDE DEF t, calls
  <1>9. Caller(Calls \ {c}, calls) /\ Bystanders(Calls \ {c}, t)
    BY <1>2, <1>4, <1>5, <1>6, <1>7 DEF Caller, Bystanders
  <1> QED
    BY <1>2, <1>3, <1>6, <1>8, <1>9, CompleteStep

LEMMA Declines ==
    ASSUME IInv, scope' = scope, NEW c \in Calls, acalls[c].pc = "decline", Decide(c)
    PROVE  IInv'
  <1> DEFINE t == acalls[c].t
             calls == AReturn(c)
  <1>1. Typed /\ CallOK(c) /\ Deciding(c)
    BY DEF IInv, Kept, CallsOK, Deciding
  <1>2. DecisionOK(c) /\ t \in Turns /\ acalls[c].s \in Sessions /\ owner[t] = acalls[c].s
    BY <1>1 DEF CallOK, DecisionOK
  <1>3. owner' = owner /\ cancelled' = cancelled /\ prompts' = prompts /\ conns' = conns /\ slot' = slot
        /\ complete_turn(owner[t], t, "interrupted", calls)
    BY <1>2 DEF Decide
  <1>4. /\ calls \in [Calls -> CallType] /\ calls[c].pc = "idle"
        /\ \A d \in Calls \ {c} : calls[d] = acalls[d]
    BY <1>1, Returns DEF IdleCall
  <1>5. \A d \in Calls \ {c} : Deciding(d) => acalls[d].t # t
    BY <1>2 DEF DecisionOK
  <1>6. ~Reserving(c) /\ "interrupted" \in Results
    BY <1>1 DEF Reserving, Opening, Deciding, Results
  <1>7. \A d \in Calls \ (Calls \ {c}) : d = c
    OBVIOUS
  <1>8. conns' \in [Conns -> ConnType] /\ slot' \in Conns \cup {None} /\ ConnsShrink
    BY <1>1, <1>3, ConnsStay
  <1> HIDE DEF t, calls
  <1>9. Caller(Calls \ {c}, calls) /\ Bystanders(Calls \ {c}, t)
    BY <1>2, <1>4, <1>5, <1>6, <1>7 DEF Caller, Bystanders
  <1> QED
    BY <1>2, <1>3, <1>6, <1>8, <1>9, CompleteStep

-----------------------------------------------------------------------------
(* Steps of requests that change their session *)

LEMMA CloseShutsDown ==
    ASSUME IInv, scope' = scope, NEW c \in Calls, CloseShutdown(c)
    PROVE  IInv'
  <1>1. Typed /\ ~Reserving(c)
    BY DEF IInv, CloseShutdown, Reserving, Opening
  <1>2. sessions' = sessions /\ owner' = owner /\ cancelled' = cancelled /\ acalls' = AReturn(c)
        /\ slot' = None
    BY DEF CloseShutdown
  <1>3. CASE slot = None
    <2>1. conns' = conns /\ prompts' = prompts
      BY <1>3 DEF CloseShutdown
    <2>2. conns' \in [Conns -> ConnType] /\ slot' \in Conns \cup {None} /\ ConnsShrink
          /\ cancelled' \in [Turns -> BOOLEAN]
      BY <1>1, <1>2, <2>1, TypesOfParts DEF ConnsShrink
    <2> QED
      BY <1>1, <1>2, <2>1, <2>2, ReturnStep
  <1>4. CASE slot # None
    <2> DEFINE k == [conns[slot] EXCEPT !.closed = TRUE, !.pending = {}, !.agent = "dead"]
    <2>1. slot \in Conns /\ conns \in [Conns -> ConnType]
      BY <1>1, <1>4, TypesOfParts
    <2>2. k \in ConnType /\ k.pending = {} /\ k.working = conns[slot].working
      BY <2>1 DEF ConnType
    <2>3. conns' = [conns EXCEPT ![slot] = k] /\ FailPending(slot)
      BY <1>4 DEF CloseShutdown
    <2> HIDE DEF k
    <2>4. conns' \in [Conns -> ConnType] /\ ConnsShrink
      BY <2>1, <2>2, <2>3 DEF ConnsShrink
    <2>5. /\ prompts' \in [Turns -> PromptType] /\ PromptsMove
          /\ \A t \in Turns : PromptOK(t)'
      BY <1>2, <2>1, <2>3, FailsPending
    <2>6. /\ acalls' \in [Calls -> CallType] /\ acalls'[c].pc = "idle"
          /\ \A d \in Calls \ {c} : acalls'[d] = acalls[d]
      BY <1>1, <1>2, Returns DEF IdleCall
    <2>7. Others(Calls \ {c}, acalls')
      BY <2>6, StaysAsItWas DEF Others
    <2>8. CallOK(c)'
      BY <2>6 DEF CallOK, Opening, Deciding, Closing
    <2>9. \A d \in Calls \ (Calls \ {c}) : d = c
      OBVIOUS
    <2>10. Kept'
      BY <1>1, <1>2, <2>5, <2>6, <2>7, <2>8, <2>9, QuietStep
    <2>11. WiresOK'
      BY <2>4, <2>5, PromptsMoveOn, ConnsKept DEF WiresOK
    <2>12. Typed'
      BY <1>1, <1>2, <2>4, <2>5, <2>6, TypesOfParts, TypedNext
    <2> QED
      BY <2>10, <2>11, <2>12 DEF IInv
  <1> QED
    BY <1>3, <1>4

(* One session changes, and the call c; the session holds its turns.       *)
LEMMA SessionStep ==
    ASSUME IInv, scope' = scope, cancelled' = cancelled, owner' = owner, conns' = conns, slot' = slot,
           NEW s \in Sessions, NEW e \in SessionType, sessions' = [sessions EXCEPT ![s] = e],
           prompts' \in [Turns -> PromptType], SpawnedStay, \A t \in Turns : PromptOK(t)',
           NEW c \in Calls, NEW m \in CallType, acalls' = [acalls EXCEPT ![c] = m],
           CallOK(c)', SessionOK(s)', m.pc # "waiting",
           Exists(s) => e.completed = sessions[s].completed,
           ~Exists(s) => e.completed = [t \in Turns |-> None],
           \A d \in Calls \ {c} : Undisturbed(d),
           \A r \in Sessions \ {s} : SessionOK(r)',
           ~e.ready /\ ~e.left => OnlyReserved(s) \/ (Reserving(c)' /\ m.s = s),
           Reserving(c) => acalls[c].s = s /\ (e.ready \/ e.left)
    PROVE  IInv'
  <1>1. Typed /\ OwnersStay
    BY DEF IInv, OwnersStay
  <1>2. acalls' \in [Calls -> CallType] /\ acalls'[c] = m
        /\ \A d \in Calls \ {c} : acalls'[d] = acalls[d]
    BY <1>1, Moves
  <1>3. Others(Calls \ {c}, acalls')
    BY <1>2, StaysAsItWas DEF Others
  <1>4. \A d \in Calls \ (Calls \ {c}) : d = c
    OBVIOUS
  <1>5. /\ sessions' \in [Sessions -> SessionType \cup {None}] /\ sessions'[s] = e
        /\ \A r \in Sessions \ {s} : sessions'[r] = sessions[r]
    BY <1>1, TypesOfParts
  <1>6. CallsOK'
    BY <1>1, <1>3, <1>4, OtherCalls
  <1>7. SlotsHeld'
    <2> SUFFICES ASSUME NEW r \in Sessions, OnlyReserved(r)'
                 PROVE  \E d \in Calls : Reserving(d)' /\ acalls'[d].s = r
      BY DEF SlotsHeld
    <2>1. CASE r # s
      <3>1. OnlyReserved(r)
        BY <1>5, <2>1 DEF Exists, OnlyReserved
      <3>2. \A d \in Calls \ (Calls \ {c}) :
               Reserving(d) => acalls[d].s # r \/ (Reserving(d)' /\ acalls'[d].s = r)
        BY <1>4, <2>1
      <3> QED
        BY <1>3, <3>1, <3>2, Holders
    <2>2. CASE r = s /\ OnlyReserved(s)
      <3>1. ~Reserving(c)
        BY <1>5, <2>2 DEF OnlyReserved
      <3> QED
        BY <1>3, <1>4, <2>2, <3>1, Holders
    <2>3. CASE r = s /\ Reserving(c)' /\ m.s = s
      BY <1>2, <2>3
    <2> QED
      BY <1>5, <2>1, <2>2, <2>3 DEF OnlyReserved
  <1>8. NoMissedResult'
    <2> SUFFICES ASSUME NEW d \in Calls, acalls'[d].pc = "waiting", acalls'[d].got = None
                 PROVE  /\ sessions'[owner[acalls'[d].t]] # None
                        /\ sessions'[owner[acalls'[d].t]].completed[acalls'[d].t] = None
      BY DEF NoMissedResult, Exists
    <2>1. d \in Calls \ {c}
      BY <1>2
    <2>2. /\ acalls'[d].t = acalls[d].t /\ acalls[d].t \in Turns
          /\ owner[acalls[d].t] \in Sessions /\ Exists(owner[acalls[d].t])
          /\ sessions[owner[acalls[d].t]].completed[acalls[d].t] = None
      BY <1>3, <2>1, Waiters
    <2> QED
      BY <1>5, <2>2, Distinct DEF Exists
  <1>9. SessionsOK'
    BY DEF SessionsOK
  <1>10. WiresOK'
    BY <1>1, ConnsKept, ConnsStay DEF WiresOK
  <1>11. Typed'
    BY <1>1, <1>2, <1>5, TypesOfParts, TypedNext
  <1> QED
    BY <1>6, <1>7, <1>8, <1>9, <1>10, <1>11 DEF IInv, Kept

LEMMA OtherSessions ==
    ASSUME IInv, OwnersStay, NEW r \in Sessions, sessions'[r] = sessions[r],
           \A t \in Turns : owner[t] = r => prompts'[t].pc = prompts[t].pc
    PROVE  SessionOK(r)'
  <1> SUFFICES ASSUME Exists(r) PROVE SessionOK(r)'
    BY DEF SessionOK, Exists
  <1>1. SessionOK(r) /\ sessions[r] \in SessionType
    BY TypesOfParts DEF IInv, Kept, SessionsOK, Exists
  <1>2. /\ sessions[r].active \in Turns \cup {None} /\ sessions[r].approvals \subseteq Turns
    BY <1>1 DEF SessionType
  <1> QED
    BY <1>1, <1>2, Distinct DEF SessionOK, Exists, Spawned, OwnersStay

(* What a change of one session must keep for the decisions under way. *)
LEMMA OtherDecisions ==
    ASSUME IInv, NEW s \in Sessions, NEW e \in SessionType, sessions' = [sessions EXCEPT ![s] = e],
           NEW d \in Calls, Deciding(d) => prompts'[acalls[d].t].pc = prompts[acalls[d].t].pc,
           Exists(s) => /\ e.completed = sessions[s].completed
                        /\ e.approvals \subseteq sessions[s].approvals,
           ~Exists(s) => e.completed = [t \in Turns |-> None] /\ e.approvals = {}
    PROVE  Undisturbed(d)
  <1> SUFFICES ASSUME Deciding(d) PROVE Undisturbed(d)
    BY DEF Undisturbed
  <1>1. DecisionOK(d)
    BY DEF IInv, Kept, CallsOK, CallOK
  <1>2. /\ sessions'[s] = e /\ \A r \in Sessions \ {s} : sessions'[r] = sessions[r]
    BY TypesOfParts DEF IInv
  <1>3. CASE acalls[d].s # s
    BY <1>1, <1>2, <1>3 DEF DecisionOK, Undisturbed, Exists, Spawned
  <1>4. CASE acalls[d].s = s
    BY <1>1, <1>2, <1>4 DEF DecisionOK, Undisturbed, Exists, Spawned
  <1> QED
    BY <1>3, <1>4

LEMMA OpenSession ==
    ASSUME IInv, scope' = scope, NEW c \in Calls, NEW s \in Sessions, NEW how \in {"new", "resume"},
           open_session(c, s, how)
    PROVE  IInv'
  <1> DEFINE m == [IdleCall EXCEPT !.pc = "open_connect", !.s = s, !.how = how]
  <1>1. Typed /\ ~Reserving(c)
    BY DEF IInv, open_session, Reserving, Opening
  <1>2. m \in CallType /\ m.pc = "open_connect" /\ m.s = s /\ m.how = how /\ how # None
    BY Distinct DEF CallType, IdleCall
  <1>3. acalls' = [acalls EXCEPT ![c] = m]
    BY DEF open_session
  <1>4. owner' = owner /\ cancelled' = cancelled /\ prompts' = prompts /\ conns' = conns /\ slot' = slot
    BY DEF open_session
  <1> HIDE DEF m
  <1>5. CASE Exists(s)
    <2>1. sessions' = sessions /\ cancelled' \in [Turns -> BOOLEAN]
      BY <1>1, <1>4, <1>5, TypesOfParts DEF open_session
    <2> QED
      BY <1>1, <1>2, <1>3, <1>4, <2>1, ConnsStay, CallGoes
  <1>6. CASE ~Exists(s)
    <2>1. sessions' = [sessions EXCEPT ![s] = NewSession]
      BY <1>6 DEF open_session
    <2>2. /\ NewSession \in SessionType /\ ~NewSession.ready /\ NewSession.active = None
          /\ NewSession.approvals = {} /\ NewSession.completed = [t \in Turns |-> None]
      BY DEF NewSession, SessionType
    <2>3. /\ sessions'[s] = NewSession /\ \A r \in Sessions \ {s} : sessions'[r] = sessions[r]
      BY <1>1, <2>1, TypesOfParts
    <2>4. SessionOK(s)'
      BY <2>2, <2>3 DEF SessionOK
    <2>5. OwnersStay /\ SpawnedStay /\ prompts' \in [Turns -> PromptType]
      BY <1>1, <1>4, TypesOfParts DEF OwnersStay, SpawnedStay, Spawned
    <2>6. \A t \in Turns : PromptOK(t)'
      BY <1>4 DEF IInv, WiresOK, PromptOK, Spawned
    <2>7. acalls'[c] = m
      BY <1>1, <1>2, <1>3, Moves
    <2>8. CallOK(c)' /\ Reserving(c)'
      BY <1>2, <2>7 DEF CallOK, Opening, Deciding, Closing, Reserving
    <2>9. \A r \in Sessions \ {s} : SessionOK(r)'
      BY <1>4, <2>3, <2>5, OtherSessions
    <2>10. \A d \in Calls : Undisturbed(d)
      BY <1>4, <1>6, <2>1, <2>2, OtherDecisions
    <2> QED
      BY <1>1, <1>2, <1>3, <1>4, <1>6, <2>1, <2>2, <2>4, <2>5, <2>6, <2>8, <2>9, <2>10, SessionStep
  <1> QED
    BY <1>5, <1>6

LEMMA Activates ==
    ASSUME IInv, scope' = scope, NEW c \in Calls, activate_reserved_session(c)
    PROVE  IInv'
  <1>1. Typed /\ Opening(c) /\ acalls[c].pc = "open_activate" /\ CallOK(c)
    BY DEF IInv, Kept, CallsOK, activate_reserved_session, Opening
  <1>2. owner' = owner /\ cancelled' = cancelled /\ prompts' = prompts /\ conns' = conns /\ slot' = slot
    BY DEF activate_reserved_session
  <1>3. PICK s \in Sessions : s = acalls[c].s /\ acalls[c].how # None
    BY <1>1 DEF CallOK
  <1> DEFINE e == [sessions[s] EXCEPT !.ready = TRUE]
  <1>4. CASE Release(c)
    BY <1>1, <1>2, <1>4, ConnsStay, ReleaseStep
  <1>5. CASE Exists(s) /\ sessions' = [sessions EXCEPT ![s].ready = TRUE]
             /\ acalls' = IF acalls[c].how = "new" THEN AReturn(c) ELSE AGoto(c, "open_request")
    <2>1. sessions[s] \in SessionType
      BY <1>1, <1>3, <1>5, TypesOfParts DEF Exists
    <2>2. /\ e \in SessionType /\ e.ready /\ e.active = sessions[s].active
          /\ e.approvals = sessions[s].approvals /\ e.completed = sessions[s].completed
      BY <2>1 DEF SessionType
    <2>3. sessions' = [sessions EXCEPT ![s] = e]
      BY <1>5
    <2> HIDE DEF e
    <2>4. /\ sessions'[s] = e /\ \A r \in Sessions \ {s} : sessions'[r] = sessions[r]
      BY <1>1, <1>3, <2>3, TypesOfParts
    <2>5. SessionOK(s)'
      BY <1>2, <1>3, <1>5, <2>2, <2>4 DEF SessionOK, Spawned, Exists, IInv, Kept, SessionsOK
    <2>6. OwnersStay /\ SpawnedStay /\ prompts' \in [Turns -> PromptType]
      BY <1>1, <1>2, TypesOfParts DEF OwnersStay, SpawnedStay, Spawned
    <2>7. \A t \in Turns : PromptOK(t)'
      BY <1>2 DEF IInv, WiresOK, PromptOK, Spawned
    <2>8. PICK m \in CallType : /\ acalls' = [acalls EXCEPT ![c] = m]
                                /\ m.pc = "idle" \/ (m.pc = "open_request" /\ m.s = s /\ m.how # None)
      <3>1. CASE acalls' = AReturn(c)
        BY <3>1, IdleCallType DEF AReturn, IdleCall
      <3>2. CASE acalls' = AGoto(c, "open_request")
        <4> DEFINE m == [acalls[c] EXCEPT !.pc = "open_request"]
        <4>1. m \in CallType /\ m.pc = "open_request" /\ m.s = acalls[c].s /\ m.how = acalls[c].how
          BY <1>1, CallsTyped DEF CallType
        <4>2. acalls' = [acalls EXCEPT ![c] = m]
          BY <3>2 DEF AGoto
        <4> HIDE DEF m
        <4> QED
          BY <1>3, <4>1, <4>2
      <3> QED
        BY <1>5, <3>1, <3>2
    <2>9. acalls'[c] = m
      BY <1>1, <2>8, Moves
    <2>10. CallOK(c)'
      BY <1>3, <2>8, <2>9 DEF CallOK, Opening, Deciding, Closing
    <2>11. \A r \in Sessions \ {s} : SessionOK(r)'
      BY <1>2, <2>4, <2>6, OtherSessions
    <2>12. \A d \in Calls : Undisturbed(d)
      BY <1>2, <1>3, <1>5, <2>2, <2>3, OtherDecisions
    <2>13. m.pc # "waiting"
      BY <2>8
    <2> QED
      BY <1>2, <1>3, <1>5, <2>2, <2>3, <2>5, <2>6, <2>7, <2>8, <2>10, <2>11, <2>12, <2>13,
         SessionStep
  <1> QED
    BY <1>3, <1>4, <1>5 DEF activate_reserved_session

LEMMA RespondApproval ==
    ASSUME IInv, scope' = scope, NEW c \in Calls, NEW s \in Sessions, NEW t \in Turns,
           NEW decision \in {"accept", "decline"}, respond_approval(c, s, t, decision)
    PROVE  IInv'
  <1> DEFINE e == [sessions[s] EXCEPT !.approvals = @ \ {t}]
             m == [IdleCall EXCEPT !.pc = decision, !.s = s, !.t = t]
  <1>1. Typed /\ ~Reserving(c) /\ Exists(s) /\ SessionOK(s) /\ t \in sessions[s].approvals
    BY DEF IInv, Kept, SessionsOK, respond_approval, Reserving, Opening
  <1>2. owner' = owner /\ cancelled' = cancelled /\ prompts' = prompts /\ conns' = conns /\ slot' = slot
        /\ acalls' = [acalls EXCEPT ![c] = m]
    BY DEF respond_approval
  <1>3. sessions[s] \in SessionType
    BY <1>1, TypesOfParts DEF Exists
  <1>4. /\ e \in SessionType /\ e.ready = sessions[s].ready /\ e.left = sessions[s].left
        /\ e.active = sessions[s].active
        /\ e.approvals = sessions[s].approvals \ {t} /\ e.completed = sessions[s].completed
    BY <1>3 DEF SessionType
  <1>5. sessions' = [sessions EXCEPT ![s] = e]
    BY DEF respond_approval
  <1>6. m \in CallType /\ m.pc = decision /\ m.s = s /\ m.t = t
    BY DEF CallType, IdleCall
  <1> HIDE DEF e, m
  <1>7. /\ sessions'[s] = e /\ \A r \in Sessions \ {s} : sessions'[r] = sessions[r]
    BY <1>1, <1>5, TypesOfParts
  <1>8. acalls'[c] = m /\ \A d \in Calls \ {c} : acalls'[d] = acalls[d]
    BY <1>1, <1>2, <1>6, Moves
  <1>9. SessionOK(s)'
    BY <1>1, <1>2, <1>4, <1>7 DEF SessionOK, Spawned, Exists
  <1>10. OwnersStay /\ SpawnedStay /\ prompts' \in [Turns -> PromptType]
    BY <1>1, <1>2, TypesOfParts DEF OwnersStay, SpawnedStay, Spawned
  <1>11. \A u \in Turns : PromptOK(u)'
    BY <1>2 DEF IInv, WiresOK, PromptOK, Spawned
  <1>12. \A r \in Sessions \ {s} : SessionOK(r)'
    BY <1>2, <1>7, <1>10, OtherSessions
  <1>13. \A d \in Calls : Undisturbed(d)
    BY <1>1, <1>2, <1>4, <1>5, OtherDecisions
  <1>14. \A d \in Calls : Deciding(d) => acalls[d].t # t
    BY <1>1 DEF IInv, Kept, CallsOK, CallOK, DecisionOK, SessionOK
  <1>15. owner[t] = s /\ ~Spawned(t) /\ sessions[s].completed[t] = None
    BY <1>1 DEF SessionOK
  <1>16. DecisionOK(c)'
    BY <1>2, <1>4, <1>6, <1>7, <1>8, <1>14, <1>15 DEF DecisionOK, Deciding, Spawned, Exists
  <1>17. CallOK(c)' /\ m.pc # "waiting"
    BY <1>6, <1>8, <1>16 DEF CallOK, Opening, Closing
  <1>18. ~e.ready /\ ~e.left => OnlyReserved(s)
    BY <1>1, <1>4 DEF OnlyReserved
  <1> QED
    BY <1>1, <1>2, <1>4, <1>5, <1>6, <1>9, <1>10, <1>11, <1>12, <1>13, <1>17, <1>18, SessionStep

(* A request that is dropped leaves its slot and gives up its decision. *)
LEMMA Drops ==
    ASSUME IInv, scope' = scope, NEW c \in Calls, DropCall(c)
    PROVE  IInv'
  <1>1. Typed /\ CallOK(c)
    BY DEF IInv, Kept, CallsOK
  <1>2. /\ owner' = owner /\ cancelled' = cancelled /\ prompts' = prompts /\ conns' = conns
        /\ slot' = slot /\ acalls' = AReturn(c) /\ acalls' = [acalls EXCEPT ![c] = IdleCall]
    BY DEF DropCall, AReturn
  <1>3. CASE ~(Opening(c) /\ OnlyReserved(acalls[c].s))
    <2>1. sessions' = sessions /\ cancelled' \in [Turns -> BOOLEAN]
      BY <1>1, <1>2, <1>3, TypesOfParts DEF DropCall, Opening
    <2> QED
      BY <1>1, <1>2, <1>3, <2>1, ConnsStay, ReturnStep DEF Reserving
  <1>4. CASE Opening(c) /\ OnlyReserved(acalls[c].s)
    <2>1. PICK s \in Sessions : s = acalls[c].s /\ OnlyReserved(s) /\ Exists(s)
      BY <1>1, <1>4 DEF CallOK, OnlyReserved
    <2> DEFINE e == [sessions[s] EXCEPT !.left = TRUE]
    <2>2. sessions[s] \in SessionType
      BY <1>1, <2>1, TypesOfParts DEF Exists
    <2>3. /\ e \in SessionType /\ e.left /\ e.active = sessions[s].active
          /\ e.approvals = sessions[s].approvals /\ e.completed = sessions[s].completed
      BY <2>2 DEF SessionType
    <2>4. sessions' = [sessions EXCEPT ![s] = e]
      BY <1>4, <2>1 DEF DropCall, Opening
    <2> HIDE DEF e
    <2>5. /\ sessions'[s] = e /\ \A r \in Sessions \ {s} : sessions'[r] = sessions[r]
      BY <1>1, <2>4, TypesOfParts
    <2>6. SessionOK(s)'
      BY <1>2, <2>1, <2>3, <2>5 DEF SessionOK, Spawned, Exists, IInv, Kept, SessionsOK
    <2>7. OwnersStay /\ SpawnedStay /\ prompts' \in [Turns -> PromptType]
      BY <1>1, <1>2, TypesOfParts DEF OwnersStay, SpawnedStay, Spawned
    <2>8. \A t \in Turns : PromptOK(t)'
      BY <1>2 DEF IInv, WiresOK, PromptOK, Spawned
    <2>9. acalls'[c] = IdleCall /\ IdleCall \in CallType /\ IdleCall.pc = "idle"
      BY <1>1, <1>2, IdleCallType, Moves DEF IdleCall
    <2>10. CallOK(c)'
      BY <2>9 DEF CallOK, Opening, Deciding, Closing
    <2>11. \A r \in Sessions \ {s} : SessionOK(r)'
      BY <1>2, <2>5, <2>7, OtherSessions
    <2>12. \A d \in Calls : Undisturbed(d)
      BY <1>2, <2>1, <2>3, <2>4, OtherDecisions
    <2> QED
      BY <1>2, <2>1, <2>3, <2>4, <2>6, <2>7, <2>8, <2>9, <2>10, <2>11, <2>12, SessionStep
  <1> QED
    BY <1>3, <1>4

(* The decision to go on: the turn runs if its session is free. *)
LEMMA Accepts ==
    ASSUME IInv, scope' = scope, NEW c \in Calls, acalls[c].pc = "accept", Decide(c)
    PROVE  IInv'
  <1>1. Typed /\ CallOK(c) /\ Deciding(c) /\ ~Reserving(c)
    BY DEF IInv, Kept, CallsOK, Deciding, Reserving, Opening
  <1>2. PICK s \in Sessions, t \in Turns : s = acalls[c].s /\ t = acalls[c].t /\ owner[t] = s
    BY <1>1 DEF CallOK, DecisionOK
  <1>3. /\ ~Spawned(t) /\ (Exists(s) => sessions[s].completed[t] = None)
        /\ \A d \in Calls \ {c} : Deciding(d) => acalls[d].t # t
    BY <1>1, <1>2 DEF CallOK, DecisionOK
  <1>4. owner' = owner /\ cancelled' = cancelled /\ conns' = conns /\ slot' = slot
        /\ acalls' = [acalls EXCEPT ![c] = IdleCall]
    BY DEF Decide, AReturn
  <1>5. CASE ~Free(s)
    <2>1. sessions' = sessions /\ prompts' = prompts
      BY <1>2, <1>5 DEF Decide
    <2>2. cancelled' \in [Turns -> BOOLEAN]
      BY <1>1, <1>4, TypesOfParts
    <2> QED
      BY <1>1, <1>4, <2>1, <2>2, ConnsStay, ReturnStep DEF AReturn
  <1>6. CASE Free(s)
    <2> DEFINE e == [sessions[s] EXCEPT !.active = t]
               p == [prompts[t] EXCEPT !.pc = "connect"]
    <2>1. Exists(s) /\ sessions[s].approvals = {} /\ execute_turn(s, t)
      BY <1>2, <1>6 DEF Decide, Free
    <2>2. sessions[s] \in SessionType /\ prompts[t] \in PromptType
      BY <1>1, <2>1, TypesOfParts DEF Exists
    <2>3. /\ e \in SessionType /\ e.ready = sessions[s].ready /\ e.left = sessions[s].left
          /\ e.active = t
          /\ e.approvals = sessions[s].approvals /\ e.completed = sessions[s].completed
      BY <2>2 DEF SessionType
    <2>4. p \in PromptType /\ p.pc = "connect"
      BY <2>2 DEF PromptType
    <2>5. sessions' = [sessions EXCEPT ![s] = e] /\ prompts' = [prompts EXCEPT ![t] = p]
      BY <2>1 DEF execute_turn
    <2> HIDE DEF e, p
    <2>6. /\ prompts' \in [Turns -> PromptType] /\ prompts'[t] = p
          /\ \A u \in Turns \ {t} : prompts'[u] = prompts[u]
          /\ \A u \in Turns : PromptOK(u)'
      BY <1>2, <1>4, <2>4, <2>5, PromptGoes
    <2>7. /\ sessions'[s] = e /\ \A r \in Sessions \ {s} : sessions'[r] = sessions[r]
      BY <1>1, <2>5, TypesOfParts
    <2>8. SessionOK(s)'
      <3>1. SessionOK(s)
        BY DEF IInv, Kept, SessionsOK
      <3> QED
        BY <1>2, <1>3, <1>4, <2>1, <2>3, <2>4, <2>6, <2>7, <3>1 DEF SessionOK, Spawned, Exists
    <2>9. OwnersStay /\ SpawnedStay
      BY <1>4, <2>4, <2>6 DEF OwnersStay, SpawnedStay, Spawned
    <2>10. \A r \in Sessions \ {s} : SessionOK(r)'
      BY <1>2, <2>6, <2>7, <2>9, OtherSessions
    <2>11. ASSUME NEW d \in Calls \ {c} PROVE Undisturbed(d)
      <3>1. Deciding(d) => acalls[d].t \in Turns \ {t}
        BY <1>3 DEF IInv, Kept, CallsOK, CallOK, DecisionOK
      <3>2. Deciding(d) => prompts'[acalls[d].t].pc = prompts[acalls[d].t].pc
        BY <2>6, <3>1
      <3> QED
        BY <2>1, <2>3, <2>5, <3>2, OtherDecisions
    <2>12. acalls'[c] = IdleCall /\ IdleCall \in CallType /\ IdleCall.pc = "idle"
      BY <1>1, <1>4, IdleCallType, Moves DEF IdleCall
    <2>13. CallOK(c)'
      BY <2>12 DEF CallOK, Opening, Deciding, Closing
    <2>14. ~e.ready /\ ~e.left => OnlyReserved(s)
      BY <2>1, <2>3 DEF OnlyReserved
    <2> QED
      BY <1>1, <1>4, <2>1, <2>3, <2>5, <2>6, <2>8, <2>9, <2>10, <2>11, <2>12, <2>13, <2>14, SessionStep
  <1> QED
    BY <1>5, <1>6

(* A new turn changes its session, its owner and perhaps its task. *)
LEMMA SendTurn ==
    ASSUME IInv, scope' = scope, NEW s \in Sessions, NEW approval \in BOOLEAN, send_turn(s, approval)
    PROVE  IInv'
  <1>1. Typed /\ Exists(s) /\ sessions[s].active = None /\ sessions[s].approvals = {} /\ SessionOK(s)
    BY DEF IInv, Kept, SessionsOK, send_turn, Free
  <1>2. PICK t \in Turns : /\ owner[t] = None /\ owner' = [owner EXCEPT ![t] = s]
                           /\ IF approval
                              THEN /\ sessions' = [sessions EXCEPT ![s].approvals = {t}]
                                   /\ prompts' = prompts
                              ELSE execute_turn(s, t)
    BY DEF send_turn
  <1>3. cancelled' = cancelled /\ conns' = conns /\ slot' = slot /\ acalls' = acalls
    BY DEF send_turn
  <1>4. sessions[s] \in SessionType /\ prompts[t] \in PromptType /\ t # None /\ None \notin Sessions
    BY <1>1, TypesOfParts, Distinct DEF Exists
  <1>5. ~Spawned(t) /\ sessions[s].completed[t] = None /\ PromptOK(t)
    BY <1>1, <1>2, <1>4 DEF SessionOK, IInv, WiresOK, PromptOK
  <1>6. /\ owner' \in [Turns -> Sessions \cup {None}] /\ owner'[t] = s
        /\ \A u \in Turns \ {t} : owner'[u] = owner[u]
    BY <1>1, <1>2, TypesOfParts
  <1>7. OwnersStay
    BY <1>2, <1>6 DEF OwnersStay
  <1>8. PICK e \in SessionType, p \in PromptType :
           /\ sessions' = [sessions EXCEPT ![s] = e] /\ prompts' = [prompts EXCEPT ![t] = p]
           /\ e.ready = sessions[s].ready /\ e.left = sessions[s].left
           /\ e.completed = sessions[s].completed
           /\ \/ e.active = None /\ e.approvals = {t} /\ p.pc = "none"
              \/ e.active = t /\ e.approvals = {} /\ p.pc = "connect"
    <2>1. CASE approval
      <3> DEFINE e == [sessions[s] EXCEPT !.approvals = {t}]
      <3>1. /\ e \in SessionType /\ e.ready = sessions[s].ready /\ e.left = sessions[s].left
            /\ e.active = None
            /\ e.approvals = {t} /\ e.completed = sessions[s].completed
        BY <1>1, <1>4 DEF SessionType
      <3>2. sessions' = [sessions EXCEPT ![s] = e]
        BY <1>2, <2>1
      <3>3. prompts' = [prompts EXCEPT ![t] = prompts[t]] /\ prompts[t].pc = "none"
        BY <1>1, <1>2, <1>5, <2>1, TypesOfParts DEF Spawned
      <3> HIDE DEF e
      <3> QED
        BY <1>4, <3>1, <3>2, <3>3
    <2>2. CASE ~approval
      <3> DEFINE e == [sessions[s] EXCEPT !.active = t]
                 p == [prompts[t] EXCEPT !.pc = "connect"]
      <3>1. /\ e \in SessionType /\ e.ready = sessions[s].ready /\ e.left = sessions[s].left
            /\ e.active = t
            /\ e.approvals = {} /\ e.completed = sessions[s].completed
        BY <1>1, <1>4 DEF SessionType
      <3>2. p \in PromptType /\ p.pc = "connect"
        BY <1>4 DEF PromptType
      <3>3. sessions' = [sessions EXCEPT ![s] = e] /\ prompts' = [prompts EXCEPT ![t] = p]
        BY <1>2, <2>2 DEF execute_turn
      <3> HIDE DEF e, p
      <3> QED
        BY <3>1, <3>2, <3>3
    <2> QED
      BY <2>1, <2>2
  <1>9. /\ sessions' \in [Sessions -> SessionType \cup {None}] /\ sessions'[s] = e
        /\ \A r \in Sessions \ {s} : sessions'[r] = sessions[r]
    BY <1>1, <1>8, TypesOfParts
  <1>10. /\ prompts' \in [Turns -> PromptType] /\ prompts'[t] = p
         /\ \A u \in Turns \ {t} : prompts'[u] = prompts[u]
    BY <1>1, <1>8, TypesOfParts
  <1>11. SpawnedStay
    BY <1>5, <1>10 DEF SpawnedStay, Spawned
  <1>12. Others(Calls, acalls)
    BY <1>1, <1>3, StaysAsItWas, TypesOfParts DEF Others
  <1>13. CallsOK'
    <2>1. ASSUME NEW d \in Calls PROVE Undisturbed(d)
      <3> SUFFICES ASSUME Deciding(d) PROVE Undisturbed(d)
        BY DEF Undisturbed
      <3>1. DecisionOK(d) /\ acalls[d].t # t /\ acalls[d].t \in Turns /\ acalls[d].s \in Sessions
        BY <1>2, <1>4 DEF IInv, Kept, CallsOK, CallOK, DecisionOK
      <3>2. prompts'[acalls[d].t].pc = "none"
        BY <1>10, <3>1 DEF DecisionOK, Spawned
      <3>3. CASE acalls[d].s = s
        BY <1>1, <1>8, <1>9, <3>1, <3>2, <3>3 DEF Undisturbed, DecisionOK
      <3>4. CASE acalls[d].s # s
        BY <1>9, <3>1, <3>2, <3>4 DEF Undisturbed, DecisionOK, Exists
      <3> QED
        BY <3>3, <3>4
    <2> QED
      BY <1>7, <1>11, <1>12, <2>1, OtherCalls
  <1>14. SessionOK(s)'
    <2>1. e.active # None => /\ owner'[e.active] = s /\ prompts'[e.active].pc \notin {"none", "done"}
                             /\ e.completed[e.active] = None
      BY <1>4, <1>5, <1>6, <1>8, <1>10
    <2>2. \A u \in e.approvals : owner'[u] = s /\ prompts'[u].pc = "none" /\ e.completed[u] = None
      BY <1>4, <1>5, <1>6, <1>8, <1>10
    <2>3. \A u \in Turns : e.completed[u] # None => owner'[u] = s
      BY <1>1, <1>5, <1>6, <1>8 DEF SessionOK
    <2> QED
      BY <1>9, <2>1, <2>2, <2>3 DEF SessionOK, Spawned
  <1>15. ASSUME NEW r \in Sessions \ {s} PROVE SessionOK(r)'
    BY <1>2, <1>4, <1>7, <1>9, <1>10, OtherSessions
  <1>16. SlotsHeld'
    <2> SUFFICES ASSUME NEW r \in Sessions, OnlyReserved(r)'
                 PROVE  \E d \in Calls : Reserving(d)' /\ acalls'[d].s = r
      BY DEF SlotsHeld
    <2>1. OnlyReserved(r)
      BY <1>1, <1>8, <1>9 DEF Exists, OnlyReserved
    <2> QED
      BY <1>12, <2>1, Holders
  <1>17. NoMissedResult'
    <2> SUFFICES ASSUME NEW d \in Calls, acalls'[d].pc = "waiting", acalls'[d].got = None
                 PROVE  /\ sessions'[owner'[acalls'[d].t]] # None
                        /\ sessions'[owner'[acalls'[d].t]].completed[acalls'[d].t] = None
      BY DEF NoMissedResult, Exists
    <2>1. /\ acalls'[d].t = acalls[d].t /\ acalls[d].t \in Turns
          /\ owner[acalls[d].t] \in Sessions /\ Exists(owner[acalls[d].t])
          /\ sessions[owner[acalls[d].t]].completed[acalls[d].t] = None
      BY <1>12, Waiters
    <2>2. owner'[acalls[d].t] = owner[acalls[d].t]
      BY <1>4, <1>7, <2>1 DEF OwnersStay
    <2> QED
      BY <1>8, <1>9, <2>1, <2>2, Distinct DEF Exists
  <1>18. WiresOK'
    <2>1. ASSUME NEW u \in Turns PROVE PromptOK(u)'
      <3>1. CASE u = t
        BY <1>6, <1>8, <1>10, <3>1 DEF PromptOK, Spawned
      <3>2. CASE u # t
        BY <1>6, <1>10, <3>2 DEF PromptOK, Spawned, IInv, WiresOK
      <3> QED
        BY <3>1, <3>2
    <2> QED
      BY <1>1, <1>3, <1>11, <2>1, ConnsStay, ConnsKept DEF WiresOK
  <1>19. Typed'
    BY <1>1, <1>3, <1>6, <1>9, <1>10, TypesOfParts, TypedNext
  <1> QED
    BY <1>13, <1>14, <1>15, <1>16, <1>17, <1>18, <1>19 DEF IInv, Kept, SessionsOK

-----------------------------------------------------------------------------
(* Tasks, agents and readers *)

(* A step of theirs that completes nothing. *)
LEMMA WireStep ==
    ASSUME IInv, scope' = scope, sessions' = sessions, owner' = owner, cancelled' = cancelled,
           acalls' = acalls, prompts' \in [Turns -> PromptType], PromptsMove,
           conns' \in [Conns -> ConnType], slot' \in Conns \cup {None},
           \A t \in Turns : PromptOK(t)', \A k \in Conns : ConnOK(k)'
    PROVE  IInv'
  <1>1. Typed
    BY DEF IInv
  <1>2. Others(Calls, acalls)
    BY <1>1, StaysAsItWas, TypesOfParts DEF Others
  <1>3. Kept'
    BY <1>2, QuietStep
  <1>4. Typed'
    BY <1>1, TypesOfParts, TypedNext
  <1> QED
    BY <1>3, <1>4 DEF IInv, WiresOK

(* One task goes on and no connection gets to know it. *)
LEMMA TaskStep ==
    ASSUME IInv, scope' = scope, sessions' = sessions, owner' = owner, cancelled' = cancelled,
           acalls' = acalls, conns' \in [Conns -> ConnType], slot' \in Conns \cup {None}, ConnsShrink,
           NEW t \in Turns, Spawned(t), NEW p \in PromptType, prompts' = [prompts EXCEPT ![t] = p],
           p.pc \notin {"none", "done"}, p.pc \in {"check", "insert"} => p.conn \in Conns,
           p.pc = "answered" => p.answer \in Results \cup {"error"}
    PROVE  IInv'
  <1>1. owner[t] \in Sessions
    BY DEF IInv, WiresOK, PromptOK
  <1>2. /\ prompts' \in [Turns -> PromptType] /\ prompts'[t] = p
        /\ \A u \in Turns \ {t} : prompts'[u] = prompts[u]
        /\ \A u \in Turns : PromptOK(u)'
    BY <1>1, PromptGoes
  <1>3. PromptsMove
    BY <1>2 DEF PromptsMove
  <1>4. \A k \in Conns : ConnOK(k)'
    BY <1>3, PromptsMoveOn, ConnsKept
  <1> QED
    BY <1>2, <1>3, <1>4, WireStep

LEMMA PromptConnects ==
    ASSUME IInv, scope' = scope, NEW t \in Turns, PromptConnect(t)
    PROVE  IInv'
  <1>1. Typed /\ Spawned(t) /\ owner[t] \in Sessions /\ prompts[t] \in PromptType
    BY TypesOfParts DEF IInv, WiresOK, PromptOK, PromptConnect, Spawned
  <1>2. owner' = owner /\ cancelled' = cancelled
    BY DEF PromptConnect
  <1>3. conns' \in [Conns -> ConnType] /\ slot' \in Conns \cup {None} /\ ConnsShrink
    BY <1>1, Connects DEF PromptConnect
  <1>4. CASE complete_turn(owner[t], t, "failed", acalls) /\ prompts' = [prompts EXCEPT ![t] = Done]
    <2>1. Caller(Calls, acalls) /\ Bystanders(Calls, t) /\ "failed" \in Results
      BY <1>1, TypesOfParts
         DEF Caller, Bystanders, Results, IInv, Kept, CallsOK, CallOK, DecisionOK
    <2> QED
      BY <1>1, <1>2, <1>3, <1>4, <2>1, CompleteStep
  <1>5. ASSUME NEW k \in Conns, prompts' = [prompts EXCEPT ![t].pc = "check", ![t].conn = k],
               sessions' = sessions, acalls' = acalls
        PROVE  IInv'
    <2> DEFINE p == [prompts[t] EXCEPT !.pc = "check", !.conn = k]
    <2>1. p \in PromptType /\ p.pc = "check" /\ p.conn = k
      BY <1>1 DEF PromptType
    <2>2. prompts' = [prompts EXCEPT ![t] = p]
      BY <1>5
    <2> HIDE DEF p
    <2> QED
      BY <1>1, <1>2, <1>3, <1>5, <2>1, <2>2, TaskStep
  <1> QED
    BY <1>4, <1>5 DEF PromptConnect

LEMMA PromptChecks ==
    ASSUME IInv, scope' = scope, NEW t \in Turns, PromptCheck(t)
    PROVE  IInv'
  <1> DEFINE a == [prompts[t] EXCEPT !.pc = "answered", !.answer = "error"]
             i == [prompts[t] EXCEPT !.pc = "insert"]
  <1>1. Typed /\ Spawned(t) /\ prompts[t] \in PromptType /\ prompts[t].conn \in Conns
    BY TypesOfParts DEF IInv, WiresOK, PromptOK, PromptCheck, Spawned
  <1>2. a \in PromptType /\ a.pc = "answered" /\ a.answer = "error"
    BY <1>1 DEF PromptType
  <1>3. i \in PromptType /\ i.pc = "insert" /\ i.conn = prompts[t].conn
    BY <1>1 DEF PromptType
  <1>4. /\ sessions' = sessions /\ owner' = owner /\ cancelled' = cancelled /\ conns' = conns
        /\ slot' = slot /\ acalls' = acalls
        /\ prompts' = [prompts EXCEPT ![t] = a] \/ prompts' = [prompts EXCEPT ![t] = i]
    BY DEF PromptCheck
  <1> HIDE DEF a, i
  <1> QED
    BY <1>1, <1>2, <1>3, <1>4, ConnsStay, TaskStep

LEMMA PromptInserts ==
    ASSUME IInv, scope' = scope, NEW t \in Turns, PromptInsert(t)
    PROVE  IInv'
  <1>1. Typed /\ Spawned(t) /\ prompts[t] \in PromptType /\ owner[t] \in Sessions
    BY TypesOfParts DEF IInv, WiresOK, PromptOK, PromptInsert, Spawned
  <1>2. PICK k \in Conns : k = prompts[t].conn
    BY DEF IInv, WiresOK, PromptOK, PromptInsert
  <1>3. /\ sessions' = sessions /\ owner' = owner /\ cancelled' = cancelled /\ slot' = slot
        /\ acalls' = acalls
    BY DEF PromptInsert
  <1>4. CASE /\ prompts' = [prompts EXCEPT ![t].pc = "answered", ![t].answer = "error"]
             /\ conns' = conns
    <2> DEFINE p == [prompts[t] EXCEPT !.pc = "answered", !.answer = "error"]
    <2>1. p \in PromptType /\ p.pc = "answered" /\ p.answer = "error"
      BY <1>1 DEF PromptType
    <2>2. prompts' = [prompts EXCEPT ![t] = p]
      BY <1>4
    <2> HIDE DEF p
    <2> QED
      BY <1>1, <1>3, <1>4, <2>1, <2>2, ConnsStay, TaskStep
  <1>5. CASE /\ conns' = [conns EXCEPT ![k].pending = @ \cup {t}, ![k].working = @ \cup {t}]
             /\ prompts' = [prompts EXCEPT ![t].pc = "waiting", ![t].late = conns[k].closed]
    <2> DEFINE p == [prompts[t] EXCEPT !.pc = "waiting", !.late = conns[k].closed]
               n == [conns[k] EXCEPT !.pending = @ \cup {t}, !.working = @ \cup {t}]
    <2>2. conns \in [Conns -> ConnType] /\ slot \in Conns \cup {None}
      BY <1>1, TypesOfParts
    <2>1. p \in PromptType /\ p.pc = "waiting"
      BY <1>1, <2>2 DEF PromptType, ConnType
    <2>3. n \in ConnType /\ n.pending = conns[k].pending \cup {t} /\ n.working = conns[k].working \cup {t}
      BY <2>2 DEF ConnType
    <2>4. prompts' = [prompts EXCEPT ![t] = p] /\ conns' = [conns EXCEPT ![k] = n]
      BY <1>5
    <2> HIDE DEF p, n
    <2>5. /\ prompts' \in [Turns -> PromptType] /\ prompts'[t] = p
          /\ \A u \in Turns \ {t} : prompts'[u] = prompts[u]
          /\ \A u \in Turns : PromptOK(u)'
      BY <1>1, <1>3, <2>1, <2>4, PromptGoes
    <2>6. PromptsMove
      BY <1>1, <2>1, <2>5 DEF PromptsMove
    <2>7. /\ conns' \in [Conns -> ConnType] /\ conns'[k] = n
          /\ \A j \in Conns \ {k} : conns'[j] = conns[j]
      BY <2>2, <2>3, <2>4
    <2>8. ASSUME NEW j \in Conns, NEW u \in conns'[j].pending \cup conns'[j].working
          PROVE  prompts'[u].pc # "none"
      <3>1. u = t \/ u \in conns[j].pending \cup conns[j].working
        BY <2>3, <2>7, <2>8
      <3>2. u \in Turns /\ Spawned(u)
        BY <1>1, <2>2, <3>1 DEF IInv, WiresOK, ConnOK, ConnType
      <3> QED
        BY <2>6, <3>2, PromptsMoveOn DEF SpawnedStay
    <2>9. \A j \in Conns : ConnOK(j)'
      BY <2>8 DEF ConnOK, Spawned
    <2> QED
      BY <1>3, <2>2, <2>5, <2>6, <2>7, <2>9, WireStep
  <1> QED
    BY <1>2, <1>4, <1>5 DEF PromptInsert

LEMMA PromptEnd ==
    ASSUME IInv, scope' = scope, NEW t \in Turns, PromptEnds(t)
    PROVE  IInv'
  <1>1. Typed /\ Spawned(t) /\ owner[t] \in Sessions /\ prompts[t].answer \in Results \cup {"error"}
    BY DEF IInv, WiresOK, PromptOK, PromptEnds, Spawned
  <1>2. PromptResult(t) \in Results
    BY <1>1 DEF PromptResult, Results
  <1>3. /\ owner' = owner /\ cancelled' = cancelled /\ conns' = conns /\ slot' = slot
        /\ complete_turn(owner[t], t, PromptResult(t), acalls) /\ prompts' = [prompts EXCEPT ![t] = Done]
    BY DEF PromptEnds
  <1>4. Caller(Calls, acalls) /\ Bystanders(Calls, t)
    BY <1>1, TypesOfParts DEF Caller, Bystanders, IInv, Kept, CallsOK, CallOK, DecisionOK
  <1> QED
    BY <1>1, <1>2, <1>3, <1>4, ConnsStay, CompleteStep

LEMMA Answers ==
    ASSUME IInv, scope' = scope, NEW k \in Conns, NEW t \in Turns, NEW answer \in Results \cup {"error"},
           AgentAnswers(k, t, answer)
    PROVE  IInv'
  <1> DEFINE n == [conns[k] EXCEPT !.working = @ \ {t}, !.pending = @ \ {t}]
             p == [prompts[t] EXCEPT !.pc = "answered", !.answer = answer]
  <1>1. Typed /\ Spawned(t) /\ prompts[t] \in PromptType
    BY TypesOfParts DEF IInv, WiresOK, ConnOK, AgentAnswers
  <1>2. /\ sessions' = sessions /\ owner' = owner /\ cancelled' = cancelled /\ slot' = slot
        /\ acalls' = acalls /\ conns' = [conns EXCEPT ![k] = n]
        /\ prompts' = prompts \/ prompts' = [prompts EXCEPT ![t] = p]
    BY DEF AgentAnswers
  <1>3. conns \in [Conns -> ConnType] /\ slot \in Conns \cup {None}
    BY <1>1, TypesOfParts
  <1>4. n \in ConnType /\ n.pending \subseteq conns[k].pending /\ n.working \subseteq conns[k].working
    BY <1>3 DEF ConnType
  <1>5. p \in PromptType /\ p.pc = "answered" /\ p.answer = answer
    BY <1>1 DEF PromptType
  <1> HIDE DEF n, p
  <1>6. conns' \in [Conns -> ConnType] /\ ConnsShrink
    BY <1>2, <1>3, <1>4 DEF ConnsShrink
  <1>7. CASE prompts' = prompts
    <2>1. PromptsMove /\ OwnersStay /\ prompts' \in [Turns -> PromptType]
      BY <1>1, <1>2, <1>7, TypesOfParts DEF PromptsMove, OwnersStay
    <2>2. WiresOK'
      BY <1>6, <1>7, <2>1, WiresKept
    <2> QED
      BY <1>2, <1>3, <1>6, <2>1, <2>2, WireStep DEF WiresOK
  <1>8. CASE prompts' = [prompts EXCEPT ![t] = p]
    BY <1>1, <1>2, <1>3, <1>5, <1>6, <1>8, TaskStep
  <1> QED
    BY <1>2, <1>7, <1>8

LEMMA FailsPermission ==
    ASSUME IInv, scope' = scope, NEW k \in Conns, NEW t \in Turns, fail_permission_request(k, t)
    PROVE  IInv'
  <1>1. Typed /\ t \in conns[k].working /\ conns[k] \in ConnType
    BY TypesOfParts DEF IInv, fail_permission_request
  <1>2. owner[t] \in Sessions
    BY <1>1 DEF IInv, WiresOK, ConnOK, PromptOK
  <1>3. PICK s \in Sessions : s = owner[t]
    BY <1>2
  <1>4. Exists(s) /\ sessions[s].active # None /\ SessionOK(s)
    BY <1>3 DEF fail_permission_request, IInv, Kept, SessionsOK
  <1>5. sessions[s] \in SessionType
    BY <1>1, <1>4, TypesOfParts DEF Exists
  <1>6. PICK u \in Turns : u = sessions[s].active
    BY <1>4, <1>5 DEF SessionType
  <1>7. owner[u] = s /\ Spawned(u)
    BY <1>4, <1>6 DEF SessionOK, Spawned
  <1>8. /\ owner' = owner /\ cancelled' = cancelled /\ conns' = conns /\ slot' = slot
        /\ prompts' = prompts /\ complete_turn(owner[u], u, "failed", acalls)
    BY <1>3, <1>6, <1>7 DEF fail_permission_request
  <1>9. Caller(Calls, acalls) /\ Bystanders(Calls, u) /\ "failed" \in Results
    BY <1>1, <1>7, TypesOfParts
       DEF Caller, Bystanders, Results, IInv, Kept, CallsOK, CallOK, DecisionOK
  <1> QED
    BY <1>1, <1>7, <1>8, <1>9, ConnsStay, CompleteStep

(* A connection changes and gets to know no prompt; its prompts may fail. *)
LEMMA ConnStep ==
    ASSUME IInv, scope' = scope, sessions' = sessions, owner' = owner, cancelled' = cancelled,
           acalls' = acalls, conns' \in [Conns -> ConnType], slot' \in Conns \cup {None}, ConnsShrink,
           prompts' = prompts \/ \E k \in Conns : FailPending(k)
    PROVE  IInv'
  <1>1. /\ prompts' \in [Turns -> PromptType] /\ PromptsMove /\ \A t \in Turns : PromptOK(t)'
    <2>1. CASE prompts' = prompts
      BY <2>1, TypesOfParts DEF PromptsMove, IInv, WiresOK, PromptOK, Spawned
    <2>2. CASE \E k \in Conns : FailPending(k)
      BY <2>2, FailsPending
    <2> QED
      BY <2>1, <2>2
  <1>2. \A k \in Conns : ConnOK(k)'
    BY <1>1, PromptsMoveOn, ConnsKept
  <1> QED
    BY <1>1, <1>2, WireStep

LEMMA Exits ==
    ASSUME IInv, scope' = scope, NEW k \in Conns, AgentExits(k)
    PROVE  IInv'
  <1> DEFINE n == [conns[k] EXCEPT !.agent = "dead", !.working = {}]
  <1>1. conns \in [Conns -> ConnType] /\ slot \in Conns \cup {None}
    BY TypesOfParts DEF IInv
  <1>2. n \in ConnType /\ n.pending = conns[k].pending /\ n.working = {}
    BY <1>1 DEF ConnType
  <1>3. conns' = [conns EXCEPT ![k] = n]
    BY DEF AgentExits
  <1> HIDE DEF n
  <1>4. conns' \in [Conns -> ConnType] /\ ConnsShrink
    BY <1>1, <1>2, <1>3 DEF ConnsShrink
  <1> QED
    BY <1>1, <1>4, ConnStep DEF AgentExits

LEMMA MarksClosed ==
    ASSUME IInv, scope' = scope, NEW k \in Conns, MarkClosed(k)
    PROVE  IInv'
  <1> DEFINE m == [conns[k] EXCEPT !.reader = "reap"]
             n == [conns[k] EXCEPT !.closed = TRUE, !.pending = {}, !.reader = "reap"]
  <1>1. conns \in [Conns -> ConnType] /\ slot \in Conns \cup {None}
    BY TypesOfParts DEF IInv
  <1>2. m \in ConnType /\ m.pending = conns[k].pending /\ m.working = conns[k].working
    BY <1>1 DEF ConnType
  <1>3. n \in ConnType /\ n.pending = {} /\ n.working = conns[k].working
    BY <1>1 DEF ConnType
  <1>4. \/ conns' = [conns EXCEPT ![k] = m] /\ prompts' = prompts
        \/ conns' = [conns EXCEPT ![k] = n] /\ FailPending(k)
    BY DEF MarkClosed
  <1> HIDE DEF m, n
  <1>5. conns' \in [Conns -> ConnType] /\ ConnsShrink
    BY <1>1, <1>2, <1>3, <1>4 DEF ConnsShrink
  <1> QED
    BY <1>1, <1>4, <1>5, ConnStep DEF MarkClosed

LEMMA Reaps ==
    ASSUME IInv, scope' = scope, NEW k \in Conns, Reap(k)
    PROVE  IInv'
  <1> DEFINE r == IF slot = k THEN "take" ELSE "gone"
             n == [conns[k] EXCEPT !.reader = r]
  <1>1. conns \in [Conns -> ConnType] /\ slot \in Conns \cup {None} /\ r \in {"take", "gone"}
    BY TypesOfParts DEF IInv
  <1>2. conns' = [conns EXCEPT ![k] = n]
    BY DEF Reap
  <1> HIDE DEF r
  <1>3. n \in ConnType /\ n.pending = conns[k].pending /\ n.working = conns[k].working
    BY <1>1 DEF ConnType
  <1> HIDE DEF n
  <1>4. conns' \in [Conns -> ConnType]
    BY <1>1, <1>2, <1>3
  <1>5. ConnsShrink
    BY <1>1, <1>2, <1>3 DEF ConnsShrink
  <1>6. /\ sessions' = sessions /\ owner' = owner /\ cancelled' = cancelled /\ acalls' = acalls
        /\ slot' = slot /\ prompts' = prompts
    BY DEF Reap
  <1> QED
    BY <1>1, <1>4, <1>5, <1>6, ConnStep

LEMMA ReapingTakes ==
    ASSUME IInv, scope' = scope, NEW k \in Conns, ReapTakes(k)
    PROVE  IInv'
  <1>1. conns \in [Conns -> ConnType] /\ slot \in Conns \cup {None}
    BY TypesOfParts DEF IInv
  <1>2. ASSUME NEW j \in Conns
        PROVE  /\ conns'[j] \in ConnType /\ conns'[j].pending \subseteq conns[j].pending
               /\ conns'[j].working \subseteq conns[j].working
    <2> DEFINE x == [conns[j] EXCEPT !.reader = "gone"]
               y == [conns[j] EXCEPT !.reader = "gone", !.pending = {}]
               z == [conns[j] EXCEPT !.closed = TRUE, !.pending = {}]
    <2>1. conns[j] \in ConnType
      BY <1>1
    <2>2. x \in ConnType /\ x.pending = conns[j].pending /\ x.working = conns[j].working
      BY <2>1 DEF ConnType
    <2>3. y \in ConnType /\ y.pending = {} /\ y.working = conns[j].working
      BY <2>1 DEF ConnType
    <2>4. z \in ConnType /\ z.pending = {} /\ z.working = conns[j].working
      BY <2>1 DEF ConnType
    <2>5. conns'[j] \in {x, y, z, conns[j]}
      BY DEF ReapTakes
    <2> HIDE DEF x, y, z
    <2> QED
      BY <2>1, <2>2, <2>3, <2>4, <2>5
  <1>3. conns' = [j \in Conns |-> conns'[j]]
    BY DEF ReapTakes
  <1>4. conns' \in [Conns -> ConnType]
    BY <1>2, <1>3
  <1>5. prompts' = prompts \/ \E j \in Conns : FailPending(j)
    BY <1>1 DEF ReapTakes
  <1>6. ConnsShrink
    BY <1>2 DEF ConnsShrink
  <1>7. /\ sessions' = sessions /\ owner' = owner /\ cancelled' = cancelled /\ acalls' = acalls
        /\ slot' = None
    BY DEF ReapTakes
  <1> QED
    BY <1>4, <1>5, <1>6, <1>7, ConnStep

-----------------------------------------------------------------------------
(* The theorems *)

LEMMA Starts ==
    ASSUME AInit
    PROVE  IInv
  <1>1. Typed
    BY IdleCallType DEF AInit, Typed, ATypeOK, NewPrompt, NoConn, IdleCall
  <1>2. WiresOK
    BY DEF AInit, WiresOK, PromptOK, ConnOK, Spawned, NewPrompt, NoConn
  <1>3. Kept
    BY DEF AInit, Kept, CallsOK, CallOK, Opening, Deciding, Closing, SessionsOK, SessionOK, Exists,
           OnlyReserved, SlotsHeld, NoMissedResult, IdleCall
  <1> QED
    BY <1>1, <1>2, <1>3 DEF IInv

LEMMA Steps ==
    ASSUME IInv, ANext
    PROVE  IInv'
  <1>1. scope' = scope /\ scope.calls \subseteq Calls /\ scope.sessions \subseteq Sessions
    BY ScopesAreSmall DEF ANext, IInv, Typed
  <1>2. ASSUME NEW c \in Calls, ARequest(c) PROVE IInv'
    BY <1>1, <1>2, OpenSession, CloseSession, WaitForTurn, InterruptTurn, RespondApproval DEF ARequest
  <1>3. ASSUME NEW c \in Calls, AStep(c) PROVE IInv'
    <2>1. CASE Decide(c)
      <3>1. acalls[c].pc \in {"accept", "decline"}
        BY <2>1 DEF Decide
      <3> QED
        BY <1>1, <2>1, <3>1, Accepts, Declines
    <2> QED
      BY <1>1, <1>3, <2>1, OpenConnects, OpenRequests, Activates, SendsCancel, Registers, WaitEnd, Drops,
         ClosingCancels, CloseCompletes, CloseRemoves, CloseLooksForIdle, CloseShutsDown DEF AStep
  <1>4. ASSUME NEW s \in Sessions, NEW kind, send_turn(s, kind = "approve") PROVE IInv'
    BY <1>1, <1>4, SendTurn
  <1>5. ASSUME NEW t \in Turns, Prompt(t) PROVE IInv'
    BY <1>1, <1>5, PromptConnects, PromptChecks, PromptInserts, PromptEnd DEF Prompt
  <1>6. ASSUME NEW k \in Conns, Reader(k) \/ Agent(k) PROVE IInv'
    BY <1>1, <1>6, MarksClosed, Reaps, ReapingTakes, Exits, FailsPermission, Answers DEF Reader, Agent
  <1> QED
    BY <1>1, <1>2, <1>3, <1>4, <1>5, <1>6 DEF ANext

LEMMA Stutters ==
    ASSUME IInv, UNCHANGED avars
    PROVE  IInv'
  <1>1. Typed'
    BY DEF avars, IInv, Typed, ATypeOK
  <1>2. WiresOK'
    BY DEF avars, IInv, WiresOK, PromptOK, ConnOK, Spawned
  <1>3. CallsOK'
    BY DEF avars, IInv, Kept, CallsOK, CallOK, DecisionOK, Opening, Deciding, Closing, Spawned, Exists
  <1>4. SessionsOK' /\ SlotsHeld' /\ NoMissedResult'
    BY DEF avars, IInv, Kept, SessionsOK, SessionOK, SlotsHeld, OnlyReserved, NoMissedResult,
           Reserving, Opening, Spawned, Exists
  <1> QED
    BY <1>1, <1>2, <1>3, <1>4 DEF IInv, Kept

(* What the task of a turn and the tables of the connections say of it: a  *)
(* request is out while it is in the table of its connection, and it is    *)
(* there until that is closed, unless it came later.                       *)
Tended(t) ==
    LET k == prompts[t].conn
    IN  /\ prompts[t].pc = "waiting" =>
              /\ k \in Conns /\ conns[k].agent # "none"
              /\ ~prompts[t].late => t \in conns[k].pending /\ ~conns[k].closed
        /\ \A j \in Conns : t \in conns[j].pending => prompts[t].pc = "waiting" /\ j = k

(* Only the reader of a connection that is closed goes away. *)
IsRead(k) == conns[k] = NoConn \/ conns[k].closed \/ conns[k].reader = "reading"

Wired == (\A t \in Turns : Tended(t)) /\ (\A k \in Conns : IsRead(k))

LEMMA NotMade == NoConn.agent = "none" /\ NoConn.reader = "none"
  BY DEF NoConn

(* The tasks and the connections stay as they are. *)
LEMMA WiresStay ==
    ASSUME Wired, prompts' = prompts, conns' = conns
    PROVE  Wired'
  BY DEF Wired, Tended, IsRead

(* A task goes on that has no request out, on a connection it makes sure of. *)
LEMMA WiresExtend ==
    ASSUME Typed, Wired,
           conns' = conns \/ SpawnFails \/ (\E k \in Conns : ensure_connection(k)),
           \A t \in Turns : \/ prompts'[t] = prompts[t]
                            \/ prompts[t].pc # "waiting" /\ prompts'[t].pc # "waiting"
    PROVE  Wired'
  <1>1. conns \in [Conns -> ConnType]
    BY TypesOfParts
  <1>2. CASE conns' = conns
    BY <1>2 DEF Wired, Tended, IsRead
  <1>3. ASSUME NEW k \in Conns, k \in Unused, conns' = [conns EXCEPT ![k] = NewConn]
        PROVE  Wired'
    <2>1. /\ conns'[k] = NewConn /\ conns[k].agent = "none"
          /\ \A j \in Conns \ {k} : conns'[j] = conns[j]
      BY <1>1, <1>3 DEF Unused
    <2>2. NewConn.agent = "alive" /\ NewConn.pending = {} /\ NewConn.reader = "reading"
      BY DEF NewConn, NoConn
    <2>3. ASSUME NEW t \in Turns PROVE Tended(t)'
      <3>1. Tended(t)
        BY DEF Wired
      <3> QED
        BY <2>1, <2>2, <3>1 DEF Tended
    <2>4. ASSUME NEW j \in Conns PROVE IsRead(j)'
      BY <2>1, <2>2 DEF Wired, IsRead
    <2> QED
      BY <2>3, <2>4 DEF Wired
  <1> QED
    BY <1>2, <1>3 DEF SpawnFails, ensure_connection

(* A connection is closed and its table drained; others may lose readers   *)
(* that are through.                                                       *)
LEMMA WiresDrain ==
    ASSUME Typed, Wired, NEW k \in Conns, FailPending(k),
           conns'[k].pending = {} /\ conns'[k].closed,
           \A j \in Conns : /\ conns[j].agent # "none" => conns'[j].agent # "none"
                            /\ IsRead(j)'
                            /\ j # k => /\ conns'[j].pending = conns[j].pending
                                        /\ conns'[j].closed = conns[j].closed
    PROVE  Wired'
  <1>1. ASSUME NEW t \in Turns PROVE Tended(t)'
    <2>0. Tended(t) /\ prompts[t] \in PromptType
      BY TypesOfParts DEF Wired
    <2>1. CASE t \in conns[k].pending
      <3> DEFINE p == [prompts[t] EXCEPT !.pc = "answered", !.answer = "error"]
      <3>1. prompts'[t] = p
        BY <2>1 DEF FailPending
      <3>2. p.pc = "answered"
        BY <2>0 DEF PromptType
      <3> HIDE DEF p
      <3>3. \A j \in Conns : t \notin conns'[j].pending
        BY <2>0, <2>1 DEF Tended
      <3> QED
        BY <3>1, <3>2, <3>3 DEF Tended
    <2>2. CASE t \notin conns[k].pending
      <3>1. prompts'[t] = prompts[t]
        BY <2>2 DEF FailPending
      <3>2. \A j \in Conns : t \in conns'[j].pending <=> t \in conns[j].pending
        BY <2>2
      <3> QED
        BY <2>0, <2>2, <3>1, <3>2 DEF Tended
    <2> QED
      BY <2>1, <2>2
  <1> QED
    BY <1>1 DEF Wired

(* What the steps of the calls do to the wires. *)
LEMMA CallsTendWires ==
    ASSUME IInv, Wired, NEW c \in Calls, ARequest(c) \/ AStep(c)
    PROVE  Wired'
  <1>1. Typed
    BY DEF IInv
  <1>2. CASE CloseShutdown(c)
    <2>1. CASE slot = None
      BY <1>2, <2>1, WiresStay DEF CloseShutdown
    <2>2. CASE slot # None
      <3> DEFINE n == [conns[slot] EXCEPT !.closed = TRUE, !.pending = {}, !.agent = "dead"]
      <3>1. slot \in Conns /\ conns \in [Conns -> ConnType]
        BY <1>1, <2>2, TypesOfParts
      <3>2. n.pending = {} /\ n.closed /\ n.agent = "dead"
        BY <3>1 DEF ConnType
      <3>3. conns' = [conns EXCEPT ![slot] = n] /\ FailPending(slot)
        BY <1>2, <2>2 DEF CloseShutdown
      <3> HIDE DEF n
      <3>4. conns'[slot] = n /\ \A j \in Conns \ {slot} : conns'[j] = conns[j]
        BY <3>1, <3>3
      <3>5. \A j \in Conns : IsRead(j)'
        BY <3>2, <3>4 DEF Wired, IsRead
      <3> QED
        BY <1>1, <3>1, <3>2, <3>3, <3>4, <3>5, WiresDrain
    <2> QED
      BY <2>1, <2>2
  <1>3. CASE Decide(c)
    <2>1. conns' = conns
      BY <1>3 DEF Decide
    <2>2. CASE prompts' = prompts
      BY <2>1, <2>2, WiresStay
    <2>3. CASE acalls[c].pc = "accept" /\ execute_turn(acalls[c].s, acalls[c].t)
      <3> DEFINE t == acalls[c].t
                 p == [prompts[t] EXCEPT !.pc = "connect"]
      <3>1. t \in Turns /\ prompts[t].pc = "none"
        BY <2>3 DEF IInv, Kept, CallsOK, CallOK, Deciding, DecisionOK, Spawned
      <3>2. prompts' = [prompts EXCEPT ![t] = p] /\ prompts \in [Turns -> PromptType]
        BY <1>1, <2>3, TypesOfParts DEF execute_turn
      <3>3. p.pc = "connect"
        BY <3>1, <3>2 DEF PromptType
      <3> HIDE DEF p
      <3> QED
        BY <1>1, <2>1, <3>1, <3>2, <3>3, WiresExtend
    <2> QED
      BY <1>3, <2>2, <2>3 DEF Decide
  <1>4. CASE OpenConnect(c) \/ SendCancel(c) \/ CloseCancel(c)
    <2>1. prompts' = prompts
      BY <1>4 DEF OpenConnect, SendCancel, CloseCancel
    <2>2. conns' = conns \/ SpawnFails \/ \E k \in Conns : ensure_connection(k)
      BY <1>4 DEF OpenConnect, SendCancel, CloseCancel
    <2> QED
      BY <1>1, <2>1, <2>2, WiresExtend
  <1>5. CASE ARequest(c)
    <2>1. prompts' = prompts /\ conns' = conns
      BY <1>5 DEF ARequest, open_session, close_session, wait_for_turn, interrupt_turn, respond_approval
    <2> QED
      BY <2>1, WiresStay
  <1>6. CASE \/ OpenRequest(c) \/ activate_reserved_session(c) \/ Register(c) \/ WaitEnds(c)
             \/ CloseComplete(c) \/ CloseRemove(c) \/ CloseIdle(c) \/ DropCall(c)
    <2>1. prompts' = prompts /\ conns' = conns
      BY <1>6 DEF OpenRequest, activate_reserved_session, Register, WaitEnds, CloseComplete,
                  CloseRemove, CloseIdle, DropCall
    <2> QED
      BY <2>1, WiresStay
  <1> QED
    BY <1>2, <1>3, <1>4, <1>5, <1>6 DEF AStep

LEMMA SendsTendWires ==
    ASSUME IInv, Wired, NEW s \in Sessions, NEW approval \in BOOLEAN, send_turn(s, approval)
    PROVE  Wired'
  <1>1. Typed /\ conns' = conns
    BY DEF IInv, send_turn
  <1>2. PICK t \in Turns : owner[t] = None /\ (prompts' = prompts \/ execute_turn(s, t))
    BY DEF send_turn
  <1>3. CASE prompts' = prompts
    BY <1>1, <1>3, WiresStay
  <1>4. CASE execute_turn(s, t)
    <2> DEFINE p == [prompts[t] EXCEPT !.pc = "connect"]
    <2>1. prompts[t].pc = "none"
      BY <1>2, Distinct DEF IInv, WiresOK, PromptOK, Spawned
    <2>2. prompts' = [prompts EXCEPT ![t] = p] /\ prompts \in [Turns -> PromptType]
      BY <1>1, <1>4, TypesOfParts DEF execute_turn
    <2>3. p.pc = "connect"
      BY <2>2 DEF PromptType
    <2> HIDE DEF p
    <2> QED
      BY <1>1, <2>1, <2>2, <2>3, WiresExtend
  <1> QED
    BY <1>2, <1>3, <1>4

LEMMA TasksTendWires ==
    ASSUME IInv, Wired, NEW t \in Turns, Prompt(t)
    PROVE  Wired'
  <1>1. Typed /\ prompts \in [Turns -> PromptType] /\ conns \in [Conns -> ConnType]
    BY TypesOfParts DEF IInv
  <1>2. CASE PromptConnect(t) \/ PromptCheck(t) \/ PromptEnds(t)
    <2>1. conns' = conns \/ SpawnFails \/ \E k \in Conns : ensure_connection(k)
      BY <1>2 DEF PromptConnect, PromptCheck, PromptEnds
    <2>2. prompts[t].pc # "waiting"
      BY <1>2 DEF PromptConnect, PromptCheck, PromptEnds
    <2>3. PICK p : prompts' = [prompts EXCEPT ![t] = p] /\ p.pc # "waiting"
      <3>1. ASSUME NEW k \in Conns, prompts' = [prompts EXCEPT ![t].pc = "check", ![t].conn = k]
            PROVE  \E p : prompts' = [prompts EXCEPT ![t] = p] /\ p.pc # "waiting"
        <4>1. [prompts[t] EXCEPT !.pc = "check", !.conn = k].pc = "check"
          BY <1>1 DEF PromptType
        <4> QED
          BY <3>1, <4>1
      <3>2. CASE prompts' = [prompts EXCEPT ![t].pc = "answered", ![t].answer = "error"]
        <4>1. [prompts[t] EXCEPT !.pc = "answered", !.answer = "error"].pc = "answered"
          BY <1>1 DEF PromptType
        <4> QED
          BY <3>2, <4>1
      <3>3. CASE prompts' = [prompts EXCEPT ![t].pc = "insert"]
        <4>1. [prompts[t] EXCEPT !.pc = "insert"].pc = "insert"
          BY <1>1 DEF PromptType
        <4> QED
          BY <3>3, <4>1
      <3>4. Done.pc = "done"
        BY DEF Done, NewPrompt
      <3> QED
        BY <1>2, <3>1, <3>2, <3>3, <3>4 DEF PromptConnect, PromptCheck, PromptEnds
    <2>4. \A u \in Turns : prompts'[u] = prompts[u] \/ (u = t /\ prompts'[u].pc # "waiting")
      BY <1>1, <2>3
    <2> QED
      BY <1>1, <2>1, <2>2, <2>4, WiresExtend
  <1>3. CASE PromptInsert(t)
    <2>1. PICK k \in Conns : k = prompts[t].conn /\ prompts[t].pc = "insert"
      BY <1>3 DEF IInv, WiresOK, PromptOK, PromptInsert
    <2>2. CASE conns' = conns /\ prompts' = [prompts EXCEPT ![t].pc = "answered", ![t].answer = "error"]
      <3> DEFINE p == [prompts[t] EXCEPT !.pc = "answered", !.answer = "error"]
      <3>1. prompts' = [prompts EXCEPT ![t] = p] /\ p.pc = "answered"
        BY <1>1, <2>2 DEF PromptType
      <3> HIDE DEF p
      <3> QED
        BY <1>1, <2>1, <2>2, <3>1, WiresExtend
    <2>3. CASE /\ conns[k].agent = "alive"
               /\ conns' = [conns EXCEPT ![k].pending = @ \cup {t}, ![k].working = @ \cup {t}]
               /\ prompts' = [prompts EXCEPT ![t].pc = "waiting", ![t].late = conns[k].closed]
      <3> DEFINE p == [prompts[t] EXCEPT !.pc = "waiting", !.late = conns[k].closed]
                 n == [conns[k] EXCEPT !.pending = @ \cup {t}, !.working = @ \cup {t}]
      <3>1. p.pc = "waiting" /\ p.conn = k /\ p.late = conns[k].closed
        BY <1>1, <2>1 DEF PromptType
      <3>2. /\ n.pending = conns[k].pending \cup {t} /\ n.agent = "alive"
            /\ n.closed = conns[k].closed /\ n.reader = conns[k].reader
        BY <1>1, <2>3 DEF ConnType
      <3>3. prompts' = [prompts EXCEPT ![t] = p] /\ conns' = [conns EXCEPT ![k] = n]
        BY <2>3
      <3> HIDE DEF p, n
      <3>4. /\ prompts'[t] = p /\ \A u \in Turns \ {t} : prompts'[u] = prompts[u]
            /\ conns'[k] = n /\ \A j \in Conns \ {k} : conns'[j] = conns[j]
        BY <1>1, <3>3
      <3>5. ASSUME NEW u \in Turns \ {t} PROVE Tended(u)'
        <4>1. Tended(u)
          BY DEF Wired
        <4>2. \A j \in Conns : /\ u \in conns'[j].pending <=> u \in conns[j].pending
                               /\ conns'[j].closed = conns[j].closed
                               /\ conns[j].agent # "none" => conns'[j].agent # "none"
          BY <3>2, <3>4
        <4> QED
          BY <3>4, <4>1, <4>2 DEF Tended
      <3>6. Tended(t)'
        <4>1. \A j \in Conns \ {k} : t \notin conns'[j].pending
          BY <2>1, <3>4 DEF Wired, Tended
        <4> QED
          BY <3>1, <3>2, <3>4, <4>1 DEF Tended
      <3>7. \A j \in Conns : IsRead(j)'
        BY <2>3, <3>2, <3>4, NotMade DEF Wired, IsRead
      <3> QED
        BY <3>5, <3>6, <3>7 DEF Wired
    <2> QED
      BY <1>3, <2>1, <2>2, <2>3 DEF PromptInsert
  <1> QED
    BY <1>2, <1>3 DEF Prompt

LEMMA ReadersTendWires ==
    ASSUME IInv, Wired, NEW k \in Conns, Reader(k)
    PROVE  Wired'
  <1>1. Typed /\ conns \in [Conns -> ConnType] /\ slot \in Conns \cup {None}
    BY TypesOfParts DEF IInv
  <1>2. ASSUME NEW r \in {"reap", "take", "gone"}, prompts' = prompts,
               conns' = [conns EXCEPT ![k].reader = r], conns[k].closed
        PROVE  Wired'
    <2> DEFINE n == [conns[k] EXCEPT !.reader = r]
    <2>1. n.pending = conns[k].pending /\ n.closed /\ n.agent = conns[k].agent
      BY <1>1, <1>2 DEF ConnType
    <2>2. conns' = [conns EXCEPT ![k] = n]
      BY <1>2
    <2> HIDE DEF n
    <2>3. conns'[k] = n /\ \A j \in Conns \ {k} : conns'[j] = conns[j]
      BY <1>1, <2>2
    <2>4. \A t \in Turns : Tended(t)'
      BY <1>2, <2>1, <2>3 DEF Wired, Tended
    <2>5. \A j \in Conns : IsRead(j)'
      BY <2>1, <2>3 DEF Wired, IsRead
    <2> QED
      BY <2>4, <2>5 DEF Wired
  <1>3. CASE MarkClosed(k)
    <2>1. CASE conns[k].closed
      BY <1>2, <1>3, <2>1 DEF MarkClosed
    <2>2. CASE ~conns[k].closed
      <3> DEFINE n == [conns[k] EXCEPT !.closed = TRUE, !.pending = {}, !.reader = "reap"]
      <3>1. n.pending = {} /\ n.closed /\ n.agent = conns[k].agent
        BY <1>1 DEF ConnType
      <3>2. conns' = [conns EXCEPT ![k] = n] /\ FailPending(k)
        BY <1>3, <2>2 DEF MarkClosed
      <3> HIDE DEF n
      <3>3. conns'[k] = n /\ \A j \in Conns \ {k} : conns'[j] = conns[j]
        BY <1>1, <3>2
      <3>4. \A j \in Conns : IsRead(j)'
        BY <3>1, <3>3 DEF Wired, IsRead
      <3> QED
        BY <1>1, <3>1, <3>2, <3>3, <3>4, WiresDrain
    <2> QED
      BY <2>1, <2>2
  <1>4. CASE Reap(k)
    <2>1. conns[k].closed
      BY <1>4, NotMade DEF Wired, IsRead, Reap
    <2>2. PICK r \in {"take", "gone"} : conns' = [conns EXCEPT ![k].reader = r]
      BY <1>4 DEF Reap
    <2> QED
      BY <1>2, <1>4, <2>1, <2>2 DEF Reap
  <1>5. CASE ReapTakes(k)
    <2>1. conns[k].closed
      BY <1>5, NotMade DEF Wired, IsRead, ReapTakes
    <2>2. CASE slot = None
      <3>1. prompts' = prompts /\ k # slot
        BY <1>5, <2>2, Distinct DEF ReapTakes
      <3>2. conns' = [conns EXCEPT ![k].reader = "gone"]
        BY <1>1, <1>5, <2>2, Distinct DEF ReapTakes
      <3> QED
        BY <1>2, <2>1, <3>1, <3>2
    <2>3. CASE slot # None
      <3>1. slot \in Conns /\ FailPending(slot)
        BY <1>1, <1>5, <2>3 DEF ReapTakes
      <3>2. ASSUME NEW j \in Conns
            PROVE  /\ conns'[j].agent = conns[j].agent
                   /\ conns[j].closed => conns'[j].closed
                   /\ j = slot => conns'[j].pending = {} /\ conns'[j].closed
                   /\ j # slot => /\ conns'[j].pending = conns[j].pending
                                  /\ conns'[j].closed = conns[j].closed
                   /\ j # slot /\ j # k => conns'[j] = conns[j]
        <4>1. conns[j] \in ConnType
          BY <1>1
        <4> QED
          BY <1>5, <2>1, <4>1 DEF ReapTakes, ConnType
      <3>3. \A j \in Conns : IsRead(j)'
        BY <2>1, <3>2 DEF Wired, IsRead
      <3> QED
        BY <1>1, <3>1, <3>2, <3>3, WiresDrain
    <2> QED
      BY <2>2, <2>3
  <1> QED
    BY <1>3, <1>4, <1>5 DEF Reader

LEMMA AgentsTendWires ==
    ASSUME IInv, Wired, NEW k \in Conns, Agent(k)
    PROVE  Wired'
  <1>1. Typed /\ prompts \in [Turns -> PromptType] /\ conns \in [Conns -> ConnType]
    BY TypesOfParts DEF IInv
  <1>2. CASE AgentExits(k)
    <2> DEFINE n == [conns[k] EXCEPT !.agent = "dead", !.working = {}]
    <2>1. /\ n.pending = conns[k].pending /\ n.closed = conns[k].closed
          /\ n.agent = "dead" /\ n.reader = conns[k].reader
      BY <1>1 DEF ConnType
    <2>2. conns' = [conns EXCEPT ![k] = n] /\ prompts' = prompts /\ conns[k].agent = "alive"
      BY <1>2 DEF AgentExits
    <2> HIDE DEF n
    <2>3. conns'[k] = n /\ \A j \in Conns \ {k} : conns'[j] = conns[j]
      BY <1>1, <2>2
    <2>4. \A t \in Turns : Tended(t)'
      BY <2>1, <2>2, <2>3 DEF Wired, Tended
    <2>5. \A j \in Conns : IsRead(j)'
      BY <2>1, <2>2, <2>3, NotMade DEF Wired, IsRead
    <2> QED
      BY <2>4, <2>5 DEF Wired
  <1>3. ASSUME NEW t \in Turns, fail_permission_request(k, t)
        PROVE  Wired'
    BY <1>3, WiresStay DEF fail_permission_request
  <1>4. ASSUME NEW t \in Turns, NEW answer, AgentAnswers(k, t, answer)
        PROVE  Wired'
    <2> DEFINE n == [conns[k] EXCEPT !.working = @ \ {t}, !.pending = @ \ {t}]
               p == [prompts[t] EXCEPT !.pc = "answered", !.answer = answer]
    <2>1. /\ n.pending = conns[k].pending \ {t} /\ n.closed = conns[k].closed
          /\ n.agent = conns[k].agent /\ n.reader = "reading" /\ p.pc = "answered"
      BY <1>1, <1>4 DEF ConnType, PromptType, AgentAnswers
    <2>2. /\ conns' = [conns EXCEPT ![k] = n]
          /\ prompts' = IF t \in conns[k].pending THEN [prompts EXCEPT ![t] = p] ELSE prompts
      BY <1>4 DEF AgentAnswers
    <2> HIDE DEF n, p
    <2>3. /\ conns'[k] = n /\ \A j \in Conns \ {k} : conns'[j] = conns[j]
          /\ \A u \in Turns \ {t} : prompts'[u] = prompts[u]
          /\ prompts'[t] = IF t \in conns[k].pending THEN p ELSE prompts[t]
      BY <1>1, <2>2
    <2>4. ASSUME NEW u \in Turns \ {t} PROVE Tended(u)'
      <3>1. \A j \in Conns : /\ u \in conns'[j].pending <=> u \in conns[j].pending
                             /\ conns'[j].closed = conns[j].closed
                             /\ conns'[j].agent = conns[j].agent
        BY <2>1, <2>3
      <3> QED
        BY <2>3, <3>1 DEF Wired, Tended
    <2>5. Tended(t)'
      <3>1. Tended(t)
        BY DEF Wired
      <3>2. \A j \in Conns : /\ t \in conns'[j].pending <=> j # k /\ t \in conns[j].pending
                             /\ conns'[j].closed = conns[j].closed
                             /\ conns'[j].agent = conns[j].agent
        BY <2>1, <2>3
      <3>3. CASE t \in conns[k].pending
        <4>1. \A j \in Conns : t \notin conns'[j].pending
          BY <3>1, <3>2, <3>3 DEF Tended
        <4> QED
          BY <2>1, <2>3, <3>3, <4>1 DEF Tended
      <3>4. CASE t \notin conns[k].pending
        <4>1. \A j \in Conns : t \in conns'[j].pending <=> t \in conns[j].pending
          BY <3>2, <3>4
        <4> QED
          BY <2>3, <3>1, <3>2, <3>4, <4>1 DEF Tended
      <3> QED
        BY <3>3, <3>4
    <2>6. \A j \in Conns : IsRead(j)'
      BY <2>1, <2>3 DEF Wired, IsRead
    <2> QED
      BY <2>4, <2>5, <2>6 DEF Wired
  <1> QED
    BY <1>2, <1>3, <1>4 DEF Agent

LEMMA StepsTendWires ==
    ASSUME IInv, Wired, [ANext]_avars
    PROVE  Wired'
  <1>1. scope.calls \subseteq Calls
    BY ScopesAreSmall DEF IInv, Typed
  <1>2. CASE UNCHANGED avars
    BY <1>2, WiresStay DEF avars
  <1>3. CASE ANext
    <2>1. ASSUME NEW c \in scope.calls, ARequest(c) \/ AStep(c) PROVE Wired'
      BY <1>1, <2>1, CallsTendWires
    <2>2. ASSUME NEW s \in Sessions, NEW kind, send_turn(s, kind = "approve") PROVE Wired'
      BY <2>2, SendsTendWires
    <2>3. ASSUME NEW t \in Turns, Prompt(t) PROVE Wired'
      BY <2>3, TasksTendWires
    <2>4. ASSUME NEW k \in Conns, Reader(k) \/ Agent(k) PROVE Wired'
      BY <2>4, ReadersTendWires, AgentsTendWires
    <2> QED
      BY <1>3, <2>1, <2>2, <2>3, <2>4 DEF ANext
  <1> QED
    BY <1>2, <1>3

LEMMA StartsWired ==
    ASSUME AInit
    PROVE  Wired
  BY DEF AInit, Wired, Tended, IsRead, NewPrompt, NoConn

(* Every reachable state of the ACP provider satisfies the inductive       *)
(* invariant: turns belong to the session that holds them, run at most     *)
(* once, and wait for one decision at a time.                              *)
THEOREM InductiveInvariant == ASpec => []IInv
  <1>1. AInit => IInv
    BY Starts
  <1>2. IInv /\ [ANext]_avars => IInv'
    BY Steps, Stutters
  <1> QED
    BY <1>1, <1>2, PTL DEF ASpec

(* The state keeps its shape, whatever fails. *)
THEOREM TypeCorrect == ASpec => []ATypeOK
  <1>1. IInv => ATypeOK
    BY DEF IInv, Typed
  <1> QED
    BY <1>1, InductiveInvariant, PTL

(* wait_for_turn registers its waiter in a later section than the one that *)
(* found the turn running, and still nobody waits on for a turn that has   *)
(* its result or whose session is gone.                                    *)
THEOREM ResultsAreHeard == ASpec => []NoMissedResult
  <1>1. IInv => NoMissedResult
    BY DEF IInv, Kept
  <1> QED
    BY <1>1, InductiveInvariant, PTL

(* No failure of create_session or resume_session leaks the slot that      *)
(* reserve_session_slot took: as long as it is not activated, a request    *)
(* that will activate or release it is running, or the request that had    *)
(* it was dropped with its client.                                         *)
THEOREM SlotsDoNotLeak == ASpec => []SlotsAreOwned
  <1>1. IInv => SlotsAreOwned
    <2> SUFFICES ASSUME IInv, NEW s \in Sessions, OnlyReserved(s)
                 PROVE  \E c \in Calls : acalls[c].s = s /\ acalls[c].how # None
      BY DEF SlotsAreOwned
    <2>1. PICK c \in Calls : Reserving(c) /\ acalls[c].s = s
      BY DEF IInv, Kept, SlotsHeld
    <2> QED
      BY <2>1 DEF IInv, Kept, CallsOK, CallOK, Reserving
  <1> QED
    BY <1>1, InductiveInvariant, PTL

(* A turn that keeps its session busy will be completed by somebody: its   *)
(* task goes on, or waits for a request that is in the table of an open    *)
(* connection with its reader.  Closing a connection, by its end, by a     *)
(* line that is no message, by a reaper that takes the wrong one or by the *)
(* last close_session, fails what is in its table; only a request that     *)
(* entered later than that may wait for ever.                              *)
THEOREM ActiveTurnsAreServed == ASpec => []ActiveTurnIsServed
  <1>1. AInit => IInv /\ Wired
    BY Starts, StartsWired
  <1>2. (IInv /\ Wired) /\ [ANext]_avars => (IInv /\ Wired)'
    BY Steps, Stutters, StepsTendWires
  <1>3. IInv /\ Wired => ActiveTurnIsServed
    <2> SUFFICES ASSUME IInv, Wired, NEW s \in Sessions, Exists(s), sessions[s].active # None,
                        NEW t, t = sessions[s].active
                 PROVE  /\ prompts[t].pc \notin {"none", "done"}
                        /\ prompts[t].pc = "waiting" /\ ~prompts[t].late =>
                              /\ t \in conns[prompts[t].conn].pending
                              /\ ~conns[prompts[t].conn].closed
                              /\ conns[prompts[t].conn].reader = "reading"
      BY DEF ActiveTurnIsServed
    <2>1. sessions[s] \in SessionType
      BY TypesOfParts DEF IInv, Exists
    <2>2. t \in Turns
      BY <2>1 DEF SessionType
    <2>3. prompts[t].pc \notin {"none", "done"}
      BY DEF IInv, Kept, SessionsOK, SessionOK
    <2>4. ASSUME prompts[t].pc = "waiting", ~prompts[t].late
          PROVE  /\ t \in conns[prompts[t].conn].pending
                 /\ ~conns[prompts[t].conn].closed
                 /\ conns[prompts[t].conn].reader = "reading"
      BY <2>2, <2>4, NotMade DEF Wired, Tended, IsRead
    <2> QED
      BY <2>3, <2>4
  <1> QED
    BY <1>1, <1>2, <1>3, PTL DEF ASpec
=============================================================================
