----------------------------- MODULE EventStream -----------------------------
(***************************************************************************)
(* The event log and the streams clients follow it with.  An event is      *)
(* appended to the store in a transaction of its own and broadcast to live *)
(* subscribers afterwards, with nothing held over both.  A session or      *)
(* process stream subscribes, replays the log page by page and hands over  *)
(* to the broadcast channel; a global or team stream replays and then      *)
(* polls the store.  A client reconnects with the id of the last event it  *)
(* was sent, as Last-Event-ID.  Of an event only its place is kept.        *)
(***************************************************************************)
EXTENDS Naturals, Sequences, FiniteSets, FiniteSetsExt

CONSTANTS
    Scopes,      \* the scopes of events: sessions, processes, teams, ...
    Followed,    \* the session or process whose events the clients follow
    PollScope,   \* the team the pollers follow, or None for all events
    Tasks,       \* handlers that append events
    Clients,     \* subscribers to the stream of Followed
    Pollers,     \* subscribers to the polled stream
    None,        \* Option::None
    Capacity,    \* events the broadcast channel keeps for a slow subscriber
    PageLimit,   \* rows per page of a replay
    MaxEvents,   \* bound: rows in the log
    MaxCrashes   \* bound: how many times the process dies

ASSUME ScopesAssumption == Followed \in Scopes /\ PollScope \in Scopes \cup {None} /\ None \notin Scopes
ASSUME LimitsAssumption == Capacity \in Nat \ {0} /\ PageLimit \in Nat \ {0}
ASSUME BoundsAssumption == MaxEvents \in Nat /\ MaxCrashes \in Nat

VARIABLES
    log,         \* the rows of runtime_events
    pending,     \* the row a task has committed and not yet broadcast
    sent,        \* everything broadcast since the process started
    stream,      \* per client: the state of its connection
    delivered,   \* per client: the ids sent to it on this connection, in order
    last,        \* per client: the id it will reconnect with
    poll,        \* per poller: the state of its connection
    polled,      \* per poller: the ids sent to it on all connections, in order
    crashes

clientVars == <<stream, delivered, last>>
pollVars == <<poll, polled>>
vars == <<log, pending, sent, clientVars, pollVars, crashes>>

Row == [id : Nat \ {0}, scope : Scopes, seq : Nat \ {0}]
ASSUME NoneAssumption == None \notin Row

(* A connection: replay_cursor, the events read and not sent, the receiver's position. *)
Connection == [pc : {"off", "replay", "live"}, start : Nat, cursor : Nat, queue : SUBSET Nat,
               pos : Nat, lagged : BOOLEAN]
Off == [pc |-> "off", start |-> 0, cursor |-> 0, queue |-> {}, pos |-> 0, lagged |-> FALSE]

Poll == [pc : {"off", "replay", "live"}, cursor : Nat, queue : SUBSET Nat]
PollOff == [pc |-> "off", cursor |-> 0, queue |-> {}]

Init ==
    /\ log = {} /\ sent = <<>> /\ crashes = 0
    /\ pending = [t \in Tasks |-> None]
    /\ stream = [c \in Clients |-> Off]
    /\ delivered = [c \in Clients |-> <<>>]
    /\ last = [c \in Clients |-> 0]
    /\ poll = [p \in Pollers |-> PollOff]
    /\ polled = [p \in Pollers |-> <<>>]

-----------------------------------------------------------------------------
(* The log *)

(* The rows a query is about: of one scope, or all of them. *)
RowsOf(scope) == {r \in log : scope = None \/ r.scope = scope}

(* The cursor of a scoped query is the sequence number, of the global one the row id. *)
Key(scope, r) == IF scope = None THEN r.id ELSE r.seq

Keys(scope) == {Key(scope, r) : r \in RowsOf(scope)}

(* Mutant: the sequence number is that of the newest row. *)
append_at_max_seq(s) ==
    [id |-> Max({r.id : r \in log} \cup {0}) + 1, scope |-> s,
     seq |-> Max({r.seq : r \in RowsOf(s)} \cup {0})]

(* SELECT COALESCE(MAX(seq), 0) + 1, in an immediate transaction. *)
append_runtime_event(s) ==
    [id |-> Max({r.id : r \in log} \cup {0}) + 1, scope |-> s,
     seq |-> Max({r.seq : r \in RowsOf(s)} \cup {0}) + 1]

(* The keys after a cursor. *)
After(scope, after) == {k \in Keys(scope) : k > after}

(* Mutant: the newest rows instead of the oldest. *)
newest_runtime_events(scope, after) ==
    {k \in After(scope, after) :
        Cardinality({j \in After(scope, after) : j >= k}) <= PageLimit}

(* The first PageLimit keys after a cursor, in order. *)
list_runtime_events(scope, after) ==
    {k \in After(scope, after) :
        Cardinality({j \in After(scope, after) : j <= k}) <= PageLimit}

(* append_event: the row is committed here and broadcast in a later step. *)
append_event(t, s) ==
    /\ pending[t] = None
    /\ Cardinality(log) < MaxEvents
    /\ log' = log \cup {append_runtime_event(s)}
    /\ pending' = [pending EXCEPT ![t] = append_runtime_event(s)]
    /\ UNCHANGED <<sent, clientVars, pollVars, crashes>>

(* append_team_event, append_worktree_event: stored only. *)
append_team_event(s) ==
    /\ s # Followed
    /\ Cardinality(log) < MaxEvents
    /\ log' = log \cup {append_runtime_event(s)}
    /\ UNCHANGED <<pending, sent, clientVars, pollVars, crashes>>

(* Mutant: the handler returns with nothing sent. *)
skip_broadcast(t) ==
    /\ pending[t] # None
    /\ pending' = [pending EXCEPT ![t] = None]
    /\ UNCHANGED <<log, sent, clientVars, pollVars, crashes>>

(* event_tx.send *)
broadcast(t) ==
    /\ pending[t] # None
    /\ sent' = Append(sent, pending[t])
    /\ pending' = [pending EXCEPT ![t] = None]
    /\ UNCHANGED <<log, clientVars, pollVars, crashes>>

-----------------------------------------------------------------------------
(* stream_session_events, stream_process_events *)

(* Subscribe first, then look at the log. *)
subscribe_events(c) ==
    /\ stream[c].pc = "off"
    /\ stream' = [stream EXCEPT ![c] =
                     [pc |-> "replay", start |-> last[c], cursor |-> last[c], queue |-> {},
                      pos |-> Len(sent), lagged |-> FALSE]]
    /\ delivered' = [delivered EXCEPT ![c] = <<>>]
    /\ UNCHANGED <<log, pending, sent, last, pollVars, crashes>>

(* One page of the replay; a short page is the last one, and its end the watermark. *)
replay_session_events(c) ==
    LET page == list_runtime_events(Followed, stream[c].cursor)
    IN  /\ stream[c].pc = "replay"
        /\ stream' = [stream EXCEPT
               ![c].cursor = IF page = {} THEN @ ELSE Max(page),
               ![c].queue = @ \cup page,
               ![c].pc = IF Cardinality(page) < PageLimit THEN "live" ELSE "replay"]
        /\ UNCHANGED <<log, pending, sent, delivered, last, pollVars, crashes>>

(* Event n goes to the client, who remembers its id. *)
Deliver(c, n) ==
    /\ delivered' = [delivered EXCEPT ![c] = Append(@, n)]
    /\ last' = [last EXCEPT ![c] = n]

(* Mutant: the subscription is made when the backlog is sent. *)
replay_then_subscribe(c) ==
    /\ stream[c].pc = "live" /\ stream[c].queue # {}
    /\ Deliver(c, Min(stream[c].queue))
    /\ stream' = [stream EXCEPT ![c].queue = @ \ {Min(@)}, ![c].pos = Len(sent)]
    /\ UNCHANGED <<log, pending, sent, pollVars, crashes>>

(* replay_stream comes first. *)
replay_stream(c) ==
    /\ stream[c].pc = "live" /\ stream[c].queue # {}
    /\ Deliver(c, Min(stream[c].queue))
    /\ stream' = [stream EXCEPT ![c].queue = @ \ {Min(@)}]
    /\ UNCHANGED <<log, pending, sent, pollVars, crashes>>

(* Mutant: the watermark is not looked at. *)
passes_scope_only(c, r) == r.scope = Followed

(* Is a live event of this stream, and not one that was replayed? *)
passes_filter(c, r) == r.scope = Followed /\ r.seq > stream[c].cursor

(* live_stream: an event of Followed above the watermark is passed on. *)
live_stream(c) ==
    /\ stream[c].pc = "live" /\ stream[c].queue = {}
    /\ stream[c].pos < Len(sent) /\ Len(sent) - stream[c].pos <= Capacity
    /\ stream' = [stream EXCEPT ![c].pos = @ + 1]
    /\ LET r == sent[stream[c].pos + 1]
       IN  IF passes_filter(c, r) THEN Deliver(c, r.seq)
                                  ELSE UNCHANGED <<delivered, last>>
    /\ UNCHANGED <<log, pending, sent, pollVars, crashes>>

(* A receiver that fell behind skips to the oldest event the channel still has. *)
Lagged(c) ==
    /\ stream[c].pc = "live" /\ stream[c].queue = {}
    /\ Len(sent) - stream[c].pos > Capacity
    /\ stream' = [stream EXCEPT ![c].pos = Len(sent) - Capacity, ![c].lagged = TRUE]
    /\ UNCHANGED <<log, pending, sent, delivered, last, pollVars, crashes>>

disconnect(c) ==
    /\ stream[c].pc # "off"
    /\ stream' = [stream EXCEPT ![c] = Off]
    /\ delivered' = [delivered EXCEPT ![c] = <<>>]
    /\ UNCHANGED <<log, pending, sent, last, pollVars, crashes>>

-----------------------------------------------------------------------------
(* stream_global_events, stream_team_events *)

(* The last id a poller was sent. *)
LastPolled(p) == IF polled[p] = <<>> THEN 0 ELSE polled[p][Len(polled[p])]

poll_connect(p) ==
    /\ poll[p].pc = "off"
    /\ poll' = [poll EXCEPT ![p] = [pc |-> "replay", cursor |-> LastPolled(p), queue |-> {}]]
    /\ UNCHANGED <<log, pending, sent, clientVars, polled, crashes>>

(* Mutant: an empty page ends the polling loop. *)
poll_until_short(p) ==
    LET page == list_runtime_events(PollScope, poll[p].cursor)
    IN  /\ poll[p].pc = "replay"
        /\ poll' = [poll EXCEPT
               ![p].cursor = IF page = {} THEN @ ELSE Max(page),
               ![p].queue = @ \cup page,
               ![p].pc = IF Cardinality(page) < PageLimit THEN "live" ELSE @]
        /\ UNCHANGED <<log, pending, sent, clientVars, polled, crashes>>

(* A page of the replay, or of the polling loop that follows it. *)
poll_page(p) ==
    LET page == list_runtime_events(PollScope, poll[p].cursor)
    IN  /\ poll[p].pc # "off"
        /\ poll[p].pc = "live" => page # {}
        /\ poll' = [poll EXCEPT
               ![p].cursor = IF page = {} THEN @ ELSE Max(page),
               ![p].queue = @ \cup page,
               ![p].pc = IF Cardinality(page) < PageLimit THEN "live" ELSE @]
        /\ UNCHANGED <<log, pending, sent, clientVars, polled, crashes>>

poll_send(p) ==
    /\ poll[p].pc = "live" /\ poll[p].queue # {}
    /\ polled' = [polled EXCEPT ![p] = Append(@, Min(poll[p].queue))]
    /\ poll' = [poll EXCEPT ![p].queue = @ \ {Min(@)}]
    /\ UNCHANGED <<log, pending, sent, clientVars, crashes>>

poll_disconnect(p) ==
    /\ poll[p].pc # "off"
    /\ poll' = [poll EXCEPT ![p] = PollOff]
    /\ UNCHANGED <<log, pending, sent, clientVars, polled, crashes>>

-----------------------------------------------------------------------------

(* The process dies with its tasks, channel and connections; the log stays. *)
Crash ==
    /\ crashes < MaxCrashes
    /\ crashes' = crashes + 1
    /\ pending' = [t \in Tasks |-> None]
    /\ sent' = <<>>
    /\ stream' = [c \in Clients |-> Off]
    /\ delivered' = [c \in Clients |-> <<>>]
    /\ poll' = [p \in Pollers |-> PollOff]
    /\ UNCHANGED <<log, last, polled>>

StreamStep(c) ==
    \/ replay_session_events(c)
    \/ replay_stream(c)
    \/ live_stream(c)
    \/ Lagged(c)

PollStep(p) == poll_page(p) \/ poll_send(p)

Next ==
    \/ \E s \in Scopes : \/ append_team_event(s)
                         \/ \E t \in Tasks : append_event(t, s)
    \/ \E t \in Tasks : broadcast(t)
    \/ \E c \in Clients : subscribe_events(c) \/ StreamStep(c) \/ disconnect(c)
    \/ \E p \in Pollers : poll_connect(p) \/ PollStep(p) \/ poll_disconnect(p)
    \/ Crash

Spec == Init /\ [][Next]_vars

(* Tasks and streams are scheduled; nobody need append, connect or leave. *)
Fairness ==
    /\ \A t \in Tasks : WF_vars(broadcast(t))
    /\ \A c \in Clients : WF_vars(StreamStep(c))
    /\ \A p \in Pollers : WF_vars(PollStep(p))

FairSpec == Spec /\ Fairness

-----------------------------------------------------------------------------
(* Properties *)

TypeOK ==
    /\ log \subseteq Row
    /\ pending \in [Tasks -> Row \cup {None}]
    /\ sent \in Seq(Row)
    /\ stream \in [Clients -> Connection]
    /\ delivered \in [Clients -> Seq(Nat)]
    /\ last \in [Clients -> Nat]
    /\ poll \in [Pollers -> Poll]
    /\ polled \in [Pollers -> Seq(Nat)]
    /\ crashes \in 0..MaxCrashes

(***************************************************************************)
(* No event is lost between replay and live: one after the client's cursor *)
(* was sent, will be read by the replay, or still is ahead in the channel, *)
(* unless the receiver lagged.                                             *)
(***************************************************************************)
HandoverLosesNothing ==
    \A c \in Clients : stream[c].pc # "off" /\ ~stream[c].lagged =>
        \A r \in RowsOf(Followed) : r.seq > stream[c].start =>
            \/ \E i \in DOMAIN delivered[c] : delivered[c][i] = r.seq
            \/ r.seq \in stream[c].queue
            \/ stream[c].pc = "replay" /\ r.seq > stream[c].cursor
            \/ \E i \in DOMAIN sent : i > stream[c].pos /\ sent[i] = r
            \/ \E t \in Tasks : pending[t] = r

(* On one connection no event is sent twice, as replay and live overlap or not. *)
NoRedelivery ==
    \A c \in Clients : \A i, j \in DOMAIN delivered[c] :
        delivered[c][i] = delivered[c][j] => i = j

(***************************************************************************)
(* A poller gets every event once and in order, over all its connections   *)
(* and restarts of the server: what it was sent is the log up to its last  *)
(* id.                                                                     *)
(***************************************************************************)
PollerFollowsLog ==
    \A p \in Pollers :
        /\ \A i, j \in DOMAIN polled[p] : i < j => polled[p][i] < polled[p][j]
        /\ \A r \in RowsOf(PollScope) : Key(PollScope, r) <= LastPolled(p) =>
               \E i \in DOMAIN polled[p] : polled[p][i] = Key(PollScope, r)

(* An event reaches a client that stays connected and does not lag. *)
EventIsStreamed ==
    \A c \in Clients : \A n \in 1..MaxEvents :
        stream[c].pc # "off" /\ n > stream[c].start /\ (\E r \in RowsOf(Followed) : r.seq = n)
            ~> \/ \E i \in DOMAIN delivered[c] : delivered[c][i] = n
               \/ stream[c].pc = "off" \/ stream[c].lagged

(* An event reaches a poller that stays connected. *)
EventIsPolled ==
    \A p \in Pollers : \A n \in 1..MaxEvents :
        poll[p].pc # "off" /\ (\E r \in RowsOf(PollScope) : Key(PollScope, r) = n)
            ~> LastPolled(p) >= n \/ poll[p].pc = "off"
=============================================================================
