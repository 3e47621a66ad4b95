-------------------------- MODULE EventStreamProofs --------------------------
(***************************************************************************)
(* Proofs about EventStream, for any number of scopes, handlers, clients,  *)
(* pollers, events and crashes, and any capacity and page size.            *)
(***************************************************************************)
EXTENDS EventStream, FiniteSetTheorems, TLAPS

(* The last key of a scope. *)
Top(scope) == Max(Keys(scope) \cup {0})

(* Rows are told apart by id, and by scope and number; keys have no holes. *)
LogOK ==
    /\ \A r, q \in log : r.id = q.id \/ (r.scope = q.scope /\ r.seq = q.seq) => r = q
    /\ \A scope \in Scopes \cup {None} : Top(scope) \in Nat /\ Keys(scope) = 1..Top(scope)

(* What is or will be broadcast is in the log, and is broadcast once. *)
ChannelOK ==
    /\ \A i \in DOMAIN sent : sent[i] \in log
    /\ \A i, j \in DOMAIN sent : sent[i] = sent[j] => i = j
    /\ \A t \in Tasks : pending[t] # None =>
           /\ pending[t] \in log
           /\ \A i \in DOMAIN sent : sent[i] # pending[t]
           /\ \A u \in Tasks : pending[u] = pending[t] => u = t

WasSent(c, n) == \E i \in DOMAIN delivered[c] : delivered[c][i] = n

(* The event is still on its way to the client. *)
Ahead(c, r) ==
    \/ \E i \in DOMAIN sent : i > stream[c].pos /\ sent[i] = r
    \/ \E t \in Tasks : pending[t] = r

(* Came the event from the channel? *)
FromChannel(c, n) ==
    /\ n > stream[c].cursor
    /\ \E j \in DOMAIN sent : j <= stream[c].pos /\ sent[j].scope = Followed /\ sent[j].seq = n

(* The backlog is sent up to a; only then do events of the channel follow. *)
SentUpTo(c, a) ==
    /\ stream[c].queue = (a + 1)..stream[c].cursor
    /\ \A n \in (stream[c].start + 1)..a : WasSent(c, n)
    /\ \A i \in DOMAIN delivered[c] :
           \/ delivered[c][i] <= a
           \/ a = stream[c].cursor /\ FromChannel(c, delivered[c][i])

CursorsOK(c) ==
    /\ last[c] <= Top(Followed)
    /\ stream[c].start <= stream[c].cursor
    /\ stream[c].cursor <= Top(Followed)
    /\ stream[c].pos <= Len(sent)

BacklogOK(c) ==
    /\ stream[c].pc # "live" => delivered[c] = <<>>
    /\ stream[c].pc = "replay" => stream[c].queue = (stream[c].start + 1)..stream[c].cursor
    /\ stream[c].pc = "live" => \E a \in stream[c].start..stream[c].cursor : SentUpTo(c, a)

(* Of the events after the watermark none is missing. *)
LiveOK(c) ==
    stream[c].pc = "live" /\ ~stream[c].lagged =>
        \A r \in RowsOf(Followed) : r.seq > stream[c].cursor => WasSent(c, r.seq) \/ Ahead(c, r)

SentOnce(c) ==
    \A i, j \in DOMAIN delivered[c] : delivered[c][i] = delivered[c][j] => i = j

ClientOK(c) == CursorsOK(c) /\ BacklogOK(c) /\ LiveOK(c) /\ SentOnce(c)

(* A poller was sent 1, 2, 3, ... and has read on up to its cursor. *)
PollerOK(p) ==
    /\ \A i \in DOMAIN polled[p] : polled[p][i] = i
    /\ Len(polled[p]) <= Top(PollScope)
    /\ poll[p].pc # "off" =>
           /\ Len(polled[p]) <= poll[p].cursor
           /\ poll[p].cursor <= Top(PollScope)
           /\ poll[p].queue = (Len(polled[p]) + 1)..poll[p].cursor

IInv ==
    /\ TypeOK /\ LogOK /\ ChannelOK
    /\ \A c \in Clients : ClientOK(c)
    /\ \A p \in Pollers : PollerOK(p)

-----------------------------------------------------------------------------
(* The log and its pages *)

(* The largest element of a set of numbers is its Max. *)
LEMMA MaxIs ==
    ASSUME NEW S \in SUBSET Nat, NEW m \in S, \A x \in S : x <= m
    PROVE  Max(S) = m
<1>1. \A y \in S : m >= y
    OBVIOUS
<1>2. Max(S) \in S /\ \A y \in S : Max(S) >= y
    BY <1>1 DEF Max
<1>3. Max(S) >= m /\ m >= Max(S) /\ m \in Nat /\ Max(S) \in Nat
    BY <1>1, <1>2
<1>. QED
    BY <1>3

(* The smallest element of a set of numbers is its Min. *)
LEMMA MinIs ==
    ASSUME NEW S \in SUBSET Nat, NEW m \in S, \A x \in S : m <= x
    PROVE  Min(S) = m
<1>2. Min(S) \in S /\ \A y \in S : Min(S) <= y
    BY DEF Min
<1>3. Min(S) <= m /\ m <= Min(S) /\ m \in Nat /\ Min(S) \in Nat
    BY <1>2
<1>. QED
    BY <1>3

(* The keys of a scope without holes end at its Top. *)
LEMMA TopIs ==
    ASSUME NEW scope, NEW n \in Nat, Keys(scope) = 1..n
    PROVE  Top(scope) = n
<1>1. n \in (1..n) \cup {0} /\ (1..n) \cup {0} \in SUBSET Nat
    OBVIOUS
<1>. QED
    BY <1>1, MaxIs DEF Top

(***************************************************************************)
(* A page of list_runtime_events is the run of keys after the cursor, its  *)
(* Max the next cursor, and a page that is not full ends at the end of the *)
(* log.                                                                    *)
(***************************************************************************)
LEMMA PageIs ==
    ASSUME LogOK, NEW scope \in Scopes \cup {None}, NEW after \in 0..Top(scope)
    PROVE  LET page == list_runtime_events(scope, after)
           IN  \E m \in after..Top(scope) :
                   /\ page = (after + 1)..m
                   /\ (IF page = {} THEN after ELSE Max(page)) = m
                   /\ Cardinality(page) < PageLimit => m = Top(scope)
<1>. DEFINE n == Top(scope)
            m == IF after + PageLimit <= n THEN after + PageLimit ELSE n
            page == list_runtime_events(scope, after)
<1>1. n \in Nat /\ Keys(scope) = 1..n /\ PageLimit \in Nat \ {0} /\ after \in 0..n
    BY LimitsAssumption DEF LogOK
<1>2. After(scope, after) = (after + 1)..n
    BY <1>1 DEF After
<1>3. ASSUME NEW k \in (after + 1)..n
      PROVE  Cardinality({j \in After(scope, after) : j <= k}) = k - after
    <2>1. {j \in After(scope, after) : j <= k} = (after + 1)..k
        BY <1>1, <1>2
    <2>2. Cardinality((after + 1)..k) = IF after + 1 > k THEN 0 ELSE k - (after + 1) + 1
        BY <1>1, FS_Interval
    <2>3. Cardinality((after + 1)..k) = k - after
        BY <1>1, <2>2
    <2>. QED
        BY <2>1, <2>3, Zenon
<1>4. page = (after + 1)..m
    BY <1>1, <1>2, <1>3 DEF list_runtime_events
<1>5. m \in after..n
    BY <1>1
<1>6. (IF page = {} THEN after ELSE Max(page)) = m
    <2>1. CASE m = after
        BY <1>1, <1>4, <2>1
    <2>2. CASE m # after
        <3>1. m \in (after + 1)..m /\ (after + 1)..m \in SUBSET Nat
            BY <1>1, <1>5, <2>2
        <3>2. Max((after + 1)..m) = m
            BY <3>1, <1>1, MaxIs
        <3>. QED
            BY <1>4, <3>1, <3>2
    <2>. QED
        BY <2>1, <2>2
<1>7. ASSUME Cardinality(page) < PageLimit
      PROVE  m = n
    <2>. HIDE DEF m
    <2>1. Cardinality((after + 1)..m) = IF after + 1 > m THEN 0 ELSE m - (after + 1) + 1
        BY <1>1, <1>5, FS_Interval
    <2>2. Cardinality((after + 1)..m) < PageLimit
        BY <1>4, <1>7, Zenon
    <2>. QED
        BY <1>1, <2>1, <2>2 DEF m
<1>. QED
    BY <1>4, <1>5, <1>6, <1>7

(* A query on a log that does not change gives the same answer. *)
LEMMA LogFrame ==
    ASSUME LogOK, log' = log
    PROVE  LogOK' /\ \A scope : Top(scope)' = Top(scope) /\ RowsOf(scope)' = RowsOf(scope)
BY DEF LogOK, Top, Keys, Key, RowsOf

(* append_runtime_event takes the next number of its scope and the next row id. *)
LEMMA AppendOK ==
    ASSUME TypeOK, LogOK, NEW s \in Scopes, log' = log \cup {append_runtime_event(s)}
    PROVE  /\ append_runtime_event(s) \in Row
           /\ append_runtime_event(s).scope = s
           /\ append_runtime_event(s) \notin log
           /\ LogOK'
           /\ \A scope \in Scopes \cup {None} : Top(scope)' >= Top(scope)
<1>. DEFINE row == append_runtime_event(s)
<1>0. None \notin Scopes /\ log \subseteq Row
    BY ScopesAssumption DEF TypeOK
<1>1. Keys(None) = {r.id : r \in log} /\ Keys(s) = {r.seq : r \in RowsOf(s)}
    BY <1>0 DEF Keys, Key, RowsOf
<1>2. row = [id |-> Top(None) + 1, scope |-> s, seq |-> Top(s) + 1]
    BY <1>1, Zenon DEF append_runtime_event, Top
<1>3. \A scope \in Scopes \cup {None} : Top(scope) \in Nat /\ Keys(scope) = 1..Top(scope)
    BY DEF LogOK
<1>4. row.id = Top(None) + 1 /\ row.scope = s /\ row.seq = Top(s) + 1 /\ row \in Row
    BY <1>2, <1>3 DEF Row
<1>. HIDE DEF row
<1>5. \A r \in log : r.id \in 1..Top(None) /\ (r.scope = s => r.seq \in 1..Top(s))
    <2>1. \A r \in log : r.id \in Keys(None) /\ (r.scope = s => r.seq \in Keys(s))
        BY <1>0, <1>1 DEF RowsOf
    <2>. QED
        BY <2>1, <1>3
<1>6. row \notin log
    BY <1>3, <1>4, <1>5
<1>7. \A r, q \in log' : r.id = q.id \/ (r.scope = q.scope /\ r.seq = q.seq) => r = q
    <2>1. \A r, q \in log : r.id = q.id \/ (r.scope = q.scope /\ r.seq = q.seq) => r = q
        BY DEF LogOK
    <2>2. \A r \in log : r.id # row.id /\ ~(r.scope = row.scope /\ r.seq = row.seq)
        BY <1>3, <1>4, <1>5
    <2>3. log' = log \cup {row}
        BY DEF row
    <2>. QED
        BY <2>1, <2>2, <2>3
<1>8. ASSUME NEW scope \in Scopes \cup {None}
      PROVE  /\ Top(scope)' \in Nat
             /\ Keys(scope)' = 1..Top(scope)'
             /\ Top(scope)' >= Top(scope)
    <2>0. log' = log \cup {row}
        BY DEF row
    <2>1. CASE scope = None
        <3>1. Keys(scope)' = Keys(scope) \cup {row.id}
            BY <2>0, <2>1, <1>0 DEF Keys, Key, RowsOf
        <3>2. Keys(scope)' = 1..(Top(scope) + 1)
            BY <3>1, <1>3, <1>4, <2>1
        <3>3. Top(scope)' = Top(scope) + 1
            <4>1. Top(scope) + 1 \in Nat
                BY <1>3
            <4>2. (1..(Top(scope) + 1)) \cup {0} \in SUBSET Nat
                BY <4>1
            <4>3. Max((1..(Top(scope) + 1)) \cup {0}) = Top(scope) + 1
                BY <4>1, <4>2, MaxIs
            <4>. QED
                BY <3>2, <4>3, Zenon DEF Top
        <3>. QED
            BY <3>2, <3>3, <1>3
    <2>2. CASE scope = s
        <3>1. Keys(scope)' = Keys(scope) \cup {row.seq}
            BY <2>0, <2>2, <1>0, <1>4 DEF Keys, Key, RowsOf
        <3>2. Keys(scope)' = 1..(Top(scope) + 1)
            BY <3>1, <1>3, <1>4, <2>2
        <3>3. Top(scope)' = Top(scope) + 1
            <4>1. Top(scope) + 1 \in Nat
                BY <1>3
            <4>2. (1..(Top(scope) + 1)) \cup {0} \in SUBSET Nat
                BY <4>1
            <4>3. Max((1..(Top(scope) + 1)) \cup {0}) = Top(scope) + 1
                BY <4>1, <4>2, MaxIs
            <4>. QED
                BY <3>2, <4>3, Zenon DEF Top
        <3>. QED
            BY <3>2, <3>3, <1>3
    <2>3. CASE scope # None /\ scope # s
        <3>1. RowsOf(scope)' = RowsOf(scope)
            BY <2>0, <2>3, <1>4 DEF RowsOf
        <3>2. Keys(scope)' = Keys(scope)
            BY <3>1 DEF Keys, Key
        <3>3. Top(scope)' = Top(scope)
            BY <3>2, Zenon DEF Top
        <3>. QED
            BY <3>2, <3>3, <1>3
    <2>. QED
        BY <2>1, <2>2, <2>3
<1>. QED
    BY <1>4, <1>6, <1>7, <1>8 DEF LogOK, row

(* What a sequence becomes when an element is appended to it. *)
LEMMA AppendIs ==
    ASSUME NEW S, NEW q \in Seq(S), NEW x \in S
    PROVE  /\ Len(q) \in Nat /\ DOMAIN q = 1..Len(q)
           /\ DOMAIN Append(q, x) = 1..(Len(q) + 1)
           /\ \A i \in DOMAIN q : Append(q, x)[i] = q[i]
           /\ Append(q, x)[Len(q) + 1] = x
OBVIOUS

(* A sequence without repetitions has none after an element that is new. *)
LEMMA AppendOnce ==
    ASSUME NEW S, NEW q \in Seq(S), NEW x \in S,
           \A i, j \in DOMAIN q : q[i] = q[j] => i = j,
           \A i \in DOMAIN q : q[i] # x
    PROVE  \A i, j \in DOMAIN Append(q, x) : Append(q, x)[i] = Append(q, x)[j] => i = j
<1>. SUFFICES ASSUME NEW i \in DOMAIN Append(q, x), NEW j \in DOMAIN Append(q, x),
                     Append(q, x)[i] = Append(q, x)[j]
              PROVE  i = j
    OBVIOUS
<1>1. /\ Len(q) \in Nat /\ DOMAIN q = 1..Len(q)
      /\ DOMAIN Append(q, x) = 1..(Len(q) + 1)
      /\ \A k \in DOMAIN q : Append(q, x)[k] = q[k]
      /\ Append(q, x)[Len(q) + 1] = x
    BY AppendIs
<1>2. (i \in DOMAIN q \/ i = Len(q) + 1) /\ (j \in DOMAIN q \/ j = Len(q) + 1)
    BY <1>1
<1>. QED
    BY <1>1, <1>2

-----------------------------------------------------------------------------
(* What a step leaves alone *)

(***************************************************************************)
(* A client whose connection does not change keeps its invariant when the  *)
(* log and the channel grow, if every event stays on its way.              *)
(***************************************************************************)
LEMMA ClientFrame ==
    ASSUME TypeOK, NEW c \in Clients, ClientOK(c),
           stream'[c] = stream[c], delivered'[c] = delivered[c], last'[c] = last[c],
           Top(Followed) \in Nat, Top(Followed)' \in Nat, Top(Followed)' >= Top(Followed),
           sent' \in Seq(Row), Len(sent') >= Len(sent),
           \A i \in DOMAIN sent : sent'[i] = sent[i],
           \A r \in RowsOf(Followed)' : Ahead(c, r)' \/ (r \in RowsOf(Followed) /\ (Ahead(c, r) => Ahead(c, r)'))
    PROVE  ClientOK(c)'
<1>0. stream[c] \in Connection /\ last[c] \in Nat /\ sent \in Seq(Row)
    BY DEF TypeOK
<1>1. CursorsOK(c)'
    BY <1>0 DEF ClientOK, CursorsOK, Connection
<1>2. \A n : WasSent(c, n)' = WasSent(c, n)
    BY DEF WasSent
<1>3. BacklogOK(c)'
    <2>1. \A n : FromChannel(c, n) => FromChannel(c, n)'
        BY <1>0 DEF FromChannel
    <2>2. \A a : SentUpTo(c, a) => SentUpTo(c, a)'
        BY <1>2, <2>1 DEF SentUpTo
    <2>. QED
        BY <2>2 DEF ClientOK, BacklogOK
<1>4. LiveOK(c)'
    BY <1>2 DEF ClientOK, LiveOK
<1>5. SentOnce(c)'
    BY DEF ClientOK, SentOnce
<1>. QED
    BY <1>1, <1>3, <1>4, <1>5 DEF ClientOK

(* A poller whose connection does not change keeps its invariant when the log grows. *)
LEMMA PollerFrame ==
    ASSUME TypeOK, NEW p \in Pollers, PollerOK(p),
           poll'[p] = poll[p], polled'[p] = polled[p],
           Top(PollScope) \in Nat, Top(PollScope)' \in Nat, Top(PollScope)' >= Top(PollScope)
    PROVE  PollerOK(p)'
<1>1. polled[p] \in Seq(Nat) /\ poll[p] \in Poll
    BY DEF TypeOK
<1>. QED
    BY <1>1 DEF PollerOK, Poll

(* A step that leaves log and channel alone is about the connections it changes. *)
LEMMA QuietFrame ==
    ASSUME IInv, UNCHANGED <<log, pending, sent>>
    PROVE  /\ LogOK' /\ ChannelOK'
           /\ \A scope : Top(scope)' = Top(scope) /\ RowsOf(scope)' = RowsOf(scope)
           /\ \A c \in Clients :
                  stream'[c] = stream[c] /\ delivered'[c] = delivered[c] /\ last'[c] = last[c]
                      => ClientOK(c)'
           /\ \A p \in Pollers : poll'[p] = poll[p] /\ polled'[p] = polled[p] => PollerOK(p)'
<1>0. TypeOK /\ LogOK /\ ChannelOK
    BY DEF IInv
<1>1. LogOK' /\ \A scope : Top(scope)' = Top(scope) /\ RowsOf(scope)' = RowsOf(scope)
    BY <1>0, LogFrame
<1>2. ChannelOK'
    BY <1>0 DEF ChannelOK
<1>3. ASSUME NEW c \in Clients,
             stream'[c] = stream[c], delivered'[c] = delivered[c], last'[c] = last[c]
      PROVE  ClientOK(c)'
    <2>1. \A r : Ahead(c, r) => Ahead(c, r)'
        BY <1>3 DEF Ahead
    <2>2. ClientOK(c) /\ Top(Followed) \in Nat /\ sent \in Seq(Row)
        BY <1>0, ScopesAssumption DEF IInv, LogOK, TypeOK
    <2>. QED
        BY <1>0, <1>1, <1>3, <2>1, <2>2, ClientFrame
<1>4. ASSUME NEW p \in Pollers, poll'[p] = poll[p], polled'[p] = polled[p]
      PROVE  PollerOK(p)'
    <2>1. PollerOK(p) /\ Top(PollScope) \in Nat
        BY <1>0, ScopesAssumption DEF IInv, LogOK
    <2>. QED
        BY <1>0, <1>1, <1>4, <2>1, PollerFrame
<1>. QED
    BY <1>1, <1>2, <1>3, <1>4

-----------------------------------------------------------------------------
(* One lemma per action *)

(* A committed row keeps its number until it is sent. *)
LEMMA AppendStep ==
    ASSUME IInv, NEW t \in Tasks, NEW s \in Scopes, append_event(t, s)
    PROVE  IInv'
<1>. DEFINE row == append_runtime_event(s)
<1>0. TypeOK /\ LogOK /\ ChannelOK /\ log' = log \cup {row}
    BY DEF IInv, append_event
<1>1. /\ row \in Row /\ row \notin log /\ LogOK'
      /\ \A scope \in Scopes \cup {None} : Top(scope)' >= Top(scope)
    BY <1>0, AppendOK
<1>. HIDE DEF row
<1>2. /\ pending[t] = None
      /\ pending' = [pending EXCEPT ![t] = row]
      /\ UNCHANGED <<sent, stream, delivered, last, poll, polled, crashes>>
    BY DEF append_event, row, clientVars, pollVars
<1>3. TypeOK'
    BY <1>0, <1>1, <1>2 DEF TypeOK
<1>4. row # None
    BY <1>1, NoneAssumption
<1>5. ChannelOK'
    <2>1. \A i \in DOMAIN sent : sent'[i] \in log' /\ sent'[i] # row
        BY <1>0, <1>1, <1>2 DEF ChannelOK
    <2>2. \A i, j \in DOMAIN sent' : sent'[i] = sent'[j] => i = j
        BY <1>0, <1>2 DEF ChannelOK
    <2>3. \A u \in Tasks : pending'[u] = IF u = t THEN row ELSE pending[u]
        BY <1>0, <1>2 DEF TypeOK
    <2>4. ASSUME NEW u \in Tasks, pending'[u] # None
          PROVE  /\ pending'[u] \in log'
                 /\ \A i \in DOMAIN sent' : sent'[i] # pending'[u]
                 /\ \A v \in Tasks : pending'[v] = pending'[u] => v = u
        BY <1>0, <1>1, <1>2, <2>1, <2>3, <2>4 DEF ChannelOK
    <2>. QED
        BY <1>2, <2>1, <2>2, <2>4 DEF ChannelOK
<1>6. ASSUME NEW c \in Clients
      PROVE  ClientOK(c)'
    <2>1. \A r : Ahead(c, r) => Ahead(c, r)' \/ r = None
        BY <1>0, <1>2 DEF Ahead, TypeOK
    <2>2. \A r : r = row => Ahead(c, r)'
        BY <1>0, <1>2 DEF Ahead, TypeOK
    <2>3. \A r \in RowsOf(Followed)' : r = row \/ (r \in RowsOf(Followed) /\ r # None)
        BY <1>0, NoneAssumption DEF RowsOf, TypeOK
    <2>4. /\ Top(Followed) \in Nat /\ Top(Followed)' \in Nat /\ Top(Followed)' >= Top(Followed)
          /\ ClientOK(c)
          /\ sent' \in Seq(Row) /\ Len(sent') >= Len(sent)
        BY <1>0, <1>1, <1>2, ScopesAssumption DEF LogOK, IInv, TypeOK
    <2>. QED
        BY <1>0, <1>2, <2>1, <2>2, <2>3, <2>4, ClientFrame
<1>7. ASSUME NEW p \in Pollers
      PROVE  PollerOK(p)'
    <2>1. /\ Top(PollScope) \in Nat /\ Top(PollScope)' \in Nat /\ Top(PollScope)' >= Top(PollScope)
          /\ PollerOK(p)
        BY <1>0, <1>1, ScopesAssumption DEF LogOK, IInv
    <2>. QED
        BY <1>0, <1>2, <2>1, PollerFrame
<1>. QED
    BY <1>1, <1>3, <1>5, <1>6, <1>7 DEF IInv

(* A row of another scope is none of the clients' business. *)
LEMMA AppendTeamStep ==
    ASSUME IInv, NEW s \in Scopes, append_team_event(s)
    PROVE  IInv'
<1>. DEFINE row == append_runtime_event(s)
<1>0. TypeOK /\ LogOK /\ ChannelOK /\ log' = log \cup {row} /\ s # Followed
    BY DEF IInv, append_team_event
<1>1. /\ row \in Row /\ row.scope = s /\ row \notin log /\ LogOK'
      /\ \A scope \in Scopes \cup {None} : Top(scope)' >= Top(scope)
    BY <1>0, AppendOK
<1>. HIDE DEF row
<1>2. UNCHANGED <<pending, sent, stream, delivered, last, poll, polled, crashes>>
    BY DEF append_team_event, clientVars, pollVars
<1>3. TypeOK'
    BY <1>0, <1>1, <1>2 DEF TypeOK
<1>5. ChannelOK'
    BY <1>0, <1>2 DEF ChannelOK
<1>6. ASSUME NEW c \in Clients
      PROVE  ClientOK(c)'
    <2>1. \A r : Ahead(c, r) => Ahead(c, r)'
        BY <1>2 DEF Ahead
    <2>3. \A r \in RowsOf(Followed)' : r \in RowsOf(Followed)
        BY <1>0, <1>1, ScopesAssumption DEF RowsOf
    <2>4. /\ Top(Followed) \in Nat /\ Top(Followed)' \in Nat /\ Top(Followed)' >= Top(Followed)
          /\ ClientOK(c)
          /\ sent' \in Seq(Row) /\ Len(sent') >= Len(sent)
        BY <1>0, <1>1, <1>2, ScopesAssumption DEF LogOK, IInv, TypeOK
    <2>. QED
        BY <1>0, <1>2, <2>1, <2>3, <2>4, ClientFrame
<1>7. ASSUME NEW p \in Pollers
      PROVE  PollerOK(p)'
    <2>1. /\ Top(PollScope) \in Nat /\ Top(PollScope)' \in Nat /\ Top(PollScope)' >= Top(PollScope)
          /\ PollerOK(p)
        BY <1>0, <1>1, ScopesAssumption DEF LogOK, IInv
    <2>. QED
        BY <1>0, <1>2, <2>1, PollerFrame
<1>. QED
    BY <1>1, <1>3, <1>5, <1>6, <1>7 DEF IInv

(* A row that leaves its task is in the channel, ahead of every receiver. *)
LEMMA BroadcastStep ==
    ASSUME IInv, NEW t \in Tasks, broadcast(t)
    PROVE  IInv'
<1>0. TypeOK /\ LogOK /\ ChannelOK /\ log' = log
    BY DEF IInv, broadcast
<1>1. LogOK' /\ \A scope : Top(scope)' = Top(scope) /\ RowsOf(scope)' = RowsOf(scope)
    BY <1>0, LogFrame
<1>2. /\ pending[t] # None
      /\ sent' = Append(sent, pending[t])
      /\ pending' = [pending EXCEPT ![t] = None]
      /\ UNCHANGED <<stream, delivered, last, poll, polled, crashes>>
    BY DEF broadcast, clientVars, pollVars
<1>3. pending[t] \in Row /\ sent \in Seq(Row)
    BY <1>0, <1>2 DEF TypeOK
<1>4. TypeOK'
    BY <1>0, <1>2, <1>3 DEF TypeOK
<1>5. /\ sent' \in Seq(Row) /\ Len(sent') = Len(sent) + 1
      /\ sent'[Len(sent) + 1] = pending[t]
      /\ \A i \in DOMAIN sent : sent'[i] = sent[i]
      /\ DOMAIN sent = 1..Len(sent) /\ DOMAIN sent' = 1..(Len(sent) + 1) /\ Len(sent) \in Nat
    BY <1>2, <1>3
<1>6. \A u \in Tasks : pending'[u] = IF u = t THEN None ELSE pending[u]
    BY <1>0, <1>2 DEF TypeOK
<1>7. ChannelOK'
    <2>1. \A i \in DOMAIN sent' : sent'[i] \in log'
        BY <1>0, <1>2, <1>5 DEF ChannelOK
    <2>2. \A i, j \in DOMAIN sent' : sent'[i] = sent'[j] => i = j
        BY <1>0, <1>2, <1>5 DEF ChannelOK
    <2>3. ASSUME NEW u \in Tasks, pending'[u] # None
          PROVE  /\ pending'[u] \in log'
                 /\ \A i \in DOMAIN sent' : sent'[i] # pending'[u]
                 /\ \A v \in Tasks : pending'[v] = pending'[u] => v = u
        BY <1>0, <1>2, <1>5, <1>6, <2>3 DEF ChannelOK
    <2>. QED
        BY <2>1, <2>2, <2>3 DEF ChannelOK
<1>8. ASSUME NEW c \in Clients
      PROVE  ClientOK(c)'
    <2>1. ClientOK(c) /\ Top(Followed) \in Nat /\ stream[c].pos <= Len(sent) /\ stream[c].pos \in Nat
        BY <1>0, ScopesAssumption DEF IInv, LogOK, ClientOK, CursorsOK, TypeOK, Connection
    <2>2. \A r : Ahead(c, r) => Ahead(c, r)'
        <3>1. ASSUME NEW r, NEW i \in DOMAIN sent, i > stream[c].pos, sent[i] = r
              PROVE  Ahead(c, r)'
            BY <1>2, <1>5, <3>1 DEF Ahead
        <3>2. ASSUME NEW r, NEW u \in Tasks, pending[u] = r
              PROVE  Ahead(c, r)'
            <4>1. CASE u = t
                BY <1>2, <1>5, <2>1, <3>2, <4>1 DEF Ahead
            <4>2. CASE u # t
                BY <1>6, <3>2, <4>2 DEF Ahead
            <4>. QED
                BY <4>1, <4>2
        <3>. QED
            BY <3>1, <3>2 DEF Ahead
    <2>. QED
        BY <1>0, <1>1, <1>2, <1>5, <2>1, <2>2, ClientFrame
<1>9. ASSUME NEW p \in Pollers
      PROVE  PollerOK(p)'
    <2>1. Top(PollScope) \in Nat /\ PollerOK(p)
        BY <1>0, ScopesAssumption DEF LogOK, IInv
    <2>. QED
        BY <1>0, <1>1, <1>2, <2>1, PollerFrame
<1>. QED
    BY <1>1, <1>4, <1>7, <1>8, <1>9 DEF IInv

(* A new connection starts at the client's last id, behind nothing that was broadcast. *)
LEMMA SubscribeStep ==
    ASSUME IInv, NEW c \in Clients, subscribe_events(c)
    PROVE  IInv'
<1>0. /\ TypeOK /\ UNCHANGED <<log, pending, sent, last, poll, polled, crashes>>
      /\ stream' = [stream EXCEPT ![c] =
                       [pc |-> "replay", start |-> last[c], cursor |-> last[c], queue |-> {},
                        pos |-> Len(sent), lagged |-> FALSE]]
      /\ delivered' = [delivered EXCEPT ![c] = <<>>]
    BY DEF IInv, subscribe_events, pollVars
<1>1. last[c] \in Nat /\ Len(sent) \in Nat
    BY <1>0 DEF TypeOK
<1>2. TypeOK'
    BY <1>0, <1>1 DEF TypeOK, Connection
<1>3. LogOK' /\ ChannelOK' /\ Top(Followed)' = Top(Followed)
    BY <1>0, QuietFrame
<1>4. ClientOK(c)'
    <2>1. /\ stream'[c] = [pc |-> "replay", start |-> last[c], cursor |-> last[c], queue |-> {},
                           pos |-> Len(sent), lagged |-> FALSE]
          /\ delivered'[c] = <<>> /\ last'[c] = last[c] /\ sent' = sent
        BY <1>0 DEF TypeOK
    <2>2. last[c] <= Top(Followed) /\ Top(Followed) \in Nat
        BY ScopesAssumption DEF IInv, ClientOK, CursorsOK, LogOK
    <2>3. CursorsOK(c)'
        BY <1>1, <1>3, <2>1, <2>2 DEF CursorsOK
    <2>4. BacklogOK(c)' /\ LiveOK(c)'
        BY <1>1, <2>1 DEF BacklogOK, LiveOK
    <2>5. SentOnce(c)'
        BY <2>1 DEF SentOnce
    <2>. QED
        BY <2>3, <2>4, <2>5 DEF ClientOK
<1>5. ASSUME NEW d \in Clients, d # c
      PROVE  ClientOK(d)'
    <2>1. stream'[d] = stream[d] /\ delivered'[d] = delivered[d] /\ last'[d] = last[d]
        BY <1>0, <1>5 DEF TypeOK
    <2>. QED
        BY <1>0, <2>1, QuietFrame
<1>6. \A p \in Pollers : PollerOK(p)'
    BY <1>0, QuietFrame
<1>. QED
    BY <1>2, <1>3, <1>4, <1>5, <1>6 DEF IInv

(***************************************************************************)
(* A page extends the backlog without a gap, and the connection goes live  *)
(* only when no row is left above the watermark.                           *)
(***************************************************************************)
LEMMA ReplayPageStep ==
    ASSUME IInv, NEW c \in Clients, replay_session_events(c)
    PROVE  IInv'
<1>. DEFINE page == list_runtime_events(Followed, stream[c].cursor)
            next == IF page = {} THEN stream[c].cursor ELSE Max(page)
<1>0. /\ TypeOK /\ UNCHANGED <<log, pending, sent, delivered, last, poll, polled, crashes>>
      /\ stream[c].pc = "replay"
      /\ stream' = [stream EXCEPT
             ![c].cursor = next,
             ![c].queue = @ \cup page,
             ![c].pc = IF Cardinality(page) < PageLimit THEN "live" ELSE "replay"]
    BY DEF IInv, replay_session_events, pollVars
<1>1. stream[c] \in Connection /\ LogOK /\ ClientOK(c) /\ Top(Followed) \in Nat
    BY <1>0, ScopesAssumption DEF TypeOK, IInv, LogOK
<1>2. stream[c].cursor \in 0..Top(Followed)
    BY <1>1 DEF Connection, ClientOK, CursorsOK
<1>3. PICK m \in stream[c].cursor..Top(Followed) :
             /\ page = (stream[c].cursor + 1)..m
             /\ next = m
             /\ Cardinality(page) < PageLimit => m = Top(Followed)
    BY <1>1, <1>2, ScopesAssumption, PageIs
<1>4. PICK x \in {"live", "replay"} :
             /\ stream'[c] = [stream[c] EXCEPT !.cursor = m, !.queue = (stream[c].start + 1)..m,
                                               !.pc = x]
             /\ x = "live" => m = Top(Followed)
    <2>1. stream[c].queue = (stream[c].start + 1)..stream[c].cursor
        BY <1>0, <1>1 DEF ClientOK, BacklogOK
    <2>2. stream[c].queue \cup page = (stream[c].start + 1)..m
        BY <1>1, <1>2, <1>3, <2>1 DEF Connection, ClientOK, CursorsOK
    <2>. HIDE DEF page, next
    <2>. QED
        BY <1>0, <1>1, <1>3, <2>2 DEF TypeOK, Connection
<1>. HIDE DEF page, next
<1>5. m \in Nat /\ stream[c].start \in Nat /\ stream[c].start <= m
    BY <1>1, <1>2, <1>3 DEF Connection, ClientOK, CursorsOK
<1>6. TypeOK'
    <2>0. (stream[c].start + 1)..m \in SUBSET Nat
        BY <1>5
    <2>1. stream'[c] \in Connection
        BY <1>1, <1>4, <1>5, <2>0 DEF Connection
    <2>2. \A d \in Clients : d # c => stream'[d] = stream[d]
        BY <1>0 DEF TypeOK
    <2>3. stream' \in [Clients -> Connection]
        BY <1>0, <2>1, <2>2 DEF TypeOK
    <2>. QED
        BY <1>0, <2>3 DEF TypeOK
<1>7. /\ LogOK' /\ ChannelOK'
      /\ Top(Followed)' = Top(Followed) /\ RowsOf(Followed)' = RowsOf(Followed)
    BY <1>0, QuietFrame
<1>8. ClientOK(c)'
    <2>1. /\ stream'[c].start = stream[c].start /\ stream'[c].cursor = m
          /\ stream'[c].queue = (stream[c].start + 1)..m /\ stream'[c].pos = stream[c].pos
          /\ stream'[c].pc = x
        BY <1>1, <1>4 DEF Connection
    <2>2. CursorsOK(c)'
        BY <1>0, <1>1, <1>3, <1>5, <1>7, <2>1 DEF ClientOK, CursorsOK
    <2>3. delivered'[c] = <<>>
        BY <1>0, <1>1 DEF ClientOK, BacklogOK
    <2>4. BacklogOK(c)'
        <3>1. SentUpTo(c, stream[c].start)'
            <4>1. \A a : a = stream[c].start => SentUpTo(c, a)'
                BY <1>5, <2>1, <2>3 DEF SentUpTo
            <4>. QED
                BY <1>5, <2>1, <4>1 DEF SentUpTo
        <3>. QED
            BY <1>4, <1>5, <2>1, <2>3, <3>1 DEF BacklogOK
    <2>5. LiveOK(c)'
        <3>1. \A r \in RowsOf(Followed) : r.seq \in 1..Top(Followed)
            BY <1>1, ScopesAssumption DEF LogOK, Keys, Key
        <3>. QED
            BY <1>1, <1>4, <1>7, <2>1, <3>1 DEF LiveOK
    <2>6. SentOnce(c)'
        BY <2>3 DEF SentOnce
    <2>. QED
        BY <2>2, <2>4, <2>5, <2>6 DEF ClientOK
<1>9. ASSUME NEW d \in Clients, d # c
      PROVE  ClientOK(d)'
    <2>1. stream'[d] = stream[d] /\ delivered'[d] = delivered[d] /\ last'[d] = last[d]
        BY <1>0, <1>9 DEF TypeOK
    <2>. QED
        BY <1>0, <2>1, QuietFrame
<1>10. \A p \in Pollers : PollerOK(p)'
    BY <1>0, QuietFrame
<1>. QED
    BY <1>6, <1>7, <1>8, <1>9, <1>10 DEF IInv

(* The backlog is sent in order, each event of it once. *)
LEMMA ReplayStreamStep ==
    ASSUME IInv, NEW c \in Clients, replay_stream(c)
    PROVE  IInv'
<1>0. /\ TypeOK /\ UNCHANGED <<log, pending, sent, poll, polled, crashes>>
      /\ stream[c].pc = "live" /\ stream[c].queue # {}
      /\ stream' = [stream EXCEPT ![c].queue = @ \ {Min(@)}]
      /\ delivered' = [delivered EXCEPT ![c] = Append(@, Min(stream[c].queue))]
      /\ last' = [last EXCEPT ![c] = Min(stream[c].queue)]
    BY DEF IInv, replay_stream, Deliver, pollVars
<1>1. /\ stream[c] \in Connection /\ delivered[c] \in Seq(Nat) /\ ClientOK(c)
      /\ Top(Followed) \in Nat
    BY <1>0, ScopesAssumption DEF TypeOK, IInv, LogOK
<1>2. PICK a \in stream[c].start..stream[c].cursor : SentUpTo(c, a)
    BY <1>0, <1>1 DEF ClientOK, BacklogOK
<1>3. a \in Nat /\ stream[c].cursor \in Nat /\ stream[c].start \in Nat /\ a < stream[c].cursor
    BY <1>0, <1>1, <1>2 DEF SentUpTo, Connection
<1>4. Min(stream[c].queue) = a + 1
    <2>1. stream[c].queue = (a + 1)..stream[c].cursor
        BY <1>2 DEF SentUpTo
    <2>2. a + 1 \in stream[c].queue /\ stream[c].queue \in SUBSET Nat
        BY <1>3, <2>1
    <2>3. \A x \in stream[c].queue : a + 1 <= x
        BY <1>3, <2>1
    <2>. QED
        BY <2>2, <2>3, MinIs
<1>5. stream[c].queue \ {a + 1} = (a + 2)..stream[c].cursor
    BY <1>2, <1>3 DEF SentUpTo
<1>6. /\ stream'[c] = [stream[c] EXCEPT !.queue = (a + 2)..stream[c].cursor]
      /\ delivered'[c] = Append(delivered[c], a + 1)
      /\ last'[c] = a + 1
    BY <1>0, <1>4, <1>5 DEF TypeOK
<1>7. TypeOK'
    <2>0. (a + 2)..stream[c].cursor \in SUBSET Nat
        BY <1>3
    <2>1. stream'[c] \in Connection
        BY <1>1, <1>6, <2>0 DEF Connection
    <2>2. stream' \in [Clients -> Connection]
        BY <1>0, <2>1 DEF TypeOK
    <2>3. delivered' \in [Clients -> Seq(Nat)]
        BY <1>0, <1>1, <1>3, <1>4 DEF TypeOK
    <2>4. last' \in [Clients -> Nat]
        BY <1>0, <1>3, <1>4 DEF TypeOK
    <2>. QED
        BY <1>0, <2>2, <2>3, <2>4 DEF TypeOK
<1>8. /\ LogOK' /\ ChannelOK'
      /\ Top(Followed)' = Top(Followed) /\ RowsOf(Followed)' = RowsOf(Followed)
    BY <1>0, QuietFrame
<1>9. ClientOK(c)'
    <2>1. /\ stream'[c].start = stream[c].start /\ stream'[c].cursor = stream[c].cursor
          /\ stream'[c].queue = (a + 2)..stream[c].cursor /\ stream'[c].pos = stream[c].pos
          /\ stream'[c].pc = "live" /\ stream'[c].lagged = stream[c].lagged
        BY <1>0, <1>1, <1>6 DEF Connection
    <2>2. /\ DOMAIN delivered[c] = 1..Len(delivered[c]) /\ Len(delivered[c]) \in Nat
          /\ DOMAIN delivered'[c] = 1..(Len(delivered[c]) + 1)
          /\ \A i \in DOMAIN delivered[c] : delivered'[c][i] = delivered[c][i]
          /\ delivered'[c][Len(delivered[c]) + 1] = a + 1
        BY <1>1, <1>3, <1>6, AppendIs
    <2>3. \A i \in DOMAIN delivered[c] : delivered[c][i] \in Nat /\ delivered[c][i] <= a
        BY <1>1, <1>2, <1>3 DEF SentUpTo
    <2>4. \A n : WasSent(c, n)' <=> WasSent(c, n) \/ n = a + 1
        BY <2>2 DEF WasSent
    <2>5. CursorsOK(c)'
        BY <1>0, <1>1, <1>3, <1>6, <1>8, <2>1 DEF ClientOK, CursorsOK, Connection
    <2>6. BacklogOK(c)'
        <3>1. ASSUME NEW b, b = a + 1
              PROVE  SentUpTo(c, b)'
            <4>1. stream'[c].queue = (b + 1)..stream'[c].cursor
                BY <1>3, <2>1, <3>1
            <4>2. \A n \in (stream[c].start + 1)..a : WasSent(c, n)
                BY <1>2 DEF SentUpTo
            <4>3. \A n \in (stream'[c].start + 1)..b : WasSent(c, n)'
                BY <1>3, <2>1, <2>4, <3>1, <4>2
            <4>4. \A i \in DOMAIN delivered'[c] : delivered'[c][i] <= b
                BY <1>3, <2>2, <2>3, <3>1
            <4>. QED
                BY <4>1, <4>3, <4>4 DEF SentUpTo
        <3>2. a + 1 \in (stream[c].start)..stream[c].cursor
            BY <1>2, <1>3
        <3>. QED
            BY <2>1, <3>1, <3>2 DEF BacklogOK
    <2>7. LiveOK(c)'
        <3>1. \A r : Ahead(c, r)' = Ahead(c, r)
            BY <1>0, <2>1 DEF Ahead
        <3>. QED
            BY <1>0, <1>1, <1>8, <2>1, <2>4, <3>1 DEF ClientOK, LiveOK
    <2>8. SentOnce(c)'
        <3>1. \A i \in DOMAIN delivered[c] : delivered[c][i] # a + 1
            BY <1>3, <2>3
        <3>2. \A i, j \in DOMAIN delivered[c] : delivered[c][i] = delivered[c][j] => i = j
            BY <1>1 DEF ClientOK, SentOnce
        <3>3. \A i, j \in DOMAIN Append(delivered[c], a + 1) :
                 Append(delivered[c], a + 1)[i] = Append(delivered[c], a + 1)[j] => i = j
            <4>1. a + 1 \in Nat /\ delivered[c] \in Seq(Nat)
                BY <1>1, <1>3
            <4>. QED
                BY <3>1, <3>2, <4>1, AppendOnce
        <3>. QED
            BY <1>6, <3>3, Zenon DEF SentOnce
    <2>. QED
        BY <2>5, <2>6, <2>7, <2>8 DEF ClientOK
<1>10. ASSUME NEW d \in Clients, d # c
       PROVE  ClientOK(d)'
    <2>1. stream'[d] = stream[d] /\ delivered'[d] = delivered[d] /\ last'[d] = last[d]
        BY <1>0, <1>10 DEF TypeOK
    <2>. QED
        BY <1>0, <2>1, QuietFrame
<1>11. \A p \in Pollers : PollerOK(p)'
    BY <1>0, QuietFrame
<1>. QED
    BY <1>7, <1>8, <1>9, <1>10, <1>11 DEF IInv

(* A receiver that lags goes forward, and its client is told nothing. *)
LEMMA LaggedStep ==
    ASSUME IInv, NEW c \in Clients, Lagged(c)
    PROVE  IInv'
<1>0. /\ TypeOK /\ UNCHANGED <<log, pending, sent, delivered, last, poll, polled, crashes>>
      /\ stream[c].pc = "live" /\ Len(sent) - stream[c].pos > Capacity
      /\ stream' = [stream EXCEPT ![c].pos = Len(sent) - Capacity, ![c].lagged = TRUE]
    BY DEF IInv, Lagged, pollVars
<1>1. /\ stream[c] \in Connection /\ ClientOK(c) /\ Len(sent) \in Nat /\ Capacity \in Nat
    BY <1>0, LimitsAssumption DEF TypeOK, IInv
<1>2. /\ stream'[c] = [stream[c] EXCEPT !.pos = Len(sent) - Capacity, !.lagged = TRUE]
      /\ Len(sent) - Capacity \in Nat /\ stream[c].pos <= Len(sent) - Capacity
    BY <1>0, <1>1 DEF TypeOK, Connection
<1>3. TypeOK'
    <2>1. stream'[c] \in Connection
        BY <1>1, <1>2 DEF Connection
    <2>2. stream' \in [Clients -> Connection]
        BY <1>0, <2>1 DEF TypeOK
    <2>. QED
        BY <1>0, <2>2 DEF TypeOK
<1>4. LogOK' /\ ChannelOK' /\ Top(Followed)' = Top(Followed)
    BY <1>0, QuietFrame
<1>5. ClientOK(c)'
    <2>1. /\ stream'[c].start = stream[c].start /\ stream'[c].cursor = stream[c].cursor
          /\ stream'[c].queue = stream[c].queue /\ stream'[c].pos = Len(sent) - Capacity
          /\ stream'[c].pc = stream[c].pc
        BY <1>1, <1>2, Zenon DEF Connection
    <2>0. stream'[c].lagged
        BY <1>1, <1>2, Zenon DEF Connection
    <2>2. CursorsOK(c)'
        BY <1>0, <1>1, <1>2, <1>4, <2>1 DEF ClientOK, CursorsOK
    <2>3. \A n : FromChannel(c, n) => FromChannel(c, n)'
        <3>1. stream[c].pos \in Nat
            BY <1>1 DEF Connection
        <3>. QED
            BY <1>0, <1>1, <1>2, <2>1, <3>1 DEF FromChannel, TypeOK
    <2>4. \A a : SentUpTo(c, a) => SentUpTo(c, a)'
        BY <1>0, <2>1, <2>3 DEF SentUpTo, WasSent
    <2>5. BacklogOK(c)'
        BY <1>0, <1>1, <2>1, <2>4 DEF ClientOK, BacklogOK
    <2>6. LiveOK(c)' /\ SentOnce(c)'
        BY <1>0, <1>1, <2>0 DEF ClientOK, LiveOK, SentOnce
    <2>. QED
        BY <2>2, <2>5, <2>6 DEF ClientOK
<1>6. ASSUME NEW d \in Clients, d # c
      PROVE  ClientOK(d)'
    <2>1. stream'[d] = stream[d] /\ delivered'[d] = delivered[d] /\ last'[d] = last[d]
        BY <1>0, <1>6 DEF TypeOK
    <2>. QED
        BY <1>0, <2>1, QuietFrame
<1>7. \A p \in Pollers : PollerOK(p)'
    BY <1>0, QuietFrame
<1>. QED
    BY <1>3, <1>4, <1>5, <1>6, <1>7 DEF IInv

(***************************************************************************)
(* The next event of the channel is passed on if it is above the           *)
(* watermark, and then it is one the client has not got: a row is          *)
(* broadcast once, and everything replayed is below the watermark.         *)
(***************************************************************************)
LEMMA LiveStep ==
    ASSUME IInv, NEW c \in Clients, live_stream(c)
    PROVE  IInv'
<1>. DEFINE r == sent[stream[c].pos + 1]
<1>0. /\ TypeOK /\ LogOK /\ ChannelOK /\ UNCHANGED <<log, pending, sent, poll, polled, crashes>>
      /\ stream[c].pc = "live" /\ stream[c].queue = {} /\ stream[c].pos < Len(sent)
      /\ stream' = [stream EXCEPT ![c].pos = @ + 1]
      /\ IF passes_filter(c, r)
            THEN /\ delivered' = [delivered EXCEPT ![c] = Append(@, r.seq)]
                 /\ last' = [last EXCEPT ![c] = r.seq]
            ELSE UNCHANGED <<delivered, last>>
    BY DEF IInv, live_stream, Deliver, pollVars
<1>1. /\ stream[c] \in Connection /\ delivered[c] \in Seq(Nat) /\ ClientOK(c)
      /\ Top(Followed) \in Nat /\ Len(sent) \in Nat /\ DOMAIN sent = 1..Len(sent)
    BY <1>0, ScopesAssumption DEF TypeOK, IInv, LogOK
<1>2. /\ stream[c].pos \in Nat /\ stream[c].pos + 1 \in DOMAIN sent /\ r \in log /\ r \in Row
      /\ stream[c].cursor \in Nat /\ stream[c].start \in Nat
    BY <1>0, <1>1 DEF Connection, ChannelOK, TypeOK
<1>3. SentUpTo(c, stream[c].cursor)
    <2>1. PICK a \in stream[c].start..stream[c].cursor : SentUpTo(c, a)
        BY <1>0, <1>1 DEF ClientOK, BacklogOK
    <2>2. a = stream[c].cursor
        <3>1. a < stream[c].cursor => stream[c].cursor \in (a + 1)..stream[c].cursor
            BY <1>2, <2>1
        <3>2. (a + 1)..stream[c].cursor = {}
            BY <1>0, <2>1 DEF SentUpTo
        <3>. QED
            BY <1>2, <2>1, <3>1, <3>2
    <2>. QED
        BY <2>1, <2>2
<1>4. stream'[c] = [stream[c] EXCEPT !.pos = stream[c].pos + 1]
    BY <1>0 DEF TypeOK
<1>5. /\ stream'[c].start = stream[c].start /\ stream'[c].cursor = stream[c].cursor
      /\ stream'[c].queue = stream[c].queue /\ stream'[c].pos = stream[c].pos + 1
      /\ stream'[c].pc = "live" /\ stream'[c].lagged = stream[c].lagged
    BY <1>0, <1>1, <1>4 DEF Connection
<1>6. stream' \in [Clients -> Connection]
    <2>0. stream[c].pos + 1 \in Nat /\ stream[c] \in Connection
        BY <1>1, <1>2
    <2>1. stream'[c] \in Connection
        BY <2>0, <1>4 DEF Connection
    <2>. QED
        BY <1>0, <2>1 DEF TypeOK
<1>7. /\ LogOK' /\ ChannelOK'
      /\ Top(Followed)' = Top(Followed) /\ RowsOf(Followed)' = RowsOf(Followed)
    BY <1>0, QuietFrame
<1>8. r.seq \in Nat
    BY <1>2 DEF Row
<1>9. \A q \in RowsOf(Followed) : Ahead(c, q) => Ahead(c, q)' \/ q = r
    BY <1>0, <1>2, <1>5 DEF Ahead
<1>10. \A n : FromChannel(c, n) => FromChannel(c, n)'
    BY <1>0, <1>1, <1>2, <1>5 DEF FromChannel
<1>. HIDE DEF r
<1>11. CASE passes_filter(c, r)
    <2>1. /\ delivered' = [delivered EXCEPT ![c] = Append(delivered[c], r.seq)]
          /\ last' = [last EXCEPT ![c] = r.seq]
        BY <1>0, <1>11
    <2>2. r.scope = Followed /\ r.seq > stream[c].cursor
        BY <1>11 DEF passes_filter
    <2>3. delivered'[c] = Append(delivered[c], r.seq) /\ last'[c] = r.seq
        BY <1>0, <2>1 DEF TypeOK
    <2>4. TypeOK'
        <3>1. delivered' \in [Clients -> Seq(Nat)]
            BY <1>0, <1>1, <1>8, <2>1 DEF TypeOK
        <3>2. last' \in [Clients -> Nat]
            BY <1>0, <1>8, <2>1 DEF TypeOK
        <3>. QED
            BY <1>0, <1>6, <3>1, <3>2 DEF TypeOK
    <2>5. r.seq <= Top(Followed)
        <3>1. r.seq \in Keys(Followed)
            BY <1>2, <2>2, ScopesAssumption DEF Keys, Key, RowsOf
        <3>. QED
            BY <1>0, <1>1, <3>1, ScopesAssumption DEF LogOK
    <2>6. \A i \in DOMAIN delivered[c] : delivered[c][i] # r.seq
        <3>1. SUFFICES ASSUME NEW i \in DOMAIN delivered[c], delivered[c][i] = r.seq
                       PROVE  FALSE
            OBVIOUS
        <3>2. FromChannel(c, r.seq)
            BY <1>2, <1>3, <1>8, <2>2, <3>1 DEF SentUpTo
        <3>3. PICK j \in DOMAIN sent : j <= stream[c].pos /\ sent[j].scope = Followed /\ sent[j].seq = r.seq
            BY <3>2 DEF FromChannel
        <3>4. sent[j] = r
            BY <1>0, <1>2, <2>2, <3>3 DEF LogOK, ChannelOK
        <3>5. j = stream[c].pos + 1
            BY <1>0, <1>2, <3>3, <3>4 DEF ChannelOK, r
        <3>. QED
            BY <1>1, <1>2, <3>3, <3>5
    <2>7. /\ DOMAIN delivered[c] = 1..Len(delivered[c]) /\ Len(delivered[c]) \in Nat
          /\ DOMAIN delivered'[c] = 1..(Len(delivered[c]) + 1)
          /\ \A i \in DOMAIN delivered[c] : delivered'[c][i] = delivered[c][i]
          /\ delivered'[c][Len(delivered[c]) + 1] = r.seq
        BY <1>1, <1>8, <2>3, AppendIs
    <2>8. \A n : WasSent(c, n)' <=> WasSent(c, n) \/ n = r.seq
        BY <2>7 DEF WasSent
    <2>9. CursorsOK(c)'
        BY <1>0, <1>1, <1>2, <1>5, <1>7, <2>3, <2>5 DEF ClientOK, CursorsOK
    <2>10. \A n : n = r.seq => FromChannel(c, n)'
        <3>1. /\ stream[c].pos + 1 \in DOMAIN sent' /\ sent'[stream[c].pos + 1] = r
              /\ stream[c].pos + 1 <= stream'[c].pos
            BY <1>0, <1>2, <1>5 DEF r
        <3>. QED
            BY <1>5, <2>2, <3>1 DEF FromChannel
    <2>11. BacklogOK(c)'
        <3>1. \A a : a = stream[c].cursor => SentUpTo(c, a)'
            BY <1>3, <1>5, <1>10, <2>7, <2>8, <2>10 DEF SentUpTo
        <3>2. stream[c].cursor \in stream[c].start..stream[c].cursor
            BY <1>1, <1>2 DEF ClientOK, CursorsOK
        <3>. QED
            BY <1>5, <3>1, <3>2 DEF BacklogOK
    <2>12. LiveOK(c)'
        BY <1>0, <1>1, <1>5, <1>7, <1>9, <2>8 DEF ClientOK, LiveOK
    <2>13. SentOnce(c)'
        <3>2. \A i, j \in DOMAIN delivered[c] : delivered[c][i] = delivered[c][j] => i = j
            BY <1>1 DEF ClientOK, SentOnce
        <3>3. \A i, j \in DOMAIN Append(delivered[c], r.seq) :
                 Append(delivered[c], r.seq)[i] = Append(delivered[c], r.seq)[j] => i = j
            BY <1>1, <1>8, <2>6, <3>2, AppendOnce
        <3>. QED
            BY <2>3, <3>3, Zenon DEF SentOnce
    <2>14. ASSUME NEW d \in Clients, d # c
           PROVE  ClientOK(d)'
        <3>1. stream'[d] = stream[d] /\ delivered'[d] = delivered[d] /\ last'[d] = last[d]
            BY <1>0, <2>1, <2>14 DEF TypeOK
        <3>. QED
            BY <1>0, <3>1, QuietFrame
    <2>15. \A p \in Pollers : PollerOK(p)'
        BY <1>0, QuietFrame
    <2>16. ClientOK(c)'
        BY <2>9, <2>11, <2>12, <2>13 DEF ClientOK
    <2>. QED
        BY <1>7, <2>4, <2>14, <2>15, <2>16 DEF IInv
<1>12. CASE ~passes_filter(c, r)
    <2>1. UNCHANGED <<delivered, last>>
        BY <1>0, <1>12
    <2>2. ~(r.scope = Followed /\ r.seq > stream[c].cursor)
        BY <1>12 DEF passes_filter
    <2>3. TypeOK'
        BY <1>0, <1>6, <2>1 DEF TypeOK
    <2>4. \A n : WasSent(c, n)' <=> WasSent(c, n)
        BY <2>1 DEF WasSent
    <2>5. CursorsOK(c)'
        BY <1>0, <1>1, <1>2, <1>5, <1>7, <2>1 DEF ClientOK, CursorsOK
    <2>6. BacklogOK(c)'
        <3>1. \A a : a = stream[c].cursor => SentUpTo(c, a)'
            BY <1>3, <1>5, <1>10, <2>1, <2>4 DEF SentUpTo
        <3>2. stream[c].cursor \in stream[c].start..stream[c].cursor
            BY <1>1, <1>2 DEF ClientOK, CursorsOK
        <3>. QED
            BY <1>5, <3>1, <3>2 DEF BacklogOK
    <2>7. LiveOK(c)'
        <3>1. \A q \in RowsOf(Followed) : q.scope = Followed
            BY ScopesAssumption DEF RowsOf
        <3>. QED
            BY <1>0, <1>1, <1>5, <1>7, <1>9, <2>2, <2>4, <3>1 DEF ClientOK, LiveOK
    <2>8. SentOnce(c)'
        BY <1>1, <2>1 DEF ClientOK, SentOnce
    <2>9. ASSUME NEW d \in Clients, d # c
          PROVE  ClientOK(d)'
        <3>1. stream'[d] = stream[d] /\ delivered'[d] = delivered[d] /\ last'[d] = last[d]
            BY <1>0, <2>1, <2>9 DEF TypeOK
        <3>. QED
            BY <1>0, <3>1, QuietFrame
    <2>10. \A p \in Pollers : PollerOK(p)'
        BY <1>0, QuietFrame
    <2>11. ClientOK(c)'
        BY <2>5, <2>6, <2>7, <2>8 DEF ClientOK
    <2>. QED
        BY <1>7, <2>3, <2>9, <2>10, <2>11 DEF IInv
<1>. QED
    BY <1>11, <1>12

(* A connection that ends leaves the client its last id. *)
LEMMA DisconnectStep ==
    ASSUME IInv, NEW c \in Clients, disconnect(c)
    PROVE  IInv'
<1>0. /\ TypeOK /\ UNCHANGED <<log, pending, sent, last, poll, polled, crashes>>
      /\ stream' = [stream EXCEPT ![c] = Off]
      /\ delivered' = [delivered EXCEPT ![c] = <<>>]
    BY DEF IInv, disconnect, pollVars
<1>1. TypeOK'
    BY <1>0 DEF TypeOK, Connection, Off
<1>2. LogOK' /\ ChannelOK' /\ Top(Followed)' = Top(Followed)
    BY <1>0, QuietFrame
<1>3. ClientOK(c)'
    <2>1. stream'[c] = Off /\ delivered'[c] = <<>> /\ last'[c] = last[c] /\ sent' = sent
        BY <1>0 DEF TypeOK
    <2>2. last[c] <= Top(Followed) /\ Top(Followed) \in Nat /\ Len(sent) \in Nat
        BY <1>0, ScopesAssumption DEF IInv, ClientOK, CursorsOK, LogOK, TypeOK
    <2>. QED
        BY <1>2, <2>1, <2>2 DEF ClientOK, CursorsOK, BacklogOK, LiveOK, SentOnce, Off
<1>4. ASSUME NEW d \in Clients, d # c
      PROVE  ClientOK(d)'
    <2>1. stream'[d] = stream[d] /\ delivered'[d] = delivered[d] /\ last'[d] = last[d]
        BY <1>0, <1>4 DEF TypeOK
    <2>. QED
        BY <1>0, <2>1, QuietFrame
<1>5. \A p \in Pollers : PollerOK(p)'
    BY <1>0, QuietFrame
<1>. QED
    BY <1>1, <1>2, <1>3, <1>4, <1>5 DEF IInv

(* What a step of a poller owes: the poller's own part of the invariant. *)
LEMMA PollFrame ==
    ASSUME IInv, NEW p \in Pollers, UNCHANGED <<log, pending, sent, clientVars, crashes>>,
           TypeOK', PollerOK(p)',
           \A q \in Pollers : q # p => poll'[q] = poll[q] /\ polled'[q] = polled[q]
    PROVE  IInv'
<1>1. UNCHANGED <<log, pending, sent, stream, delivered, last, crashes>>
    BY DEF clientVars
<1>2. LogOK' /\ ChannelOK' /\ \A c \in Clients : ClientOK(c)'
    BY <1>1, QuietFrame
<1>3. \A q \in Pollers : PollerOK(q)'
    BY <1>1, QuietFrame
<1>. QED
    BY <1>2, <1>3 DEF IInv

(* The last id a poller was sent is the number of events it was sent. *)
LEMMA LastPolledIs ==
    ASSUME NEW p \in Pollers, PollerOK(p), polled[p] \in Seq(Nat)
    PROVE  LastPolled(p) = Len(polled[p])
<1>1. CASE polled[p] = <<>>
    BY <1>1 DEF LastPolled
<1>2. CASE polled[p] # <<>>
    <2>1. Len(polled[p]) \in DOMAIN polled[p]
        BY <1>2
    <2>. QED
        BY <1>2, <2>1 DEF LastPolled, PollerOK
<1>. QED
    BY <1>1, <1>2

(* A poller that connects starts at the last id it was sent. *)
LEMMA PollConnectStep ==
    ASSUME IInv, NEW p \in Pollers, poll_connect(p)
    PROVE  IInv'
<1>0. /\ TypeOK /\ UNCHANGED <<log, pending, sent, clientVars, polled, crashes>>
      /\ poll' = [poll EXCEPT ![p] = [pc |-> "replay", cursor |-> LastPolled(p), queue |-> {}]]
    BY DEF IInv, poll_connect
<1>1. polled[p] \in Seq(Nat) /\ PollerOK(p) /\ Len(polled[p]) \in Nat
    BY <1>0 DEF TypeOK, IInv
<1>2. LastPolled(p) = Len(polled[p])
    BY <1>1, LastPolledIs
<1>3. TypeOK'
    BY <1>0, <1>1, <1>2 DEF TypeOK, Poll, clientVars
<1>4. Top(PollScope)' = Top(PollScope) /\ Top(PollScope) \in Nat
    BY <1>0, ScopesAssumption, LogFrame DEF IInv, LogOK
<1>5. PollerOK(p)'
    <2>1. /\ poll'[p] = [pc |-> "replay", cursor |-> Len(polled[p]), queue |-> {}]
          /\ polled'[p] = polled[p]
        BY <1>0, <1>2 DEF TypeOK
    <2>2. (Len(polled[p]) + 1)..Len(polled[p]) = {}
        BY <1>1
    <2>. QED
        BY <1>1, <1>4, <2>1, <2>2 DEF PollerOK
<1>6. \A q \in Pollers : q # p => poll'[q] = poll[q] /\ polled'[q] = polled[q]
    BY <1>0 DEF TypeOK
<1>. QED
    BY <1>0, <1>3, <1>5, <1>6, PollFrame

(* A page goes behind what was read before, without a gap. *)
LEMMA PollPageStep ==
    ASSUME IInv, NEW p \in Pollers, poll_page(p)
    PROVE  IInv'
<1>. DEFINE page == list_runtime_events(PollScope, poll[p].cursor)
            next == IF page = {} THEN poll[p].cursor ELSE Max(page)
            pc == IF Cardinality(page) < PageLimit THEN "live" ELSE poll[p].pc
<1>0. /\ TypeOK /\ LogOK /\ UNCHANGED <<log, pending, sent, clientVars, polled, crashes>>
      /\ poll[p].pc # "off"
      /\ poll' = [poll EXCEPT ![p].cursor = next, ![p].queue = @ \cup page, ![p].pc = pc]
    BY DEF IInv, poll_page
<1>. HIDE DEF page, next, pc
<1>1. /\ poll[p] \in Poll /\ PollerOK(p) /\ polled[p] \in Seq(Nat) /\ Len(polled[p]) \in Nat
      /\ Top(PollScope) \in Nat
    BY <1>0, ScopesAssumption DEF TypeOK, IInv, LogOK
<1>2. poll[p].cursor \in 0..Top(PollScope)
    BY <1>0, <1>1 DEF Poll, PollerOK
<1>3. PICK m \in poll[p].cursor..Top(PollScope) : page = (poll[p].cursor + 1)..m /\ next = m
    BY <1>0, <1>2, ScopesAssumption, PageIs DEF page, next
<1>4. pc \in {"off", "replay", "live"} /\ pc # "off"
    BY <1>0, <1>1 DEF Poll, pc
<1>5. poll[p].queue \cup page = (Len(polled[p]) + 1)..m
    BY <1>0, <1>1, <1>2, <1>3 DEF PollerOK
<1>6. poll'[p] = [poll[p] EXCEPT !.cursor = m, !.queue = (Len(polled[p]) + 1)..m, !.pc = pc]
    BY <1>0, <1>3, <1>5 DEF TypeOK
<1>7. m \in Nat /\ (Len(polled[p]) + 1)..m \in SUBSET Nat
    BY <1>1, <1>2, <1>3
<1>8. TypeOK'
    <2>1. poll'[p] \in Poll
        BY <1>1, <1>4, <1>6, <1>7 DEF Poll
    <2>2. poll' \in [Pollers -> Poll]
        BY <1>0, <2>1 DEF TypeOK
    <2>. QED
        BY <1>0, <2>2 DEF TypeOK, clientVars
<1>9. Top(PollScope)' = Top(PollScope)
    BY <1>0, LogFrame
<1>10. PollerOK(p)'
    <2>1. /\ poll'[p].cursor = m /\ poll'[p].queue = (Len(polled[p]) + 1)..m
          /\ polled'[p] = polled[p]
        BY <1>0, <1>1, <1>6 DEF Poll
    <2>. QED
        BY <1>0, <1>1, <1>2, <1>3, <1>7, <1>9, <2>1 DEF PollerOK
<1>11. \A q \in Pollers : q # p => poll'[q] = poll[q] /\ polled'[q] = polled[q]
    BY <1>0 DEF TypeOK
<1>. QED
    BY <1>0, <1>8, <1>10, <1>11, PollFrame

(* The next event in order is sent. *)
LEMMA PollSendStep ==
    ASSUME IInv, NEW p \in Pollers, poll_send(p)
    PROVE  IInv'
<1>. DEFINE k == Len(polled[p])
<1>0. /\ TypeOK /\ LogOK /\ UNCHANGED <<log, pending, sent, clientVars, crashes>>
      /\ poll[p].pc = "live" /\ poll[p].queue # {}
      /\ polled' = [polled EXCEPT ![p] = Append(@, Min(poll[p].queue))]
      /\ poll' = [poll EXCEPT ![p].queue = @ \ {Min(@)}]
    BY DEF IInv, poll_send
<1>1. /\ poll[p] \in Poll /\ PollerOK(p) /\ polled[p] \in Seq(Nat) /\ k \in Nat
      /\ Top(PollScope) \in Nat
    BY <1>0, ScopesAssumption DEF TypeOK, IInv, LogOK
<1>2. /\ poll[p].queue = (k + 1)..poll[p].cursor /\ poll[p].cursor \in Nat
      /\ poll[p].cursor <= Top(PollScope)
    BY <1>0, <1>1 DEF Poll, PollerOK
<1>. HIDE DEF k
<1>3. k + 1 \in poll[p].queue /\ poll[p].queue \ {k + 1} = (k + 2)..poll[p].cursor
    BY <1>0, <1>1, <1>2
<1>4. Min(poll[p].queue) = k + 1
    <2>1. poll[p].queue \in SUBSET Nat /\ \A x \in poll[p].queue : k + 1 <= x
        BY <1>1, <1>2
    <2>. QED
        BY <1>3, <2>1, MinIs
<1>5. /\ poll'[p] = [poll[p] EXCEPT !.queue = (k + 2)..poll[p].cursor]
      /\ polled'[p] = Append(polled[p], k + 1)
    BY <1>0, <1>3, <1>4 DEF TypeOK
<1>6. TypeOK'
    <2>0. (k + 2)..poll[p].cursor \in SUBSET Nat
        BY <1>1, <1>2
    <2>1. poll'[p] \in Poll
        BY <1>1, <1>5, <2>0 DEF Poll
    <2>2. poll' \in [Pollers -> Poll]
        BY <1>0, <2>1 DEF TypeOK
    <2>3. polled' \in [Pollers -> Seq(Nat)]
        BY <1>0, <1>1, <1>4 DEF TypeOK
    <2>. QED
        BY <1>0, <2>2, <2>3 DEF TypeOK, clientVars
<1>7. Top(PollScope)' = Top(PollScope)
    BY <1>0, LogFrame
<1>8. PollerOK(p)'
    <2>1. /\ DOMAIN polled[p] = 1..k
          /\ DOMAIN polled'[p] = 1..(k + 1)
          /\ \A i \in DOMAIN polled[p] : polled'[p][i] = polled[p][i]
          /\ polled'[p][k + 1] = k + 1
        BY <1>1, <1>5, AppendIs DEF k
    <2>2. \A i \in DOMAIN polled'[p] : polled'[p][i] = i
        <3>1. \A i \in 1..(k + 1) : i \in 1..k \/ i = k + 1
            BY <1>1
        <3>2. \A i \in DOMAIN polled[p] : polled[p][i] = i
            BY <1>1 DEF PollerOK
        <3>. QED
            BY <2>1, <3>1, <3>2
    <2>3. Len(polled'[p]) = k + 1
        BY <1>1, <1>5 DEF k
    <2>4. poll'[p].cursor = poll[p].cursor /\ poll'[p].queue = (k + 2)..poll[p].cursor
        BY <1>1, <1>5 DEF Poll
    <2>5. k + 1 <= poll[p].cursor /\ k + 1 <= Top(PollScope)
        BY <1>1, <1>2, <1>3
    <2>. QED
        BY <1>1, <1>2, <1>7, <2>2, <2>3, <2>4, <2>5 DEF PollerOK
<1>9. \A q \in Pollers : q # p => poll'[q] = poll[q] /\ polled'[q] = polled[q]
    BY <1>0 DEF TypeOK
<1>. QED
    BY <1>0, <1>6, <1>8, <1>9, PollFrame

(* A poller that leaves keeps its last id. *)
LEMMA PollDisconnectStep ==
    ASSUME IInv, NEW p \in Pollers, poll_disconnect(p)
    PROVE  IInv'
<1>0. /\ TypeOK /\ UNCHANGED <<log, pending, sent, clientVars, polled, crashes>>
      /\ poll' = [poll EXCEPT ![p] = PollOff]
    BY DEF IInv, poll_disconnect
<1>1. TypeOK'
    BY <1>0 DEF TypeOK, Poll, PollOff, clientVars
<1>2. Top(PollScope)' = Top(PollScope)
    BY <1>0, LogFrame DEF IInv
<1>3. PollerOK(p)'
    <2>1. poll'[p].pc = "off" /\ polled'[p] = polled[p]
        BY <1>0 DEF TypeOK, PollOff
    <2>. QED
        BY <1>2, <2>1 DEF IInv, PollerOK
<1>4. \A q \in Pollers : q # p => poll'[q] = poll[q] /\ polled'[q] = polled[q]
    BY <1>0 DEF TypeOK
<1>. QED
    BY <1>0, <1>1, <1>3, <1>4, PollFrame

(* After a crash there is the log, and what clients and pollers remember. *)
LEMMA CrashStep ==
    ASSUME IInv, Crash
    PROVE  IInv'
<1>0. /\ TypeOK /\ LogOK /\ UNCHANGED <<log, last, polled>>
      /\ crashes < MaxCrashes /\ crashes' = crashes + 1
      /\ pending' = [t \in Tasks |-> None] /\ sent' = <<>>
      /\ stream' = [c \in Clients |-> Off] /\ delivered' = [c \in Clients |-> <<>>]
      /\ poll' = [p \in Pollers |-> PollOff]
    BY DEF IInv, Crash
<1>1. LogOK' /\ \A scope : Top(scope)' = Top(scope)
    BY <1>0, LogFrame
<1>2. TypeOK'
    BY <1>0, BoundsAssumption DEF TypeOK, Connection, Off, Poll, PollOff
<1>3. ChannelOK'
    BY <1>0 DEF ChannelOK
<1>4. ASSUME NEW c \in Clients
      PROVE  ClientOK(c)'
    <2>1. stream'[c] = Off /\ delivered'[c] = <<>> /\ last'[c] = last[c] /\ Len(sent') = 0
        BY <1>0
    <2>2. last[c] <= Top(Followed) /\ Top(Followed) \in Nat
        BY <1>0, ScopesAssumption DEF IInv, ClientOK, CursorsOK, LogOK
    <2>. QED
        BY <1>1, <2>1, <2>2 DEF ClientOK, CursorsOK, BacklogOK, LiveOK, SentOnce, Off
<1>5. ASSUME NEW p \in Pollers
      PROVE  PollerOK(p)'
    BY <1>0, <1>1 DEF IInv, PollerOK, PollOff
<1>. QED
    BY <1>1, <1>2, <1>3, <1>4, <1>5 DEF IInv

(* A step that changes nothing. *)
LEMMA StutterStep ==
    ASSUME IInv, UNCHANGED vars
    PROVE  IInv'
<1>1. UNCHANGED <<log, pending, sent, stream, delivered, last, poll, polled, crashes>>
    BY DEF vars, clientVars, pollVars
<1>2. TypeOK'
    BY <1>1 DEF IInv, TypeOK
<1>3. LogOK' /\ ChannelOK' /\ (\A c \in Clients : ClientOK(c)') /\ \A p \in Pollers : PollerOK(p)'
    BY <1>1, QuietFrame
<1>. QED
    BY <1>2, <1>3 DEF IInv

-----------------------------------------------------------------------------
(* The theorems *)

(* The invariant holds when the server is first started, on an empty log. *)
LEMMA InitOK == Init => IInv
<1>. SUFFICES ASSUME Init PROVE IInv
    OBVIOUS
<1>1. TypeOK
    BY BoundsAssumption DEF Init, TypeOK, Connection, Off, Poll, PollOff
<1>2. \A scope : Keys(scope) = 1..0 /\ Top(scope) = 0
    <2>1. \A scope : Keys(scope) = 1..0
        BY DEF Init, Keys, RowsOf
    <2>. QED
        BY <2>1, TopIs
<1>3. LogOK
    <2>1. \A scope : Keys(scope) = 1..Top(scope)
        BY <1>2, Zenon
    <2>2. \A scope : Top(scope) \in Nat
        BY <1>2
    <2>. QED
        BY <2>1, <2>2 DEF Init, LogOK
<1>4. ChannelOK
    BY DEF Init, ChannelOK
<1>5. ASSUME NEW c \in Clients
      PROVE  ClientOK(c)
    <2>1. stream[c] = Off /\ delivered[c] = <<>> /\ last[c] = 0 /\ Len(sent) = 0
        BY DEF Init
    <2>. QED
        BY <1>2, <2>1 DEF ClientOK, CursorsOK, BacklogOK, LiveOK, SentOnce, Off
<1>6. ASSUME NEW p \in Pollers
      PROVE  PollerOK(p)
    BY <1>2 DEF Init, PollerOK, PollOff
<1>. QED
    BY <1>1, <1>3, <1>4, <1>5, <1>6 DEF IInv

(* Every action of the handlers, clients and pollers, and a crash, preserve the invariant. *)
LEMMA NextOK == IInv /\ [Next]_vars => IInv'
<1>. SUFFICES ASSUME IInv, [Next]_vars PROVE IInv'
    OBVIOUS
<1>1. CASE \E s \in Scopes : append_team_event(s)
    BY <1>1, AppendTeamStep
<1>2. CASE \E s \in Scopes : \E t \in Tasks : append_event(t, s)
    BY <1>2, AppendStep
<1>3. CASE \E t \in Tasks : broadcast(t)
    BY <1>3, BroadcastStep
<1>4. ASSUME NEW c \in Clients, subscribe_events(c) \/ StreamStep(c) \/ disconnect(c)
      PROVE  IInv'
    BY <1>4, SubscribeStep, ReplayPageStep, ReplayStreamStep, LiveStep, LaggedStep, DisconnectStep
       DEF StreamStep
<1>5. ASSUME NEW p \in Pollers, poll_connect(p) \/ PollStep(p) \/ poll_disconnect(p)
      PROVE  IInv'
    BY <1>5, PollConnectStep, PollPageStep, PollSendStep, PollDisconnectStep DEF PollStep
<1>6. CASE Crash
    BY <1>6, CrashStep
<1>7. CASE UNCHANGED vars
    BY <1>7, StutterStep
<1>. QED
    BY <1>1, <1>2, <1>3, <1>4, <1>5, <1>6, <1>7 DEF Next

(***************************************************************************)
(* IInv is an invariant: the keys of a scope have no holes, a row is       *)
(* broadcast at most once, and every connection has sent its backlog in    *)
(* order and misses nothing above its watermark.                           *)
(***************************************************************************)
THEOREM InductiveInvariant == Spec => []IInv
BY InitOK, NextOK, PTL DEF Spec

(* Every variable keeps its type. *)
THEOREM TypeCorrect == Spec => []TypeOK
<1>1. IInv => TypeOK
    BY DEF IInv
<1>. QED
    BY <1>1, InductiveInvariant, PTL

(***************************************************************************)
(* Subscribing before the replay closes the gap between replay and live    *)
(* events, for any page size and any number of concurrent appends.         *)
(***************************************************************************)
THEOREM HandoverIsComplete == Spec => []HandoverLosesNothing
<1>1. ASSUME IInv, NEW c \in Clients, stream[c].pc # "off", ~stream[c].lagged,
             NEW r \in RowsOf(Followed), r.seq > stream[c].start
      PROVE  \/ \E i \in DOMAIN delivered[c] : delivered[c][i] = r.seq
             \/ r.seq \in stream[c].queue
             \/ stream[c].pc = "replay" /\ r.seq > stream[c].cursor
             \/ \E i \in DOMAIN sent : i > stream[c].pos /\ sent[i] = r
             \/ \E t \in Tasks : pending[t] = r
    <2>1. /\ ClientOK(c) /\ stream[c] \in Connection /\ r \in Row
        BY <1>1 DEF IInv, TypeOK, RowsOf
    <2>2. /\ stream[c].start \in Nat /\ stream[c].cursor \in Nat /\ r.seq \in Nat
          /\ stream[c].pc \in {"off", "replay", "live"}
        BY <2>1 DEF Connection, Row
    <2>3. CASE stream[c].pc = "replay"
        <3>1. stream[c].queue = (stream[c].start + 1)..stream[c].cursor
            BY <2>1, <2>3 DEF ClientOK, BacklogOK
        <3>2. r.seq \in (stream[c].start + 1)..stream[c].cursor \/ r.seq > stream[c].cursor
            BY <1>1, <2>2
        <3>. QED
            BY <2>3, <3>1, <3>2
    <2>4. CASE stream[c].pc = "live" /\ r.seq > stream[c].cursor
        BY <1>1, <2>1, <2>4 DEF ClientOK, LiveOK, WasSent, Ahead
    <2>5. CASE stream[c].pc = "live" /\ ~(r.seq > stream[c].cursor)
        <3>1. PICK a \in stream[c].start..stream[c].cursor : SentUpTo(c, a)
            BY <2>1, <2>5 DEF ClientOK, BacklogOK
        <3>2. r.seq \in (stream[c].start + 1)..a \/ r.seq \in (a + 1)..stream[c].cursor
            BY <1>1, <2>2, <2>5, <3>1
        <3>. QED
            BY <3>1, <3>2 DEF SentUpTo, WasSent
    <2>. QED
        BY <1>1, <2>2, <2>3, <2>4, <2>5
<1>2. IInv => HandoverLosesNothing
    BY <1>1 DEF HandoverLosesNothing
<1>. QED
    BY <1>2, InductiveInvariant, PTL

(* Replay and live events overlap, and no event is sent twice on a connection. *)
THEOREM EventsAreSentOnce == Spec => []NoRedelivery
<1>1. IInv => NoRedelivery
    BY DEF IInv, ClientOK, SentOnce, NoRedelivery
<1>. QED
    BY <1>1, InductiveInvariant, PTL

(***************************************************************************)
(* A polled stream gives the log in order, without gap or repetition, over *)
(* any number of reconnects and restarts.                                  *)
(***************************************************************************)
THEOREM PollersFollowTheLog == Spec => []PollerFollowsLog
<1>1. ASSUME IInv, NEW p \in Pollers
      PROVE  /\ \A i, j \in DOMAIN polled[p] : i < j => polled[p][i] < polled[p][j]
             /\ \A r \in RowsOf(PollScope) : Key(PollScope, r) <= LastPolled(p) =>
                    \E i \in DOMAIN polled[p] : polled[p][i] = Key(PollScope, r)
    <2>1. /\ PollerOK(p) /\ polled[p] \in Seq(Nat) /\ Len(polled[p]) \in Nat
          /\ DOMAIN polled[p] = 1..Len(polled[p])
        BY <1>1 DEF IInv, TypeOK
    <2>2. LastPolled(p) = Len(polled[p])
        BY <2>1, LastPolledIs
    <2>3. \A r \in RowsOf(PollScope) : Key(PollScope, r) \in 1..Top(PollScope)
        BY <1>1, ScopesAssumption DEF IInv, LogOK, Keys
    <2>4. Top(PollScope) \in Nat
        BY <1>1, ScopesAssumption DEF IInv, LogOK
    <2>. QED
        BY <2>1, <2>2, <2>3, <2>4 DEF PollerOK
<1>2. IInv => PollerFollowsLog
    BY <1>1 DEF PollerFollowsLog
<1>. QED
    BY <1>2, InductiveInvariant, PTL
=============================================================================
