-------------------------- MODULE WorktreesProofs --------------------------
(***************************************************************************)
(* Proofs about Worktrees and the repair of WorktreeStore, for any names,  *)
(* sessions, handlers and invocations, any faults and restarts, and any    *)
(* store that the service starts on.                                       *)
(***************************************************************************)
EXTENDS Worktrees, FiniteSetTheorems, TLAPS

-----------------------------------------------------------------------------
(* The inductive invariant *)

Pcs == {"idle", "create_lock", "create_init", "create_record", "claim_write", "cleanup_check",
        "cleanup_lock", "reuse", "worktree_created", "session", "assign", "join", "claim",
        "joined", "onboard", "rollback", "rollback_claim", "rolled_back", "removed",
        "member_claims"}

CallType ==
    [pc : Pcs,
     after : {"return", "member_claims", "worktree_created", "session", "joined", "rolled_back"},
     s : Sessions \cup {None}, n : Names \cup {None}, i : Ids \cup {None}, policy : Policies,
     made : BOOLEAN, inv : Invocations \cup {None}, todo : SUBSET Ids, reason : Reasons]

RowWrite == [phase : 1..3, id : Ids, row : Row]
ClaimWrite == [phase : 4..5, id : Ids, session : Sessions, state : {"active", "released"}]

Typed ==
    /\ worktrees \in Rows /\ claims \in Claims
    /\ journal \in [Sessions -> [stage : Stages, reason : Reasons]]
    /\ session \in [Sessions -> {None, "open", "closed"}] /\ unclosed \subseteq Sessions
    /\ members \subseteq Sessions /\ durableMembers \subseteq Sessions /\ strays \subseteq Sessions
    /\ tree \subseteq Names /\ branch \subseteq Names
    /\ lock \in Calls \cup {None} /\ calls \in [Calls -> CallType]
    /\ cache \in [Invocations -> {None, "running", "done"}]
    /\ added_by \in [Sessions -> Invocations \cup {None}] /\ forgotten \subseteq Invocations
    /\ scope \in Scopes /\ boot \subseteq RowWrite \cup ClaimWrite /\ crashes \in 0..MaxCrashes

Creating(c) == calls[c].pc \in {"create_lock", "create_init", "create_record"}
Cleaning(c) == calls[c].pc \in {"cleanup_check", "cleanup_lock"}

(* The call is a spawn, which the operation of its session belongs to. *)
Owner(c) == calls[c].after \notin {"return", "member_claims"}

(* The member is neither in memory nor in the store; or the joining, the    *)
(* recording or the removal of it erred.  The session is not open, or its   *)
(* creation or closing erred.                                               *)
Absent(s) == s \notin members \cup durableMembers
MemberGone(s) == Absent(s) \/ s \in strays
SessionGone(s) == session[s] = "open" => s \in unclosed

(* What a rollback for this reason has undone: a failed join forces nothing. *)
Undone(s, reason) == MemberGone(s) /\ (reason # "team_join_failed" => SessionGone(s))

(* How far a spawn has come tells what it has left behind. *)
OwnerOK(c) ==
    LET call == calls[c]
    IN  /\ call.s \in Sessions /\ added_by[call.s] = call.inv
        /\ journal[call.s].stage \notin {None, "completed", "rolled_back"}
        /\ call.pc \notin {"idle", "removed", "member_claims"}
        /\ Creating(c) \/ call.pc = "reuse" => call.after \in {"worktree_created", "session"}
        /\ call.pc = "claim_write" => call.after = "joined"
        /\ Cleaning(c) \/ call.pc = "rolled_back" =>
              call.after = "rolled_back" /\ Undone(call.s, call.reason)
        /\ call.pc = "rollback_claim" => MemberGone(call.s) /\ SessionGone(call.s)
        /\ Creating(c) \/ call.pc \in {"reuse", "worktree_created", "session"} =>
              Absent(call.s) /\ SessionGone(call.s)
        /\ call.pc \in {"assign", "join"} => Absent(call.s)

CallOK(c) ==
    LET call == calls[c]
    IN  /\ Owner(c) => OwnerOK(c)
        /\ ~Owner(c) =>
              /\ call.inv = None
              /\ \/ /\ call.after = "return"
                    /\ \/ Creating(c) \/ Cleaning(c)
                       \/ call.pc \in {"idle", "claim_write", "removed"}
                 \/ /\ call.after = "member_claims" /\ call.s \in Sessions
                    /\ Cleaning(c) \/ call.pc = "member_claims"
        /\ call.pc = "removed" => call.s \in Sessions
        /\ Creating(c) \/ call.pc = "reuse" => call.n \in Names
        /\ call.pc = "claim_write" => call.i \in Ids /\ call.s \in Sessions
        /\ \A i \in call.todo \cup {call.i} : i # None => worktrees[i] # None

LockPcs == {"create_init", "create_record"}
Locking == \A c \in Calls : lock = c <=> calls[c].pc \in LockPcs
Owners == \A c, d \in Calls : c # d /\ Owner(c) /\ Owner(d) => calls[c].s # calls[d].s
Handlers == Locking /\ Owners /\ \A c \in Calls : CallOK(c)

SessionOK(s) ==
    /\ journal[s].stage = None => Absent(s)
    /\ journal[s].stage = "rolled_back" => Undone(s, journal[s].reason)
    /\ s \in durableMembers => s \in members \cup strays

(* The invocation has added this member, and nothing erred after it joined. *)
Added(k, s) == added_by[s] = k /\ s \in members \ strays

InvOK(k) ==
    /\ \A c, d \in Calls : calls[c].inv = k /\ calls[d].inv = k => c = d
    /\ \A c \in Calls : calls[c].inv = k => cache[k] = "running"
    /\ \A r, s \in Sessions : Added(k, r) /\ Added(k, s) => r = s
    /\ \A s \in Sessions : Added(k, s) =>
          cache[k] # None /\ \A c \in Calls : calls[c].inv = k => calls[c].s = s

Operations == /\ \A s \in Sessions : SessionOK(s)
              /\ \A k \in Invocations \ forgotten : InvOK(k)

(* The write is one of the claim of s on i. *)
Writes(w, i, s) == w.phase > 3 /\ w.id = i /\ w.session = s

(* The session holds the worktree once the writes in todo are made. *)
WillHold(held, todo, i, s) ==
    IF \E w \in todo : Writes(w, i, s)
    THEN \E w \in todo : Writes(w, i, s) /\ w.state = "active"
    ELSE held[i][s] = "active"

(* No session will hold two worktrees. *)
OneEach(held, todo) ==
    \A i, j \in Ids, s \in Sessions :
        WillHold(held, todo, i, s) /\ WillHold(held, todo, j, s) => i = j

(* A claim is written once, and not revived. *)
RepairOK(rows, held, todo) ==
    /\ \A w \in todo : rows[w.id] # None
    /\ \A i \in Ids, s \in Sessions : \A v, w \in todo : Writes(v, i, s) /\ Writes(w, i, s) => v = w
    /\ \A i \in Ids, s \in Sessions : \A w \in todo :
          Writes(w, i, s) /\ w.state = "active" => held[i][s] # "released"

Repairing == RepairOK(worktrees, claims, boot) /\ (boot # {} => OneEach(claims, boot))

ClaimsOK == \A i \in Ids, s \in Sessions : claims[i][s] # None => worktrees[i] # None

IInv == Typed /\ Handlers /\ Operations /\ Repairing /\ ClaimsOK

-----------------------------------------------------------------------------
(* The rows of the store *)

RowsGrow == \A i \in Ids : worktrees[i] # None => worktrees'[i] # None

LEMMA KnownIsFinite ==
    ASSUME NEW rows \in Rows
    PROVE  IsFiniteSet(Known(rows)) /\ Cardinality(Known(rows)) \in Nat
<1>0. 1 \in Int /\ MaxIds \in Int
  BY StoreConstants
<1>1. IsFiniteSet(Ids)
  BY <1>0, FS_Interval DEF Ids
<1>2. IsFiniteSet(Known(rows))
  BY <1>1, FS_Subset DEF Known
<1> QED
  BY <1>2, FS_CardinalityType

(* A lookup finds a row of the table or nothing. *)
LEMMA ByIdentity ==
    ASSUME NEW rows \in Rows, NEW n
    PROVE  worktree_by_identity(rows, n) \in Known(rows) \cup {None}
<1> DEFINE same == {i \in Known(rows) : rows[i].identity = n /\ ~rows[i].padded}
<1>1. same # {} => (CHOOSE i \in same : TRUE) \in same
  OBVIOUS
<1> QED
  BY <1>1 DEF worktree_by_identity

(* An upsert writes one row and removes none. *)
LEMMA UpsertGrows ==
    ASSUME NEW rows \in Rows, NEW id \in Ids, NEW row \in Row
    PROVE  /\ upsert_managed_worktree(rows, id, row) \in Rows
           /\ \A i \in Ids : rows[i] # None => upsert_managed_worktree(rows, id, row)[i] # None
<1> DEFINE same == {i \in Known(rows) : /\ ~is_record_tombstoned(row)
                                        /\ rows[i].identity = row.identity
                                        /\ rows[i].padded = row.padded}
           at == IF same = {} THEN id ELSE CHOOSE i \in same : TRUE
<1>1. at \in Ids
  <2>1. same # {} => (CHOOSE i \in same : TRUE) \in same
    OBVIOUS
  <2>2. same \subseteq Ids
    BY DEF Known
  <2> QED
    BY <2>1, <2>2
<1>2. upsert_managed_worktree(rows, id, row) = [rows EXCEPT ![at] = row]
  BY DEF upsert_managed_worktree
<1> HIDE DEF at
<1>3. row # None
  BY StoreConstants
<1> QED
  BY <1>1, <1>2, <1>3 DEF Rows

LEMMA NewRowIsRow ==
    ASSUME Typed, NEW n \in Names, NEW policy \in Policies
    PROVE  NewRow(n, policy) \in Row
<1>1. Cardinality(Known(worktrees)) \in Nat
  BY KnownIsFinite DEF Typed
<1> QED
  BY <1>1 DEF NewRow, Row

-----------------------------------------------------------------------------
(* How a handler goes on *)

Others(c) == \A d \in Calls : d # c => calls'[d] = calls[d]

(* The step leaves a member that nothing has gone wrong with. *)
LeavesMember(c) == calls[c].s \in members' \ strays'

(* The entry of an invocation changes only when its handler returns, and is *)
(* not aborted while the member it has added stays.                         *)
CacheKept(c) ==
    /\ calls'[c].inv = None \/ (calls'[c].inv = calls[c].inv /\ calls'[c].s = calls[c].s)
    /\ \A k \in Invocations : cache'[k] # cache[k] =>
          /\ calls[c].inv = k /\ calls'[c].inv = None
          /\ cache'[k] = None => ~LeavesMember(c)

Continues(c) ==
    /\ calls' \in [Calls -> CallType] /\ cache' \in [Invocations -> {None, "running", "done"}]
    /\ Others(c) /\ CacheKept(c)

LEMMA IdleFacts ==
    /\ Idle \in CallType /\ Idle.pc = "idle" /\ Idle.after = "return" /\ Idle.inv = None
    /\ Idle.s = None /\ Idle.i = None /\ Idle.todo = {}
BY DEF Idle, CallType, Pcs, Policies, Reasons

LEMMA MoveEffect ==
    ASSUME Typed, NEW c \in Calls, NEW k \in CallType,
           k.inv = None \/ (k.inv = calls[c].inv /\ k.s = calls[c].s),
           calls' = [calls EXCEPT ![c] = k], cache' = cache
    PROVE  Continues(c) /\ calls'[c] = k
BY DEF Typed, Continues, Others, CacheKept

LEMMA GotoEffect ==
    ASSUME Typed, NEW c \in Calls, NEW pc \in Pcs, Goto(c, pc)
    PROVE  Continues(c) /\ calls'[c] = [calls[c] EXCEPT !.pc = pc] /\ cache' = cache
<1>1. PICK k : k = [calls[c] EXCEPT !.pc = pc]
  OBVIOUS
<1>2. k \in CallType /\ k.inv = calls[c].inv /\ k.s = calls[c].s
  BY <1>1 DEF Typed, CallType, Pcs
<1>3. calls' = [calls EXCEPT ![c] = k] /\ cache' = cache
  BY <1>1 DEF Goto
<1> QED
  BY <1>1, <1>2, <1>3, MoveEffect

LEMMA ReturnEffect ==
    ASSUME Typed, NEW c \in Calls, NEW ok \in BOOLEAN, Return(c, ok),
           ok \/ calls[c].inv = None \/ ~LeavesMember(c)
    PROVE  /\ Continues(c) /\ calls'[c] = Idle
           /\ \A k \in Invocations : calls[c].inv = k /\ cache[k] # None =>
                                        cache'[k] = IF ok THEN "done" ELSE None
<1>1. calls' \in [Calls -> CallType] /\ calls'[c] = Idle /\ Others(c)
  BY IdleFacts DEF Typed, Return, Others
<1> DEFINE inv == calls[c].inv
<1>2. inv \in Invocations \cup {None}
  BY DEF Typed, CallType
<1>3. cache' = IF inv = None \/ cache[inv] = None THEN cache
               ELSE [cache EXCEPT ![inv] = IF ok THEN "done" ELSE None]
  BY DEF Return
<1> HIDE DEF inv
<1>4. /\ cache' \in [Invocations -> {None, "running", "done"}]
      /\ \A k \in Invocations : cache'[k] # cache[k] => inv = k /\ (cache'[k] = None => ~ok)
      /\ \A k \in Invocations : inv = k /\ cache[k] # None =>
                                        cache'[k] = IF ok THEN "done" ELSE None
  BY <1>2, <1>3, WorktreeConstants DEF Typed
<1>5. CacheKept(c)
  <2>1. calls'[c].inv = None
    BY <1>1, IdleFacts
  <2>2. inv = None => \A k \in Invocations : cache'[k] = cache[k]
    BY <1>3 DEF inv
  <2>3. inv = calls[c].inv
    BY DEF inv
  <2> QED
    BY <1>4, <2>1, <2>2, <2>3 DEF CacheKept
<1> QED
  BY <1>1, <1>4, <1>5 DEF Continues, inv

LEMMA ResumeEffect ==
    ASSUME Typed, NEW c \in Calls, Resume(c)
    PROVE  /\ Continues(c)
           /\ calls'[c] = IF calls[c].after = "return" THEN Idle
                          ELSE [calls[c] EXCEPT !.pc = calls[c].after]
<1>1. CASE calls[c].after = "return"
  BY <1>1, ReturnEffect DEF Resume
<1>2. CASE calls[c].after # "return"
  <2>1. PICK pc \in Pcs : pc = calls[c].after
    BY <1>2 DEF Typed, CallType, Pcs
  <2> QED
    BY <1>2, <2>1, GotoEffect DEF Resume
<1> QED
  BY <1>1, <1>2

LEMMA SettleEffect ==
    ASSUME Typed, NEW c \in Calls, NEW i \in Ids \cup {None}, NEW made \in BOOLEAN,
           Settle(c, i, made)
    PROVE  /\ Continues(c)
           /\ calls[c].after = "return" => calls'[c] = Idle
           /\ calls[c].after # "return" =>
                 /\ calls'[c].pc = calls[c].after /\ calls'[c].after = calls[c].after
                 /\ calls'[c].s = calls[c].s /\ calls'[c].inv = calls[c].inv /\ calls'[c].i = i
                 /\ calls'[c].todo = calls[c].todo
<1>1. CASE calls[c].after = "return"
  BY <1>1, ReturnEffect DEF Settle
<1>2. CASE calls[c].after # "return"
  <2>1. PICK r \in CallType, pc \in Pcs : r = calls[c] /\ pc = calls[c].after
    BY <1>2 DEF Typed, CallType, Pcs
  <2> DEFINE k == [r EXCEPT !.pc = pc, !.i = i, !.made = made]
  <2>2. /\ k \in CallType /\ k.inv = r.inv /\ k.pc = pc /\ k.after = r.after /\ k.s = r.s /\ k.i = i
        /\ k.todo = r.todo
    BY DEF CallType
  <2>3. calls' = [calls EXCEPT ![c] = k] /\ cache' = cache
    BY <1>2, <2>1 DEF Settle
  <2> HIDE DEF k
  <2>4. Continues(c) /\ calls'[c] = k
    BY <2>1, <2>2, <2>3, MoveEffect
  <2> QED
    BY <1>2, <2>1, <2>2, <2>4
<1> QED
  BY <1>1, <1>2

LEMMA UndoEffect ==
    ASSUME Typed, NEW c \in Calls, NEW reason \in Reasons, Undo(c, reason)
    PROVE  /\ Continues(c)
           /\ calls'[c] =
                 [calls[c] EXCEPT !.pc = IF calls[c].made THEN "cleanup_check" ELSE "rolled_back",
                                  !.after = "rolled_back", !.reason = reason]
<1>1. PICK r \in CallType, pc \in Pcs :
         r = calls[c] /\ pc = IF calls[c].made THEN "cleanup_check" ELSE "rolled_back"
  BY DEF Typed, Pcs
<1> DEFINE k == [r EXCEPT !.pc = pc, !.after = "rolled_back", !.reason = reason]
<1>2. k \in CallType /\ k.inv = r.inv /\ k.s = r.s
  BY DEF CallType
<1>3. calls' = [calls EXCEPT ![c] = k] /\ cache' = cache
  BY <1>1 DEF Undo
<1> HIDE DEF k
<1>4. Continues(c) /\ calls'[c] = k
  BY <1>1, <1>2, <1>3, MoveEffect
<1> QED
  BY <1>1, <1>4 DEF k

-----------------------------------------------------------------------------
(* What a step of one handler leaves to the others *)

LEMMA LockStep ==
    ASSUME Typed, Locking, NEW c \in Calls, Others(c),
           \/ lock' = lock /\ (calls'[c].pc \in LockPcs <=> calls[c].pc \in LockPcs)
           \/ lock = None /\ lock' = c /\ calls'[c].pc \in LockPcs
           \/ calls[c].pc \in LockPcs /\ lock' = None /\ calls'[c].pc \notin LockPcs
    PROVE  Locking'
<1> SUFFICES ASSUME NEW d \in Calls
             PROVE  lock' = d <=> calls'[d].pc \in LockPcs
  BY DEF Locking
<1>1. None \notin Calls
  BY WorktreeConstants
<1>2. /\ lock = c <=> calls[c].pc \in LockPcs
      /\ lock = d <=> calls[d].pc \in LockPcs
  BY DEF Locking
<1>3. d # c => calls'[d] = calls[d]
  BY DEF Others
<1> HIDE DEF LockPcs
<1> QED
  BY <1>1, <1>2, <1>3

(* No session joins the team. *)
NothingAdded ==
    \A s \in Sessions : /\ added_by'[s] = added_by[s]
                        /\ s \in members' \ strays' => s \in members \ strays

InvsOK == \A k \in Invocations \ forgotten : InvOK(k)

LEMMA InvsKept ==
    ASSUME Typed, InvsOK, NEW c \in Calls, Continues(c), NothingAdded, forgotten' = forgotten
    PROVE  InvsOK'
<1> SUFFICES ASSUME NEW k \in Invocations \ forgotten
             PROVE  InvOK(k)'
  BY DEF InvsOK
<1>1. InvOK(k) /\ None # k
  BY WorktreeConstants DEF InvsOK
<1>2. /\ \A d \in Calls : d # c => calls'[d] = calls[d]
      /\ calls'[c].inv = None \/ (calls'[c].inv = calls[c].inv /\ calls'[c].s = calls[c].s)
      /\ cache'[k] # cache[k] => /\ calls[c].inv = k /\ calls'[c].inv = None
                                 /\ cache'[k] = None => ~LeavesMember(c)
  BY DEF Continues, Others, CacheKept
<1>3. \A s \in Sessions : Added(k, s)' => Added(k, s) /\ s \in members' \ strays'
  BY DEF NothingAdded, Added
<1>4. \A d \in Calls : calls'[d].inv = k => calls[d].inv = k /\ calls'[d].s = calls[d].s
  BY <1>1, <1>2
<1>5. /\ \A d, e \in Calls : calls[d].inv = k /\ calls[e].inv = k => d = e
      /\ \A d \in Calls : calls[d].inv = k => cache[k] = "running"
      /\ \A r, s \in Sessions : Added(k, r) /\ Added(k, s) => r = s
      /\ \A s \in Sessions : Added(k, s) =>
            cache[k] # None /\ \A d \in Calls : calls[d].inv = k => calls[d].s = s
  BY <1>1 DEF InvOK
<1>6. \A d, e \in Calls : calls'[d].inv = k /\ calls'[e].inv = k => d = e
  BY <1>4, <1>5
<1>7. \A d \in Calls : calls'[d].inv = k => cache'[k] = "running"
  BY <1>1, <1>2, <1>4, <1>5
<1>8. \A r, s \in Sessions : Added(k, r)' /\ Added(k, s)' => r = s
  BY <1>3, <1>5
<1>9. \A s \in Sessions : Added(k, s)' =>
         cache'[k] # None /\ \A d \in Calls : calls'[d].inv = k => calls'[d].s = s
  BY <1>2, <1>3, <1>4, <1>5 DEF LeavesMember
<1> QED
  BY <1>6, <1>7, <1>8, <1>9 DEF InvOK

(* The team may also lose the member, in memory and in the store or with an *)
(* error.                                                                   *)
MembershipKept(s) ==
    /\ s \in members' => s \in members
    /\ s \in durableMembers' => s \in durableMembers
    /\ s \in members \cap durableMembers' => s \in members' \cup strays'
    /\ s \in strays => s \in strays'

SessionKept(s) ==
    /\ journal'[s] = journal[s] /\ session'[s] = session[s] /\ added_by'[s] = added_by[s]
    /\ s \in unclosed => s \in unclosed'
    /\ MembershipKept(s)

LEMMA GoneKept ==
    ASSUME NEW s, SessionKept(s)
    PROVE  /\ Absent(s) => Absent(s)'
           /\ MemberGone(s) => MemberGone(s)'
           /\ SessionGone(s) => SessionGone(s)'
BY DEF SessionKept, MembershipKept, Absent, MemberGone, SessionGone

LEMMA CallKept ==
    ASSUME Typed, NEW d \in Calls, CallOK(d), calls'[d] = calls[d], RowsGrow,
           Owner(d) => SessionKept(calls[d].s)
    PROVE  CallOK(d)'
<1>1. /\ Owner(d)' <=> Owner(d)
      /\ Creating(d)' <=> Creating(d)
      /\ Cleaning(d)' <=> Cleaning(d)
  BY DEF Owner, Creating, Cleaning
<1>2. ASSUME Owner(d) PROVE OwnerOK(d)'
  <2>1. OwnerOK(d) /\ SessionKept(calls[d].s)
    BY <1>2 DEF CallOK
  <2>2. PICK s : s = calls[d].s
    OBVIOUS
  <2>3. /\ Absent(s) => Absent(s)'
        /\ MemberGone(s) => MemberGone(s)'
        /\ SessionGone(s) => SessionGone(s)'
    BY <2>1, <2>2, GoneKept
  <2> HIDE DEF Absent, MemberGone, SessionGone
  <2> QED
    BY <1>1, <2>1, <2>2, <2>3 DEF OwnerOK, SessionKept, Undone
<1>3. \A i \in calls'[d].todo \cup {calls'[d].i} : i # None => worktrees'[i] # None
  BY DEF CallOK, RowsGrow, Typed, CallType
<1> QED
  BY <1>1, <1>2, <1>3 DEF CallOK

LEMMA SessionsKept ==
    ASSUME NEW s, SessionOK(s), SessionKept(s)
    PROVE  SessionOK(s)'
<1>1. /\ Absent(s) => Absent(s)'
      /\ MemberGone(s) => MemberGone(s)'
      /\ SessionGone(s) => SessionGone(s)'
  BY GoneKept
<1>2. s \in durableMembers' => s \in members' \cup strays'
  BY DEF SessionOK, SessionKept, MembershipKept
<1> QED
  BY <1>1, <1>2 DEF SessionOK, SessionKept, Undone

LEMMA HandlerStep ==
    ASSUME IInv, Typed', ClaimsOK', NEW c \in Calls, NEW Z \in SUBSET Sessions,
           boot = {}, boot' = {}, Others(c), RowsGrow, forgotten' = forgotten,
           \A s \in Sessions \ Z : SessionKept(s),
           \A d \in Calls : d # c /\ Owner(d) => calls[d].s \notin Z,
           Owner(c)' => \A d \in Calls : d # c /\ Owner(d) => calls'[c].s # calls[d].s,
           Locking', CallOK(c)', \A s \in Z : SessionOK(s)', InvsOK'
    PROVE  IInv'
<1>1. ASSUME NEW d \in Calls, d # c
      PROVE  CallOK(d)' /\ (Owner(d)' <=> Owner(d)) /\ calls'[d] = calls[d]
  <2>1. calls'[d] = calls[d] /\ CallOK(d) /\ Typed
    BY <1>1 DEF Others, IInv, Handlers
  <2>2. Owner(d) => SessionKept(calls[d].s)
    BY <1>1, <2>1 DEF CallOK, OwnerOK
  <2>3. CallOK(d)'
    BY <2>1, <2>2, CallKept
  <2> QED
    BY <2>1, <2>3 DEF Owner
<1>2. Owners'
  BY <1>1 DEF Owners, IInv, Handlers
<1>3. Handlers'
  BY <1>1, <1>2 DEF Handlers
<1>4. ASSUME NEW s \in Sessions PROVE SessionOK(s)'
  BY SessionsKept DEF IInv, Operations
<1>5. Operations'
  BY <1>4 DEF Operations, InvsOK
<1>6. Repairing'
  BY DEF Repairing, RepairOK
<1> QED
  BY <1>3, <1>5, <1>6 DEF IInv

(* A handler that has returned is as good as new. *)
LEMMA IdleIsOK ==
    ASSUME NEW c \in Calls, calls'[c] = Idle
    PROVE  CallOK(c)' /\ ~Owner(c)'
BY IdleFacts DEF CallOK, Owner, Creating

-----------------------------------------------------------------------------
(* Steps that leave the operations of the journal alone *)

Quiet ==
    /\ UNCHANGED <<journal, session, unclosed, added_by, forgotten, scope, boot, crashes>>
    /\ strays' \subseteq strays \cup members
    /\ \A s : MembershipKept(s)

(* Most of them leave the team alone too. *)
LEMMA TeamAlone ==
    ASSUME UNCHANGED <<journal, session, unclosed, members, durableMembers, strays, added_by,
                       forgotten, scope, boot, crashes>>
    PROVE  Quiet
BY DEF Quiet, MembershipKept

LEMMA QuietGone ==
    ASSUME Quiet, NEW s
    PROVE  /\ journal' = journal /\ added_by' = added_by /\ SessionKept(s)
           /\ Absent(s) => Absent(s)'
           /\ MemberGone(s) => MemberGone(s)'
           /\ SessionGone(s) => SessionGone(s)'
<1>1. journal' = journal /\ added_by' = added_by /\ SessionKept(s)
  BY DEF Quiet, SessionKept
<1> QED
  BY <1>1, GoneKept

LEMMA QuietStep ==
    ASSUME IInv, NEW c \in Calls, boot = {}, Continues(c), Quiet,
           worktrees' \in Rows, RowsGrow, claims' \in Claims, ClaimsOK',
           tree' \subseteq Names, branch' \subseteq Names, lock' \in Calls \cup {None}, Locking',
           CallOK(c)', Owner(c)' => Owner(c) /\ calls'[c].s = calls[c].s
    PROVE  IInv'
<1>1. Typed'
  <2>1. members' \subseteq members /\ durableMembers' \subseteq durableMembers
    BY DEF Quiet, MembershipKept
  <2> QED
    BY <2>1 DEF IInv, Typed, Quiet, Continues
<1>2. \A s \in Sessions : SessionKept(s)
  BY QuietGone
<1>3. NothingAdded
  BY <1>2 DEF NothingAdded, SessionKept, MembershipKept
<1>4. InvsOK' /\ forgotten' = forgotten /\ boot' = {}
  <2>1. Typed /\ InvsOK /\ forgotten' = forgotten /\ boot' = {}
    BY DEF IInv, Operations, InvsOK, Quiet
  <2> QED
    BY <1>3, <2>1, InvsKept
<1>5. Owner(c)' => \A d \in Calls : d # c /\ Owner(d) => calls'[c].s # calls[d].s
  BY DEF IInv, Handlers, Owners
<1>6. Others(c)
  BY DEF Continues
<1>7. {} \in SUBSET Sessions /\ \A s \in {} : SessionOK(s)'
  OBVIOUS
<1> HIDE DEF IInv, Typed, Locking, CallOK, InvsOK, ClaimsOK, Owner, SessionOK, SessionKept, Others
<1> QED
  BY <1>1, <1>2, <1>4, <1>5, <1>6, <1>7, HandlerStep

(* A step that changes nothing but the handler. *)
LEMMA HandlerOnly ==
    ASSUME IInv, NEW c \in Calls, boot = {}, Continues(c), Quiet, UNCHANGED <<worktrees, claims, git>>,
           lock' = lock, calls'[c].pc \notin LockPcs, calls[c].pc \notin LockPcs,
           CallOK(c)', Owner(c)' => Owner(c) /\ calls'[c].s = calls[c].s
    PROVE  IInv'
<1>1. /\ worktrees' \in Rows /\ claims' \in Claims /\ tree' \subseteq Names
      /\ branch' \subseteq Names /\ lock' \in Calls \cup {None}
  BY DEF IInv, Typed, git
<1>2. RowsGrow /\ ClaimsOK'
  BY DEF IInv, RowsGrow, ClaimsOK
<1>3. Locking'
  BY LockStep DEF IInv, Handlers, Continues
<1> QED
  BY <1>1, <1>2, <1>3, QuietStep

-----------------------------------------------------------------------------
(* create_worktree *)

LEMMA CreateWorktreeStep ==
    ASSUME IInv, NEW c \in Calls, NEW n \in Names, NEW policy \in Policies, boot = {},
           create_worktree(c, n, policy)
    PROVE  IInv'
<1> DEFINE k == [Idle EXCEPT !.pc = "create_lock", !.n = n, !.policy = policy]
<1>1. /\ k \in CallType /\ k.pc = "create_lock" /\ k.after = "return" /\ k.inv = None /\ k.n = n
      /\ k.i = None /\ k.todo = {}
  BY DEF Idle, CallType, Pcs, Reasons
<1>2. calls' = [calls EXCEPT ![c] = k] /\ cache' = cache
  BY DEF create_worktree
<1> HIDE DEF k
<1>3. Continues(c) /\ calls'[c] = k
  BY <1>1, <1>2, MoveEffect DEF IInv
<1>4. CallOK(c)' /\ ~Owner(c)'
  BY <1>1, <1>3 DEF CallOK, Owner, Creating
<1>5. calls[c].pc \notin LockPcs /\ calls'[c].pc \notin LockPcs
  BY <1>1, <1>3 DEF create_worktree, LockPcs
<1>6. Quiet /\ UNCHANGED <<worktrees, claims, git, lock>>
  BY TeamAlone DEF create_worktree, store, team, memberships, rest, git
<1> QED
  BY <1>3, <1>4, <1>5, <1>6, HandlerOnly

(* The two ways a creation or a reuse can end. *)
LEMMA SettleIsOK ==
    ASSUME IInv, NEW c \in Calls, NEW i \in Ids, NEW made \in BOOLEAN, Settle(c, i, made),
           Creating(c) \/ calls[c].pc = "reuse", Quiet, worktrees' \in Rows, RowsGrow,
           worktrees'[i] # None
    PROVE  /\ Continues(c) /\ CallOK(c)' /\ calls'[c].pc \notin LockPcs
           /\ Owner(c)' => Owner(c) /\ calls'[c].s = calls[c].s
<1>1. /\ Continues(c)
      /\ calls[c].after = "return" => calls'[c] = Idle
      /\ calls[c].after # "return" =>
            /\ calls'[c].pc = calls[c].after /\ calls'[c].after = calls[c].after
            /\ calls'[c].s = calls[c].s /\ calls'[c].inv = calls[c].inv /\ calls'[c].i = i
            /\ calls'[c].todo = calls[c].todo
  BY SettleEffect DEF IInv
<1>2. CallOK(c) /\ calls[c] \in CallType
  BY DEF IInv, Handlers, Typed
<1>3. CASE calls[c].after = "return"
  BY <1>1, <1>3, IdleIsOK, IdleFacts DEF LockPcs
<1>4. CASE calls[c].after # "return"
  <2>1. Owner(c) /\ OwnerOK(c) /\ calls[c].after \in {"worktree_created", "session"}
    BY <1>2, <1>4 DEF CallOK, Owner, OwnerOK, Creating, Cleaning
  <2>2. /\ calls'[c].pc = calls[c].after /\ calls'[c].after = calls[c].after
        /\ calls'[c].s = calls[c].s /\ calls'[c].inv = calls[c].inv /\ calls'[c].i = i
        /\ calls'[c].todo = calls[c].todo
    BY <1>1, <1>4
  <2>3. OwnerOK(c)'
    BY <2>1, <2>2, QuietGone
    DEF OwnerOK, Creating, Cleaning, Undone, Absent, MemberGone, SessionGone
  <2>4. \A j \in calls'[c].todo \cup {calls'[c].i} : j # None => worktrees'[j] # None
    BY <1>2, <2>2 DEF CallOK, RowsGrow, CallType
  <2>5. Owner(c)' /\ ~Creating(c)'
    BY <2>1, <2>2 DEF Owner, Creating
  <2> QED
    BY <1>1, <2>1, <2>2, <2>3, <2>4, <2>5 DEF CallOK, LockPcs
<1> QED
  BY <1>3, <1>4

LEMMA ReturnIsOK ==
    ASSUME IInv, NEW c \in Calls, NEW ok \in BOOLEAN, Return(c, ok),
           ok \/ calls[c].inv = None \/ ~LeavesMember(c)
    PROVE  Continues(c) /\ CallOK(c)' /\ calls'[c].pc \notin LockPcs /\ ~Owner(c)'
BY ReturnEffect, IdleIsOK, IdleFacts DEF IInv, LockPcs

(* A spawn that fails before its member joins leaves none. *)
LEMMA NobodyLeft ==
    ASSUME IInv, NEW c \in Calls, Quiet,
           \/ Creating(c) \/ calls[c].pc = "reuse"
           \/ calls[c].pc = "claim_write" /\ calls[c].after = "return"
    PROVE  calls[c].inv = None \/ ~LeavesMember(c)
<1>1. CallOK(c)
  BY DEF IInv, Handlers
<1>2. CASE Owner(c)
  <2>1. Absent(calls[c].s)
    BY <1>1, <1>2 DEF CallOK, OwnerOK, Owner
  <2> QED
    BY <2>1 DEF Absent, LeavesMember, Quiet, MembershipKept
<1>3. CASE ~Owner(c)
  BY <1>1, <1>3 DEF CallOK
<1> QED
  BY <1>2, <1>3

(* A move to another point of the same handler. *)
LEMMA GotoFacts ==
    ASSUME IInv, NEW c \in Calls, NEW pc \in Pcs, Goto(c, pc)
    PROVE  /\ Continues(c) /\ calls'[c].pc = pc /\ calls'[c].after = calls[c].after
           /\ calls'[c].s = calls[c].s /\ calls'[c].n = calls[c].n /\ calls'[c].i = calls[c].i
           /\ calls'[c].inv = calls[c].inv /\ calls'[c].todo = calls[c].todo
           /\ calls'[c].reason = calls[c].reason /\ (Owner(c)' <=> Owner(c))
<1>1. Continues(c) /\ calls'[c] = [calls[c] EXCEPT !.pc = pc] /\ calls[c] \in CallType
  BY GotoEffect DEF IInv, Typed
<1> QED
  BY <1>1 DEF CallType, Owner

LEMMA CreateUnderLockStep ==
    ASSUME IInv, NEW c \in Calls, boot = {}, CreateUnderLock(c)
    PROVE  IInv'
<1> DEFINE n == calls[c].n
           e == worktree_by_identity(worktrees, n)
<1>1. /\ worktrees \in Rows /\ calls[c].pc = "create_lock" /\ lock = None /\ Creating(c) /\ n \in Names
      /\ CallOK(c) /\ calls[c].pc \notin LockPcs
  BY DEF IInv, Typed, CreateUnderLock, Creating, Handlers, CallOK, LockPcs
<1>2. e \in Known(worktrees) \cup {None}
  BY <1>1, ByIdentity
<1>3. Quiet /\ UNCHANGED <<worktrees, claims>> /\ worktrees' \in Rows /\ claims' \in Claims
  BY TeamAlone DEF CreateUnderLock, store, team, memberships, rest, IInv, Typed
<1>4. RowsGrow /\ ClaimsOK'
  BY <1>3 DEF IInv, RowsGrow, ClaimsOK
<1>5. \/ e # None /\ Settle(c, e, TRUE) /\ UNCHANGED <<git, lock>>
      \/ Return(c, FALSE) /\ UNCHANGED <<git, lock>>
      \/ /\ tree' = tree \cup {n} /\ branch' = branch \cup {n} /\ lock' = c
         /\ Goto(c, "create_init")
  BY DEF CreateUnderLock
<1>6. CASE e # None /\ Settle(c, e, TRUE) /\ UNCHANGED <<git, lock>>
  <2>1. PICK i \in Ids : i = e /\ worktrees'[i] # None
    BY <1>2, <1>3, <1>6 DEF Known
  <2>2. Settle(c, i, TRUE)
    BY <1>6, <2>1
  <2>3. /\ Continues(c) /\ CallOK(c)' /\ calls'[c].pc \notin LockPcs
        /\ Owner(c)' => Owner(c) /\ calls'[c].s = calls[c].s
    BY <1>1, <1>3, <1>4, <2>1, <2>2, SettleIsOK
  <2> QED
    BY <1>1, <1>3, <1>6, <2>3, HandlerOnly
<1>7. CASE Return(c, FALSE) /\ UNCHANGED <<git, lock>>
  BY <1>1, <1>3, <1>7, NobodyLeft, ReturnIsOK, HandlerOnly
<1>8. CASE /\ tree' = tree \cup {n} /\ branch' = branch \cup {n} /\ lock' = c
           /\ Goto(c, "create_init")
  <2>1. /\ Continues(c) /\ calls'[c].pc = "create_init" /\ calls'[c].after = calls[c].after
        /\ calls'[c].s = calls[c].s /\ calls'[c].n = calls[c].n /\ calls'[c].i = calls[c].i
        /\ calls'[c].inv = calls[c].inv /\ calls'[c].todo = calls[c].todo
        /\ (Owner(c)' <=> Owner(c))
    BY <1>8, GotoFacts DEF Pcs
  <2>2. Owner(c) => OwnerOK(c)'
    BY <1>1, <1>3, <2>1, QuietGone
    DEF CallOK, OwnerOK, Creating, Cleaning, Undone, Absent, MemberGone, SessionGone
  <2>3. CallOK(c)'
    BY <1>1, <1>3, <2>1, <2>2 DEF CallOK, Creating, Cleaning
  <2>4. tree' \subseteq Names /\ branch' \subseteq Names /\ lock' \in Calls \cup {None}
    BY <1>1, <1>8 DEF IInv, Typed
  <2>5. Locking'
    BY <1>1, <1>8, <2>1, LockStep DEF IInv, Handlers, Continues, LockPcs
  <2> QED
    BY <1>3, <1>4, <2>1, <2>3, <2>4, <2>5, QuietStep
<1> QED
  BY <1>5, <1>6, <1>7, <1>8

LEMMA RunInitScriptStep ==
    ASSUME IInv, NEW c \in Calls, boot = {}, run_worktree_init_script(c)
    PROVE  IInv'
<1>1. /\ calls[c].pc = "create_init" /\ calls[c].pc \in LockPcs /\ Creating(c) /\ CallOK(c)
      /\ calls[c].n \in Names
  BY DEF IInv, run_worktree_init_script, Creating, Handlers, CallOK, LockPcs
<1>2. Quiet /\ UNCHANGED <<worktrees, claims>> /\ worktrees' \in Rows /\ claims' \in Claims
  BY TeamAlone DEF run_worktree_init_script, store, team, memberships, rest, IInv, Typed
<1>3. RowsGrow /\ ClaimsOK'
  BY <1>2 DEF IInv, RowsGrow, ClaimsOK
<1>4. /\ tree' \subseteq Names /\ branch' \subseteq Names /\ lock' \in Calls \cup {None}
  BY DEF IInv, Typed, run_worktree_init_script, GitRemove, git
<1>5. CASE Goto(c, "create_record") /\ UNCHANGED lock
  <2>1. /\ Continues(c) /\ calls'[c].pc = "create_record" /\ calls'[c].after = calls[c].after
        /\ calls'[c].s = calls[c].s /\ calls'[c].n = calls[c].n /\ calls'[c].i = calls[c].i
        /\ calls'[c].inv = calls[c].inv /\ calls'[c].todo = calls[c].todo
        /\ (Owner(c)' <=> Owner(c))
    BY <1>5, GotoFacts DEF Pcs
  <2>2. Owner(c) => OwnerOK(c)'
    BY <1>1, <1>2, <2>1, QuietGone
    DEF CallOK, OwnerOK, Creating, Cleaning, Undone, Absent, MemberGone, SessionGone
  <2>3. CallOK(c)'
    BY <1>1, <1>2, <2>1, <2>2 DEF CallOK, Creating, Cleaning
  <2>4. Locking'
    BY <1>1, <1>5, <2>1, LockStep DEF IInv, Handlers, Continues, LockPcs
  <2> QED
    BY <1>2, <1>3, <1>4, <2>1, <2>3, <2>4, QuietStep
<1>6. CASE lock' = None /\ Return(c, FALSE)
  <2>1. Continues(c) /\ CallOK(c)' /\ calls'[c].pc \notin LockPcs /\ ~Owner(c)'
    BY <1>1, <1>2, <1>6, NobodyLeft, ReturnIsOK
  <2>2. Locking'
    BY <1>1, <1>6, <2>1, LockStep DEF IInv, Handlers, Continues
  <2> QED
    BY <1>2, <1>3, <1>4, <2>1, <2>2, QuietStep
<1> QED
  BY <1>5, <1>6 DEF run_worktree_init_script

(* A new row is written under a fresh id and found again by its identity. *)
LEMMA WrittenRow ==
    ASSUME Typed, NEW n \in Names, NEW policy \in Policies,
           \E id \in FreshIds :
              worktrees' = upsert_managed_worktree(worktrees, id, NewRow(n, policy))
    PROVE  worktrees' \in Rows /\ RowsGrow /\ worktree_by_identity(worktrees', n) \in Known(worktrees')
<1>1. PICK id \in FreshIds :
         worktrees' = upsert_managed_worktree(worktrees, id, NewRow(n, policy))
  OBVIOUS
<1>2. PICK row \in Row : row = NewRow(n, policy)
  BY NewRowIsRow
<1>3. id \in Ids /\ worktrees \in Rows
  BY DEF FreshIds, Typed
<1>4. worktrees' = upsert_managed_worktree(worktrees, id, row)
  BY <1>1, <1>2
<1>5. worktrees' \in Rows /\ RowsGrow
  BY <1>3, <1>4, UpsertGrows DEF RowsGrow
<1> DEFINE same == {i \in Known(worktrees) : /\ ~is_record_tombstoned(row)
                                             /\ worktrees[i].identity = row.identity
                                             /\ worktrees[i].padded = row.padded}
           at == IF same = {} THEN id ELSE CHOOSE i \in same : TRUE
<1>6. at \in Ids
  <2>1. same # {} => (CHOOSE i \in same : TRUE) \in same
    OBVIOUS
  <2>2. same \subseteq Ids
    BY DEF Known
  <2> QED
    BY <1>3, <2>1, <2>2
<1>7. worktrees' = [worktrees EXCEPT ![at] = row]
  BY <1>4 DEF upsert_managed_worktree
<1> HIDE DEF at
<1>8. at \in Known(worktrees') /\ worktrees'[at].identity = n /\ ~worktrees'[at].padded
  <2>1. worktrees'[at] = row /\ row # None
    BY <1>3, <1>6, <1>7, StoreConstants DEF Rows
  <2> QED
    BY <1>2, <1>6, <2>1 DEF Known, NewRow
<1>9. worktree_by_identity(worktrees', n) \in Known(worktrees')
  <2> DEFINE found == {i \in Known(worktrees') : worktrees'[i].identity = n /\ ~worktrees'[i].padded}
  <2>1. found # {} /\ (CHOOSE i \in found : TRUE) \in found
    BY <1>8
  <2> QED
    BY <2>1 DEF worktree_by_identity
<1> QED
  BY <1>5, <1>9

LEMMA UpsertRecordStep ==
    ASSUME IInv, NEW c \in Calls, boot = {}, upsert_worktree_record(c)
    PROVE  IInv'
<1>1. /\ calls[c].pc = "create_record" /\ calls[c].pc \in LockPcs /\ Creating(c) /\ CallOK(c)
      /\ calls[c].n \in Names /\ calls[c].policy \in Policies /\ Typed
  BY DEF IInv, upsert_worktree_record, Creating, Handlers, CallOK, LockPcs, Typed, CallType
<1>2. Quiet /\ claims' = claims /\ claims' \in Claims
  BY TeamAlone DEF upsert_worktree_record, git, team, memberships, rest, IInv, Typed
<1>3. tree' \subseteq Names /\ branch' \subseteq Names /\ lock' = None
  BY DEF IInv, Typed, upsert_worktree_record, git
<1>4. ASSUME worktrees' \in Rows, RowsGrow, Continues(c), CallOK(c)', calls'[c].pc \notin LockPcs,
             Owner(c)' => Owner(c) /\ calls'[c].s = calls[c].s
      PROVE  IInv'
  <2>1. Locking'
    BY <1>1, <1>3, <1>4, LockStep DEF IInv, Handlers, Continues
  <2>2. ClaimsOK'
    BY <1>2, <1>4 DEF IInv, RowsGrow, ClaimsOK
  <2> QED
    BY <1>2, <1>3, <1>4, <2>1, <2>2, QuietStep
<1>5. CASE /\ \E id \in FreshIds :
                 worktrees' = upsert_managed_worktree(worktrees, id, NewRow(calls[c].n, calls[c].policy))
           /\ Settle(c, worktree_by_identity(worktrees', calls[c].n), TRUE)
  <2>1. /\ worktrees' \in Rows /\ RowsGrow
        /\ worktree_by_identity(worktrees', calls[c].n) \in Known(worktrees')
    BY <1>1, <1>5, WrittenRow
  <2>2. PICK i \in Ids : i = worktree_by_identity(worktrees', calls[c].n) /\ worktrees'[i] # None
    BY <2>1 DEF Known
  <2>3. Settle(c, i, TRUE)
    BY <1>5, <2>2
  <2> QED
    BY <1>1, <1>2, <1>4, <2>1, <2>2, <2>3, SettleIsOK
<1>6. CASE Return(c, FALSE) /\ UNCHANGED worktrees
  <2>1. worktrees' \in Rows /\ RowsGrow
    BY <1>1, <1>6 DEF RowsGrow, Typed
  <2> QED
    BY <1>1, <1>2, <1>4, <1>6, <2>1, NobodyLeft, ReturnIsOK
<1> QED
  BY <1>5, <1>6 DEF upsert_worktree_record

-----------------------------------------------------------------------------
(* Claims and cleanup *)

LEMMA ClaimWritten ==
    ASSUME IInv, NEW i \in Ids, NEW s \in Sessions, NEW v \in ClaimStates, worktrees[i] # None,
           claims' = [claims EXCEPT ![i][s] = v], worktrees' = worktrees
    PROVE  claims' \in Claims /\ ClaimsOK' /\ worktrees' \in Rows /\ RowsGrow
<1>1. claims \in Claims /\ worktrees \in Rows
  BY DEF IInv, Typed
<1>2. claims' \in Claims
  BY <1>1 DEF Claims
<1>3. \A j \in Ids, r \in Sessions : claims'[j][r] = IF j = i /\ r = s THEN v ELSE claims[j][r]
  BY <1>1 DEF Claims
<1> QED
  BY <1>1, <1>2, <1>3 DEF IInv, ClaimsOK, RowsGrow

(* A step of a handler that only writes a claim. *)
LEMMA ClaimStep ==
    ASSUME IInv, NEW c \in Calls, boot = {}, Continues(c), Quiet, UNCHANGED <<worktrees, git>>,
           claims' \in Claims, ClaimsOK', lock' = lock,
           calls'[c].pc \notin LockPcs, calls[c].pc \notin LockPcs,
           CallOK(c)', Owner(c)' => Owner(c) /\ calls'[c].s = calls[c].s
    PROVE  IInv'
<1>1. /\ worktrees' \in Rows /\ tree' \subseteq Names /\ branch' \subseteq Names
      /\ lock' \in Calls \cup {None} /\ RowsGrow
  BY DEF IInv, Typed, git, RowsGrow
<1>2. Locking'
  BY LockStep DEF IInv, Handlers, Continues
<1> QED
  BY <1>1, <1>2, QuietStep

LEMMA ClaimWorktreeStep ==
    ASSUME IInv, NEW c \in Calls, NEW i \in Ids, NEW s \in Sessions, boot = {}, claim_worktree(c, i, s)
    PROVE  IInv'
<1> DEFINE k == [Idle EXCEPT !.pc = "claim_write", !.i = i, !.s = s]
<1>1. /\ k \in CallType /\ k.pc = "claim_write" /\ k.after = "return" /\ k.inv = None /\ k.s = s
      /\ k.i = i /\ k.todo = {}
  BY DEF Idle, CallType, Pcs, Reasons, Policies
<1>2. calls' = [calls EXCEPT ![c] = k] /\ cache' = cache
  BY DEF claim_worktree
<1> HIDE DEF k
<1>3. Continues(c) /\ calls'[c] = k
  BY <1>1, <1>2, MoveEffect DEF IInv
<1>4. Quiet /\ UNCHANGED <<worktrees, claims, git, lock>>
  BY TeamAlone DEF claim_worktree, store, team, memberships, rest, git
<1>5. CallOK(c)' /\ ~Owner(c)'
  BY <1>1, <1>3, <1>4 DEF CallOK, Owner, Creating, claim_worktree, CanClaim, Live
<1>6. calls[c].pc \notin LockPcs /\ calls'[c].pc \notin LockPcs
  BY <1>1, <1>3 DEF claim_worktree, LockPcs
<1> QED
  BY <1>3, <1>4, <1>5, <1>6, HandlerOnly

(* What comes after a cleanup or a claim. *)
LEMMA ResumeIsOK ==
    ASSUME IInv, NEW c \in Calls, Resume(c), Cleaning(c) \/ calls[c].pc = "claim_write", Quiet,
           worktrees' = worktrees
    PROVE  /\ Continues(c) /\ CallOK(c)' /\ calls'[c].pc \notin LockPcs
           /\ Owner(c)' => Owner(c) /\ calls'[c].s = calls[c].s
<1>1. /\ Continues(c)
      /\ calls'[c] = IF calls[c].after = "return" THEN Idle
                     ELSE [calls[c] EXCEPT !.pc = calls[c].after]
  BY ResumeEffect DEF IInv
<1>2. CallOK(c) /\ calls[c] \in CallType
  BY DEF IInv, Handlers, Typed
<1>3. CASE calls[c].after = "return"
  BY <1>1, <1>3, IdleIsOK, IdleFacts DEF LockPcs
<1>4. CASE calls[c].after # "return"
  <2>1. /\ calls'[c].pc = calls[c].after /\ calls'[c].after = calls[c].after
        /\ calls'[c].s = calls[c].s /\ calls'[c].inv = calls[c].inv /\ calls'[c].i = calls[c].i
        /\ calls'[c].todo = calls[c].todo /\ calls'[c].reason = calls[c].reason
    BY <1>1, <1>2, <1>4 DEF CallType
  <2>2. calls[c].after \in {"member_claims", "joined", "rolled_back"}
    BY <1>2, <1>4 DEF CallOK, Owner, OwnerOK, Creating, Cleaning
  <2>3. Owner(c) => OwnerOK(c)'
    <3>1. CASE calls[c].after = "joined"
      BY <1>2, <2>1, <3>1, QuietGone
      DEF CallOK, OwnerOK, Creating, Cleaning, Undone, Absent, MemberGone, SessionGone
    <3>2. CASE calls[c].after = "rolled_back"
      <4>1. ASSUME Owner(c)
            PROVE  Cleaning(c)
        BY <1>2, <3>2, <4>1 DEF CallOK, OwnerOK, Cleaning
      <4> QED
        BY <1>2, <2>1, <3>2, <4>1, QuietGone
        DEF CallOK, OwnerOK, Creating, Cleaning, Undone, Absent, MemberGone, SessionGone
    <3> QED
      BY <2>2, <3>1, <3>2 DEF Owner
  <2>4. ~Owner(c) => calls[c].after = "member_claims" /\ calls[c].s \in Sessions /\ calls[c].inv = None
    BY <1>2, <1>4 DEF CallOK
  <2>5. /\ Owner(c)' <=> Owner(c)
        /\ ~Creating(c)' /\ ~Cleaning(c)'
        /\ calls'[c].pc \notin {"removed", "reuse", "claim_write"} \cup LockPcs
    BY <2>1, <2>2 DEF Owner, Creating, Cleaning, LockPcs
  <2>6. \A i \in calls'[c].todo \cup {calls'[c].i} : i # None => worktrees'[i] # None
    BY <1>2, <2>1 DEF CallOK
  <2> QED
    BY <1>1, <2>1, <2>3, <2>4, <2>5, <2>6 DEF CallOK
<1> QED
  BY <1>3, <1>4

LEMMA WriteClaimStep ==
    ASSUME IInv, NEW c \in Calls, boot = {}, WriteClaim(c)
    PROVE  IInv'
<1>1. /\ calls[c].pc = "claim_write" /\ calls[c].pc \notin LockPcs /\ CallOK(c)
      /\ calls[c] \in CallType
  BY DEF IInv, WriteClaim, Handlers, LockPcs, Typed
<1>2. PICK i \in Ids, s \in Sessions : i = calls[c].i /\ s = calls[c].s /\ worktrees[i] # None
  BY <1>1, StoreConstants DEF CallOK
<1>3. Quiet /\ UNCHANGED <<worktrees, git, lock>>
  BY TeamAlone DEF WriteClaim, team, memberships, rest, git
<1>4. CASE /\ claims' = [claims EXCEPT ![calls[c].i][calls[c].s] = "active"]
           /\ Resume(c)
  <2>1. claims' = [claims EXCEPT ![i][s] = "active"] /\ "active" \in ClaimStates
    BY <1>2, <1>4 DEF ClaimStates
  <2>2. claims' \in Claims /\ ClaimsOK'
    BY <1>2, <1>3, <2>1, ClaimWritten
  <2> QED
    BY <1>1, <1>3, <1>4, <2>2, ResumeIsOK, ClaimStep
<1>5. CASE /\ IF calls[c].after = "return" THEN Return(c, FALSE)
              ELSE /\ calls' = [calls EXCEPT ![c].pc = "rollback",
                                             ![c].reason = "spawn_claim_failed_after_join"]
                   /\ UNCHANGED cache
           /\ UNCHANGED claims
  <2>1. CASE calls[c].after = "return"
    BY <1>1, <1>3, <1>5, <2>1, NobodyLeft, ReturnIsOK, HandlerOnly
  <2>2. CASE calls[c].after # "return"
    <3> DEFINE k == [calls[c] EXCEPT !.pc = "rollback", !.reason = "spawn_claim_failed_after_join"]
    <3>1. /\ k \in CallType /\ k.pc = "rollback" /\ k.after = calls[c].after /\ k.s = calls[c].s
          /\ k.inv = calls[c].inv /\ k.i = calls[c].i /\ k.todo = calls[c].todo
      BY <1>1 DEF CallType, Pcs, Reasons
    <3>2. calls' = [calls EXCEPT ![c] = k] /\ cache' = cache
      BY <1>5, <2>2
    <3> HIDE DEF k
    <3>3. Continues(c) /\ calls'[c] = k
      BY <3>1, <3>2, MoveEffect DEF IInv
    <3>4. Owner(c) /\ OwnerOK(c) /\ Owner(c)'
      BY <1>1, <2>2, <3>1, <3>3 DEF CallOK, Owner, Creating, Cleaning
    <3>5. OwnerOK(c)'
      BY <1>3, <3>1, <3>3, <3>4, QuietGone
      DEF OwnerOK, Creating, Cleaning, Undone, Absent, MemberGone, SessionGone
    <3>6. CallOK(c)' /\ calls'[c].pc \notin LockPcs /\ calls'[c].s = calls[c].s
      BY <1>1, <1>3, <3>1, <3>3, <3>4, <3>5 DEF CallOK, Creating, LockPcs
    <3> QED
      BY <1>1, <1>3, <1>5, <3>3, <3>4, <3>6, HandlerOnly
  <2> QED
    BY <2>1, <2>2
<1> QED
  BY <1>4, <1>5 DEF WriteClaim

(* A request that only looks whether a worktree can be cleaned up. *)
LEMMA CleanupRequest ==
    ASSUME IInv, NEW c \in Calls, NEW i \in Ids, worktrees[i] # None, worktrees' = worktrees,
           calls' = [calls EXCEPT ![c] = [Idle EXCEPT !.pc = "cleanup_check", !.i = i]],
           cache' = cache
    PROVE  Continues(c) /\ CallOK(c)' /\ ~Owner(c)' /\ calls'[c].pc \notin LockPcs
<1> DEFINE k == [Idle EXCEPT !.pc = "cleanup_check", !.i = i]
<1>1. /\ k \in CallType /\ k.pc = "cleanup_check" /\ k.after = "return" /\ k.inv = None
      /\ k.i = i /\ k.todo = {}
  BY DEF Idle, CallType, Pcs, Reasons, Policies
<1>2. calls' = [calls EXCEPT ![c] = k]
  OBVIOUS
<1> HIDE DEF k
<1>3. Continues(c) /\ calls'[c] = k
  BY <1>1, <1>2, MoveEffect DEF IInv
<1> QED
  BY <1>1, <1>3 DEF CallOK, Owner, Creating, Cleaning, LockPcs

LEMMA ReleaseWorktreeStep ==
    ASSUME IInv, NEW c \in Calls, NEW i \in Ids, NEW s \in Sessions, NEW last \in BOOLEAN, boot = {},
           release_worktree(c, i, s, last)
    PROVE  IInv'
<1>1. /\ calls[c].pc = "idle" /\ calls[c].pc \notin LockPcs /\ worktrees[i] # None
      /\ cache' = cache /\ claims' = [claims EXCEPT ![i][s] = "released"]
      /\ "released" \in ClaimStates /\ CallOK(c)
  BY DEF release_worktree, LockPcs, Live, ClaimStates, IInv, Handlers
<1>2. Quiet /\ UNCHANGED <<worktrees, git, lock>>
  BY TeamAlone DEF release_worktree, team, memberships, rest, git
<1>3. claims' \in Claims /\ ClaimsOK' /\ RowsGrow
  BY <1>1, <1>2, ClaimWritten
<1>4. CASE calls' = [calls EXCEPT ![c] = [Idle EXCEPT !.pc = "cleanup_check", !.i = i]]
  BY <1>1, <1>2, <1>3, <1>4, CleanupRequest, ClaimStep
<1>5. CASE calls' = calls
  <2>1. Continues(c) /\ Typed
    BY <1>1, <1>5 DEF IInv, Typed, Continues, Others, CacheKept
  <2>2. ~Owner(c) /\ ~Owner(c)'
    BY <1>1, <1>5 DEF CallOK, OwnerOK, Owner
  <2>3. CallOK(c)'
    BY <1>1, <1>3, <1>5, <2>1, <2>2, CallKept
  <2> QED
    BY <1>1, <1>2, <1>3, <1>5, <2>1, <2>2, <2>3, ClaimStep
<1> QED
  BY <1>4, <1>5 DEF release_worktree

LEMMA CleanupWorktreeStep ==
    ASSUME IInv, NEW c \in Calls, NEW i \in Ids, boot = {}, cleanup_worktree(c, i)
    PROVE  IInv'
<1>1. /\ calls[c].pc \notin LockPcs /\ worktrees[i] # None /\ cache' = cache
      /\ calls' = [calls EXCEPT ![c] = [Idle EXCEPT !.pc = "cleanup_check", !.i = i]]
  BY DEF cleanup_worktree, LockPcs, Live
<1>2. Quiet /\ UNCHANGED <<worktrees, claims, git, lock>>
  BY TeamAlone DEF cleanup_worktree, store, team, memberships, rest, git
<1> QED
  BY <1>1, <1>2, CleanupRequest, HandlerOnly

LEMMA CheckClaimsStep ==
    ASSUME IInv, NEW c \in Calls, boot = {}, CheckClaims(c)
    PROVE  IInv'
<1>1. calls[c].pc = "cleanup_check" /\ calls[c].pc \notin LockPcs /\ CallOK(c) /\ Cleaning(c)
  BY DEF IInv, CheckClaims, Handlers, LockPcs, Cleaning
<1>2. Quiet /\ UNCHANGED <<worktrees, claims, git, lock>>
  BY TeamAlone DEF CheckClaims, store, team, memberships, rest, git
<1>3. CASE Goto(c, "cleanup_lock")
  <2>1. /\ Continues(c) /\ calls'[c].pc = "cleanup_lock" /\ calls'[c].after = calls[c].after
        /\ calls'[c].s = calls[c].s /\ calls'[c].n = calls[c].n /\ calls'[c].i = calls[c].i
        /\ calls'[c].inv = calls[c].inv /\ calls'[c].todo = calls[c].todo
        /\ calls'[c].reason = calls[c].reason /\ (Owner(c)' <=> Owner(c))
    BY <1>3, GotoFacts DEF Pcs
  <2>2. Owner(c) => OwnerOK(c)'
    BY <1>1, <1>2, <2>1, QuietGone
    DEF CallOK, OwnerOK, Creating, Cleaning, Undone, Absent, MemberGone, SessionGone
  <2>3. CallOK(c)'
    BY <1>1, <1>2, <2>1, <2>2 DEF CallOK, Creating, Cleaning
  <2>4. calls'[c].pc \notin LockPcs
    BY <2>1 DEF LockPcs
  <2> QED
    BY <1>1, <1>2, <2>1, <2>3, <2>4, HandlerOnly
<1>4. CASE Resume(c)
  BY <1>1, <1>2, <1>4, ResumeIsOK, HandlerOnly
<1> QED
  BY <1>3, <1>4 DEF CheckClaims

LEMMA RemoveArtifactsStep ==
    ASSUME IInv, NEW c \in Calls, boot = {}, RemoveArtifacts(c)
    PROVE  IInv'
<1>1. calls[c].pc \notin LockPcs /\ Cleaning(c) /\ Resume(c) /\ lock' = lock
  BY DEF IInv, RemoveArtifacts, LockPcs, Cleaning
<1>2. Quiet /\ UNCHANGED <<worktrees, claims>>
  BY TeamAlone DEF RemoveArtifacts, store, team, memberships, rest
<1>3. /\ worktrees' \in Rows /\ claims' \in Claims /\ lock' \in Calls \cup {None}
      /\ tree' \subseteq Names /\ branch' \subseteq Names /\ RowsGrow /\ ClaimsOK'
  BY <1>1, <1>2 DEF IInv, Typed, RowsGrow, ClaimsOK, RemoveArtifacts, GitRemove
<1>4. /\ Continues(c) /\ CallOK(c)' /\ calls'[c].pc \notin LockPcs
      /\ Owner(c)' => Owner(c) /\ calls'[c].s = calls[c].s
  BY <1>1, <1>2, ResumeIsOK
<1>5. Locking'
  BY <1>1, <1>4, LockStep DEF IInv, Handlers, Continues
<1> QED
  BY <1>2, <1>3, <1>4, <1>5, QuietStep

-----------------------------------------------------------------------------
(* Steps of a spawn, and of a removal, that leave the journal alone *)

LEMMA ReuseStep ==
    ASSUME IInv, NEW c \in Calls, boot = {}, ReuseWorktree(c)
    PROVE  IInv'
<1> DEFINE n == calls[c].n
           e == worktree_by_identity(worktrees, n)
<1>1. /\ calls[c].pc = "reuse" /\ calls[c].pc \notin LockPcs /\ n \in Names /\ Typed
      /\ worktrees \in Rows
  BY DEF IInv, ReuseWorktree, Handlers, CallOK, LockPcs, Typed
<1>2. Quiet /\ UNCHANGED <<claims, lock>> /\ claims' \in Claims /\ lock' \in Calls \cup {None}
  BY TeamAlone DEF ReuseWorktree, team, memberships, rest, IInv, Typed
<1>3. tree' \subseteq Names /\ branch' \subseteq Names
  BY DEF IInv, Typed, ReuseWorktree, git
<1>4. ASSUME worktrees' \in Rows, RowsGrow, Continues(c), CallOK(c)', calls'[c].pc \notin LockPcs,
             Owner(c)' => Owner(c) /\ calls'[c].s = calls[c].s
      PROVE  IInv'
  <2>1. Locking'
    BY <1>1, <1>2, <1>4, LockStep DEF IInv, Handlers, Continues
  <2>2. ClaimsOK'
    BY <1>2, <1>4 DEF IInv, RowsGrow, ClaimsOK
  <2> QED
    BY <1>2, <1>3, <1>4, <2>1, <2>2, QuietStep
<1>5. CASE e # None /\ Settle(c, e, FALSE) /\ UNCHANGED worktrees
  <2>1. worktrees' \in Rows /\ RowsGrow
    BY <1>1, <1>5 DEF RowsGrow
  <2>2. PICK i \in Ids : i = e /\ worktrees'[i] # None
    BY <1>1, <1>5, ByIdentity DEF Known
  <2>3. Settle(c, i, FALSE)
    BY <1>5, <2>2
  <2> QED
    BY <1>1, <1>2, <1>4, <2>1, <2>2, <2>3, SettleIsOK
<1>6. CASE /\ \E id \in FreshIds :
                 worktrees' = upsert_managed_worktree(worktrees, id, NewRow(n, "retain_on_last_claim"))
           /\ Settle(c, worktree_by_identity(worktrees', n), FALSE)
  <2>1. "retain_on_last_claim" \in Policies
    BY DEF Policies
  <2>2. /\ worktrees' \in Rows /\ RowsGrow
        /\ worktree_by_identity(worktrees', n) \in Known(worktrees')
    BY <1>1, <1>6, <2>1, WrittenRow
  <2>3. PICK i \in Ids : i = worktree_by_identity(worktrees', n) /\ worktrees'[i] # None
    BY <2>2 DEF Known
  <2>4. Settle(c, i, FALSE)
    BY <1>6, <2>3
  <2> QED
    BY <1>1, <1>2, <1>4, <2>2, <2>3, <2>4, SettleIsOK
<1>7. CASE Return(c, FALSE) /\ UNCHANGED worktrees
  <2>1. worktrees' \in Rows /\ RowsGrow
    BY <1>1, <1>7 DEF RowsGrow
  <2> QED
    BY <1>1, <1>2, <1>4, <1>7, <2>1, NobodyLeft, ReturnIsOK
<1> QED
  BY <1>5, <1>6, <1>7 DEF ReuseWorktree

LEMMA ClaimForMemberStep ==
    ASSUME IInv, NEW c \in Calls, boot = {}, ClaimForMember(c)
    PROVE  IInv'
<1>1. /\ calls[c].pc = "claim" /\ calls[c].pc \notin LockPcs /\ CallOK(c) /\ Typed
      /\ calls[c] \in CallType /\ cache' = cache
  BY DEF IInv, ClaimForMember, Handlers, LockPcs, Typed
<1>2. Quiet /\ UNCHANGED <<worktrees, claims, git, lock>>
  BY TeamAlone DEF ClaimForMember, store, team, memberships, rest, git
<1>3. Owner(c) /\ OwnerOK(c) /\ calls[c].s \in Sessions
  BY <1>1 DEF CallOK, OwnerOK, Creating, Cleaning
<1>4. ASSUME NEW k \in CallType, calls' = [calls EXCEPT ![c] = k],
             \/ k.pc \in {"joined", "rollback"} /\ k.after = calls[c].after
             \/ k.pc = "claim_write" /\ k.after = "joined" /\ k.i \in Ids,
             k.s = calls[c].s, k.inv = calls[c].inv, k.i = calls[c].i, k.todo = calls[c].todo
      PROVE  IInv'
  <2>1. Continues(c) /\ calls'[c] = k
    BY <1>1, <1>4, MoveEffect
  <2>2. Owner(c)' /\ calls'[c].s = calls[c].s /\ calls'[c].pc \notin LockPcs
    BY <1>3, <1>4, <2>1 DEF Owner, LockPcs
  <2>3. OwnerOK(c)'
    BY <1>2, <1>3, <1>4, <2>1, QuietGone
    DEF OwnerOK, Creating, Cleaning, Undone, Absent, MemberGone, SessionGone
  <2>4. CallOK(c)'
    BY <1>1, <1>2, <1>3, <1>4, <2>1, <2>2, <2>3 DEF CallOK, Creating
  <2> QED
    BY <1>1, <1>2, <1>3, <2>1, <2>2, <2>4, HandlerOnly
<1>5. CASE calls' = [calls EXCEPT ![c].pc = "joined"]
  <2> DEFINE k == [calls[c] EXCEPT !.pc = "joined"]
  <2>1. /\ k \in CallType /\ k.pc = "joined" /\ k.after = calls[c].after /\ k.s = calls[c].s
        /\ k.inv = calls[c].inv /\ k.i = calls[c].i /\ k.todo = calls[c].todo
    BY <1>1 DEF CallType, Pcs
  <2>2. calls' = [calls EXCEPT ![c] = k]
    BY <1>5
  <2> HIDE DEF k
  <2> QED
    BY <1>4, <2>1, <2>2
<1>6. CASE /\ CanClaim(calls[c].i, calls[c].s) /\ calls[c].i # None
           /\ calls' = [calls EXCEPT ![c].pc = "claim_write", ![c].after = "joined"]
  <2> DEFINE k == [calls[c] EXCEPT !.pc = "claim_write", !.after = "joined"]
  <2>1. /\ k \in CallType /\ k.pc = "claim_write" /\ k.after = "joined" /\ k.s = calls[c].s
        /\ k.inv = calls[c].inv /\ k.i = calls[c].i /\ k.todo = calls[c].todo
    BY <1>1 DEF CallType, Pcs
  <2>2. calls' = [calls EXCEPT ![c] = k] /\ k.i \in Ids
    BY <1>1, <1>6, <2>1 DEF CallType
  <2> HIDE DEF k
  <2> QED
    BY <1>4, <2>1, <2>2
<1>7. CASE calls' = [calls EXCEPT ![c].pc = "rollback", ![c].reason = "spawn_claim_failed_after_join"]
  <2> DEFINE k == [calls[c] EXCEPT !.pc = "rollback", !.reason = "spawn_claim_failed_after_join"]
  <2>1. /\ k \in CallType /\ k.pc = "rollback" /\ k.after = calls[c].after /\ k.s = calls[c].s
        /\ k.inv = calls[c].inv /\ k.i = calls[c].i /\ k.todo = calls[c].todo
    BY <1>1 DEF CallType, Pcs, Reasons
  <2>2. calls' = [calls EXCEPT ![c] = k]
    BY <1>7
  <2> HIDE DEF k
  <2> QED
    BY <1>4, <2>1, <2>2
<1> QED
  BY <1>5, <1>6, <1>7 DEF ClaimForMember

(* The end of a rollback that has nothing more to undo. *)
LEMMA UndoFacts ==
    ASSUME IInv, NEW c \in Calls, NEW reason \in Reasons, Undo(c, reason)
    PROVE  /\ Continues(c) /\ calls'[c].pc \in {"cleanup_check", "rolled_back"}
           /\ calls'[c].pc \notin LockPcs /\ calls'[c].after = "rolled_back"
           /\ calls'[c].reason = reason /\ calls'[c].s = calls[c].s /\ calls'[c].i = calls[c].i
           /\ calls'[c].inv = calls[c].inv /\ calls'[c].todo = calls[c].todo /\ Owner(c)'
<1>1. /\ Continues(c) /\ calls[c] \in CallType
      /\ calls'[c] = [calls[c] EXCEPT
                        !.pc = IF calls[c].made THEN "cleanup_check" ELSE "rolled_back",
                        !.after = "rolled_back", !.reason = reason]
  BY UndoEffect DEF IInv, Typed
<1>2. /\ calls'[c].pc \in {"cleanup_check", "rolled_back"} /\ calls'[c].after = "rolled_back"
      /\ calls'[c].reason = reason /\ calls'[c].s = calls[c].s /\ calls'[c].i = calls[c].i
      /\ calls'[c].inv = calls[c].inv /\ calls'[c].todo = calls[c].todo
  BY <1>1 DEF CallType
<1> QED
  BY <1>1, <1>2 DEF LockPcs, Owner

LEMMA RollbackClaimStep ==
    ASSUME IInv, NEW c \in Calls, boot = {}, RollbackClaim(c)
    PROVE  IInv'
<1>1. /\ calls[c].pc = "rollback_claim" /\ calls[c].pc \notin LockPcs /\ CallOK(c)
      /\ calls[c] \in CallType
  BY DEF IInv, RollbackClaim, Handlers, LockPcs, Typed
<1>2. Quiet /\ UNCHANGED <<worktrees, git, lock>>
  BY TeamAlone DEF RollbackClaim, team, memberships, rest, git
<1>3. Owner(c) /\ OwnerOK(c) /\ calls[c].s \in Sessions
  BY <1>1 DEF CallOK, OwnerOK, Creating, Cleaning
<1>4. PICK reason \in Reasons : reason = calls[c].reason
  BY <1>1 DEF CallType
<1>5. Undo(c, reason)
  BY <1>4 DEF RollbackClaim
<1>6. /\ Continues(c) /\ calls'[c].pc \in {"cleanup_check", "rolled_back"}
      /\ calls'[c].pc \notin LockPcs /\ calls'[c].after = "rolled_back"
      /\ calls'[c].reason = reason /\ calls'[c].s = calls[c].s /\ calls'[c].i = calls[c].i
      /\ calls'[c].inv = calls[c].inv /\ calls'[c].todo = calls[c].todo /\ Owner(c)'
  BY <1>5, UndoFacts
<1>7. OwnerOK(c)'
  BY <1>1, <1>2, <1>3, <1>6, QuietGone
  DEF OwnerOK, Creating, Cleaning, Undone, Absent, MemberGone, SessionGone
<1>8. CallOK(c)'
  BY <1>1, <1>2, <1>6, <1>7 DEF CallOK, Creating
<1>9. CASE claims' = claims
  BY <1>1, <1>2, <1>3, <1>6, <1>8, <1>9, HandlerOnly
<1>10. CASE /\ calls[c].i \in Ids /\ claims[calls[c].i][calls[c].s] # None
            /\ claims' = [claims EXCEPT ![calls[c].i][calls[c].s] = "released"]
  <2>1. PICK i \in Ids, s \in Sessions : i = calls[c].i /\ s = calls[c].s
    BY <1>3, <1>10
  <2>2. worktrees[i] # None /\ "released" \in ClaimStates
    BY <1>10, <2>1 DEF IInv, ClaimsOK, ClaimStates
  <2>3. claims' \in Claims /\ ClaimsOK'
    BY <1>2, <1>10, <2>1, <2>2, ClaimWritten
  <2> QED
    BY <1>1, <1>2, <1>3, <1>6, <1>8, <2>3, ClaimStep
<1> QED
  BY <1>9, <1>10 DEF RollbackClaim

LEMMA RemoveStep ==
    ASSUME IInv, NEW c \in Calls, NEW s \in Sessions, boot = {}, invoke_team_manage_remove(c, s)
    PROVE  IInv'
<1>1. calls[c].pc = "idle" /\ calls[c].pc \notin LockPcs /\ cache' = cache /\ CallOK(c) /\ Typed
  BY DEF IInv, invoke_team_manage_remove, LockPcs, Handlers
<1>2. Quiet /\ UNCHANGED <<worktrees, claims, git, lock>>
  <2>1. MemberLeaves(s) \/ MemberLeavesMemory(s)
    BY DEF invoke_team_manage_remove
  <2>2. strays' \subseteq strays \cup members /\ \A r : MembershipKept(r)
    BY <2>1 DEF MemberLeaves, MemberLeavesMemory, MembershipKept
  <2> QED
    BY <2>2 DEF invoke_team_manage_remove, Quiet, store, rest, git
<1>3. CASE calls' = [calls EXCEPT ![c] = [Idle EXCEPT !.pc = "removed", !.s = s]]
  <2> DEFINE k == [Idle EXCEPT !.pc = "removed", !.s = s]
  <2>1. /\ k \in CallType /\ k.pc = "removed" /\ k.after = "return" /\ k.inv = None /\ k.s = s
        /\ k.i = None /\ k.todo = {}
    BY DEF Idle, CallType, Pcs, Reasons, Policies
  <2>2. calls' = [calls EXCEPT ![c] = k]
    BY <1>3
  <2> HIDE DEF k
  <2>3. Continues(c) /\ calls'[c] = k
    BY <1>1, <2>1, <2>2, MoveEffect
  <2>4. CallOK(c)' /\ ~Owner(c)' /\ calls'[c].pc \notin LockPcs
    BY <2>1, <2>3 DEF CallOK, Owner, Creating, LockPcs
  <2> QED
    BY <1>1, <1>2, <2>3, <2>4, HandlerOnly
<1>4. CASE calls' = calls
  <2>1. Continues(c) /\ RowsGrow
    BY <1>1, <1>2, <1>4 DEF Typed, Continues, Others, CacheKept, RowsGrow
  <2>2. ~Owner(c) /\ ~Owner(c)'
    BY <1>1, <1>4 DEF CallOK, OwnerOK, Owner
  <2>3. CallOK(c)'
    BY <1>1, <1>4, <2>1, <2>2, CallKept
  <2> QED
    BY <1>1, <1>2, <1>4, <2>1, <2>2, <2>3, HandlerOnly
<1> QED
  BY <1>3, <1>4 DEF invoke_team_manage_remove

LEMMA MemberRemovedStep ==
    ASSUME IInv, NEW c \in Calls, boot = {}, on_member_removed(c)
    PROVE  IInv'
<1>1. /\ calls[c].pc = "removed" /\ calls[c].pc \notin LockPcs /\ cache' = cache /\ CallOK(c) /\ Typed
      /\ calls[c] \in CallType
  BY DEF IInv, on_member_removed, LockPcs, Handlers, Typed
<1>2. Quiet /\ UNCHANGED <<worktrees, claims, git, lock>>
  BY TeamAlone DEF on_member_removed, store, team, memberships, rest, git
<1>3. ~Owner(c) /\ calls[c].inv = None
  BY <1>1 DEF CallOK, OwnerOK
<1>4. PICK todo \in SUBSET Ids : /\ todo = {i \in Ids : claims[i][calls[c].s] = "active"}
                                 /\ \A i \in todo : worktrees[i] # None
  <2>1. calls[c].s \in Sessions
    BY <1>1 DEF CallOK
  <2>2. \A i \in Ids : claims[i][calls[c].s] = "active" => worktrees[i] # None
    BY <2>1, StoreConstants DEF IInv, ClaimsOK
  <2> DEFINE held == {i \in Ids : claims[i][calls[c].s] = "active"}
  <2>3. held \in SUBSET Ids /\ \A i \in held : worktrees[i] # None
    BY <2>2
  <2> HIDE DEF held
  <2>4. \E todo \in SUBSET Ids : todo = held /\ \A i \in todo : worktrees[i] # None
    BY <2>3
  <2> QED
    BY <2>4 DEF held
<1> DEFINE k == [calls[c] EXCEPT !.pc = "member_claims", !.after = "member_claims", !.todo = todo]
<1>5. /\ k \in CallType /\ k.pc = "member_claims" /\ k.after = "member_claims" /\ k.s = calls[c].s
      /\ k.inv = calls[c].inv /\ k.i = calls[c].i /\ k.todo = todo
  BY <1>1 DEF CallType, Pcs
<1>6. calls' = [calls EXCEPT ![c] = k]
  BY <1>4 DEF on_member_removed
<1> HIDE DEF k
<1>7. Continues(c) /\ calls'[c] = k
  BY <1>1, <1>5, <1>6, MoveEffect
<1>8. ~Owner(c)' /\ calls'[c].pc \notin LockPcs
  BY <1>5, <1>7 DEF Owner, LockPcs
<1>9. \A i \in calls'[c].todo \cup {calls'[c].i} : i # None => worktrees'[i] # None
  BY <1>1, <1>2, <1>4, <1>5, <1>7 DEF CallOK
<1>10. CallOK(c)'
  BY <1>1, <1>3, <1>5, <1>7, <1>8, <1>9 DEF CallOK, Creating
<1> QED
  BY <1>1, <1>2, <1>7, <1>8, <1>10, HandlerOnly

LEMMA ReleaseNextStep ==
    ASSUME IInv, NEW c \in Calls, boot = {}, ReleaseNextClaim(c)
    PROVE  IInv'
<1>1. /\ calls[c].pc = "member_claims" /\ calls[c].pc \notin LockPcs /\ CallOK(c) /\ Typed
      /\ calls[c] \in CallType
  BY DEF IInv, ReleaseNextClaim, LockPcs, Handlers, Typed
<1>2. Quiet /\ UNCHANGED <<worktrees, git, lock>>
  BY TeamAlone DEF ReleaseNextClaim, team, memberships, rest, git
<1>3. ~Owner(c) /\ calls[c].inv = None /\ calls[c].after = "member_claims" /\ calls[c].s \in Sessions
  BY <1>1 DEF CallOK, OwnerOK, Creating, Cleaning
<1>4. ASSUME NEW k \in CallType, calls' = [calls EXCEPT ![c] = k], cache' = cache,
             k.pc \in {"member_claims", "cleanup_check"}, k.after = "member_claims",
             k.s = calls[c].s, k.inv = None, k.i \in calls[c].todo \cup {calls[c].i},
             k.todo \subseteq calls[c].todo, claims' \in Claims, ClaimsOK'
      PROVE  IInv'
  <2>1. Continues(c) /\ calls'[c] = k
    BY <1>1, <1>4, MoveEffect
  <2>2. ~Owner(c)' /\ calls'[c].pc \notin LockPcs
    BY <1>4, <2>1 DEF Owner, LockPcs
  <2>3. \A i \in calls'[c].todo \cup {calls'[c].i} : i # None => worktrees'[i] # None
    BY <1>1, <1>2, <1>4, <2>1 DEF CallOK
  <2>4. CallOK(c)'
    BY <1>3, <1>4, <2>1, <2>2, <2>3 DEF CallOK, Creating, Cleaning
  <2> QED
    BY <1>1, <1>2, <1>4, <2>1, <2>2, <2>4, ClaimStep
<1>5. CASE Return(c, TRUE) /\ UNCHANGED claims
  BY <1>1, <1>2, <1>5, ReturnIsOK, HandlerOnly
<1>6. ASSUME NEW i \in calls[c].todo, claims' = [claims EXCEPT ![i][calls[c].s] = "released"],
             calls' = [calls EXCEPT ![c].pc = "cleanup_check", ![c].i = i, ![c].todo = @ \ {i}],
             cache' = cache
      PROVE  IInv'
  <2>1. i \in Ids /\ worktrees[i] # None
    BY <1>1, <1>6, StoreConstants DEF CallOK, CallType
  <2>2. PICK s \in Sessions : s = calls[c].s
    BY <1>3
  <2>3. claims' = [claims EXCEPT ![i][s] = "released"] /\ "released" \in ClaimStates
    BY <1>6, <2>2 DEF ClaimStates
  <2>4. claims' \in Claims /\ ClaimsOK'
    BY <1>2, <2>1, <2>3, ClaimWritten
  <2>5. PICK todo \in SUBSET Ids : todo = calls[c].todo \ {i}
    BY <1>1 DEF CallType
  <2> DEFINE k == [calls[c] EXCEPT !.pc = "cleanup_check", !.i = i, !.todo = todo]
  <2>6. /\ k \in CallType /\ k.pc = "cleanup_check" /\ k.after = calls[c].after /\ k.s = calls[c].s
        /\ k.inv = calls[c].inv /\ k.i = i /\ k.todo = todo
    BY <1>1, <2>1 DEF CallType, Pcs
  <2>7. calls' = [calls EXCEPT ![c] = k]
    BY <1>6, <2>5
  <2> HIDE DEF k
  <2> QED
    BY <1>3, <1>4, <1>6, <2>4, <2>5, <2>6, <2>7
<1>7. ASSUME NEW i \in calls[c].todo, calls' = [calls EXCEPT ![c].todo = @ \ {i}], cache' = cache,
             claims' = claims
      PROVE  IInv'
  <2>1. PICK todo \in SUBSET Ids : todo = calls[c].todo \ {i}
    BY <1>1 DEF CallType
  <2> DEFINE k == [calls[c] EXCEPT !.todo = todo]
  <2>2. /\ k \in CallType /\ k.pc = calls[c].pc /\ k.after = calls[c].after /\ k.s = calls[c].s
        /\ k.inv = calls[c].inv /\ k.i = calls[c].i /\ k.todo = todo
    BY <1>1 DEF CallType
  <2>3. calls' = [calls EXCEPT ![c] = k]
    BY <1>7, <2>1
  <2>4. claims' \in Claims /\ ClaimsOK'
    BY <1>2, <1>7 DEF IInv, Typed, ClaimsOK
  <2> HIDE DEF k
  <2> QED
    BY <1>1, <1>3, <1>4, <1>7, <2>1, <2>2, <2>3, <2>4
<1> QED
  BY <1>5, <1>6, <1>7 DEF ReleaseNextClaim

LEMMA DropStep ==
    ASSUME IInv, NEW c \in Calls, boot = {}, DropCall(c)
    PROVE  IInv'
<1>1. calls' = [calls EXCEPT ![c] = Idle] /\ cache' = cache /\ calls[c].pc \notin LockPcs
  BY DEF DropCall, LockPcs
<1>2. Quiet /\ UNCHANGED <<worktrees, claims, git, lock>>
  BY TeamAlone DEF DropCall, store, team, memberships, rest, git
<1>3. Continues(c) /\ calls'[c] = Idle
  BY <1>1, IdleFacts, MoveEffect DEF IInv
<1>4. CallOK(c)' /\ ~Owner(c)' /\ calls'[c].pc \notin LockPcs
  BY <1>3, IdleIsOK, IdleFacts DEF LockPcs
<1> QED
  BY <1>1, <1>2, <1>3, <1>4, HandlerOnly

-----------------------------------------------------------------------------
(* Steps of a spawn on the operation that it owns *)

TeamTyped ==
    /\ journal \in [Sessions -> [stage : Stages, reason : Reasons]]
    /\ session \in [Sessions -> {None, "open", "closed"}] /\ unclosed \subseteq Sessions
    /\ members \subseteq Sessions /\ durableMembers \subseteq Sessions /\ strays \subseteq Sessions
    /\ added_by \in [Sessions -> Invocations \cup {None}]

LEMMA OwnStep ==
    ASSUME IInv, NEW c \in Calls, NEW z \in Sessions, boot = {},
           calls' \in [Calls -> CallType], cache' \in [Invocations -> {None, "running", "done"}],
           Others(c), UNCHANGED <<worktrees, claims, git, lock, forgotten, scope, boot, crashes>>,
           TeamTyped', \A s \in Sessions \ {z} : SessionKept(s),
           \A d \in Calls : d # c /\ Owner(d) => calls[d].s # z,
           calls'[c].pc \notin LockPcs, calls[c].pc \notin LockPcs,
           CallOK(c)', Owner(c)' => calls'[c].s = z, SessionOK(z)', InvsOK'
    PROVE  IInv'
<1>1. Typed'
  BY DEF IInv, Typed, TeamTyped, git
<1>2. RowsGrow /\ ClaimsOK' /\ boot' = {} /\ forgotten' = forgotten
  BY DEF IInv, RowsGrow, ClaimsOK
<1>3. Locking'
  BY LockStep DEF IInv, Handlers
<1>4. Owner(c)' => \A d \in Calls : d # c /\ Owner(d) => calls'[c].s # calls[d].s
  OBVIOUS
<1>5. /\ {z} \in SUBSET Sessions /\ \A s \in {z} : SessionOK(s)'
      /\ \A d \in Calls : d # c /\ Owner(d) => calls[d].s \notin {z}
  OBVIOUS
<1> HIDE DEF IInv, Typed, Locking, CallOK, InvsOK, ClaimsOK, Owner, SessionOK, SessionKept, Others
<1> QED
  BY <1>1, <1>2, <1>3, <1>4, <1>5, HandlerStep

(* The step adds no member. *)
LEMMA OwnMove ==
    ASSUME IInv, NEW c \in Calls, NEW z \in Sessions, boot = {}, Owner(c), calls[c].s = z,
           Continues(c), UNCHANGED <<worktrees, claims, git, lock, rest>>,
           TeamTyped', \A s \in Sessions \ {z} : SessionKept(s),
           z \in members' \ strays' => z \in members \ strays,
           calls'[c].pc \notin LockPcs, calls[c].pc \notin LockPcs,
           CallOK(c)', Owner(c)' => calls'[c].s = z, SessionOK(z)'
    PROVE  IInv'
<1>1. NothingAdded
  BY DEF NothingAdded, SessionKept, MembershipKept, rest
<1>2. InvsOK'
  BY <1>1, InvsKept DEF IInv, Operations, InvsOK, rest
<1>3. \A d \in Calls : d # c /\ Owner(d) => calls[d].s # z
  BY DEF IInv, Handlers, Owners
<1>4. /\ calls' \in [Calls -> CallType] /\ cache' \in [Invocations -> {None, "running", "done"}]
      /\ Others(c) /\ UNCHANGED <<forgotten, scope, boot, crashes>>
  BY DEF Continues, rest
<1> QED
  BY <1>2, <1>3, <1>4, OwnStep

(* What the step leaves alone of the other operations. *)
LEMMA OthersKept ==
    ASSUME NEW z, UNCHANGED added_by,
           \A s \in Sessions \ {z} : journal'[s] = journal[s] /\ session'[s] = session[s],
           members \ {z} = members' \ {z}, durableMembers \ {z} = durableMembers' \ {z},
           strays \subseteq strays', unclosed \subseteq unclosed'
    PROVE  \A s \in Sessions \ {z} : SessionKept(s)
BY DEF SessionKept, MembershipKept

(* Where the step starts: the operation of the handler is under way. *)
LEMMA OwnedAt ==
    ASSUME IInv, NEW c \in Calls,
           calls[c].pc \in {"worktree_created", "session", "assign", "join", "joined", "onboard",
                            "rollback", "rolled_back"}
    PROVE  /\ Owner(c) /\ OwnerOK(c) /\ CallOK(c) /\ calls[c] \in CallType /\ calls[c].s \in Sessions
           /\ calls[c].pc \notin LockPcs /\ Typed
           /\ journal[calls[c].s].stage \notin {None, "completed", "rolled_back"}
<1>1. CallOK(c) /\ calls[c] \in CallType /\ Typed
  BY DEF IInv, Handlers, Typed
<1>2. Owner(c) /\ OwnerOK(c)
  BY <1>1 DEF CallOK, Creating, Cleaning
<1> QED
  BY <1>1, <1>2 DEF OwnerOK, LockPcs

(* An entry of the journal is written. *)
LEMMA JournalEffect ==
    ASSUME Typed, NEW z \in Sessions, NEW stage \in Stages, NEW reason \in Reasons,
           Journal(z, stage, reason)
    PROVE  /\ journal' \in [Sessions -> [stage : Stages, reason : Reasons]]
           /\ journal'[z].stage = stage /\ journal'[z].reason = reason
           /\ \A s \in Sessions \ {z} : journal'[s] = journal[s]
BY DEF Typed, Journal

(* A member whose recording errs is a stray one. *)
LEMMA ErrEffect ==
    ASSUME Typed, NEW c \in Calls, ErrRecording(c), members' = members
    PROVE  /\ Continues(c) /\ calls'[c] = Idle
           /\ strays \subseteq strays' /\ strays' \subseteq strays \cup members
<1>1. Return(c, FALSE) /\ ~LeavesMember(c)
  BY DEF ErrRecording, LeavesMember
<1> QED
  BY <1>1, ReturnEffect DEF ErrRecording

(* A stage that is not the last, or the end without it. *)
LEMMA RecordEffect ==
    ASSUME IInv, NEW c \in Calls, NEW z \in Sessions, z = calls[c].s, Owner(c), CallOK(c),
           NEW stage \in Stages \ {None, "completed", "rolled_back"}, NEW pc \in Pcs, Record(c, stage, pc),
           members' = members
    PROVE  /\ Continues(c) /\ strays \subseteq strays' /\ strays' \subseteq strays \cup members
           /\ journal' \in [Sessions -> [stage : Stages, reason : Reasons]]
           /\ \A s \in Sessions \ {z} : journal'[s] = journal[s]
           /\ journal'[z].stage \notin {None, "completed", "rolled_back"}
           /\ \/ calls'[c] = Idle
              \/ /\ calls'[c].pc = pc /\ calls'[c].after = calls[c].after
                 /\ calls'[c].s = calls[c].s /\ calls'[c].n = calls[c].n /\ calls'[c].i = calls[c].i
                 /\ calls'[c].inv = calls[c].inv /\ calls'[c].todo = calls[c].todo
                 /\ calls'[c].reason = calls[c].reason /\ Owner(c)'
<1>1. Typed /\ None \in Reasons /\ journal[z].stage \notin {None, "completed", "rolled_back"}
  BY DEF IInv, Reasons, CallOK, OwnerOK
<1>2. CASE Advance(calls[c].s, stage) /\ Goto(c, pc) /\ UNCHANGED strays
  <2>1. Journal(z, stage, None)
    BY <1>2 DEF Advance
  <2>2. /\ journal' \in [Sessions -> [stage : Stages, reason : Reasons]]
        /\ journal'[z].stage = stage
        /\ \A s \in Sessions \ {z} : journal'[s] = journal[s]
    BY <1>1, <2>1, JournalEffect
  <2>3. /\ Continues(c) /\ calls'[c].pc = pc /\ calls'[c].after = calls[c].after
        /\ calls'[c].s = calls[c].s /\ calls'[c].n = calls[c].n /\ calls'[c].i = calls[c].i
        /\ calls'[c].inv = calls[c].inv /\ calls'[c].todo = calls[c].todo
        /\ calls'[c].reason = calls[c].reason /\ Owner(c)'
    BY <1>2, GotoFacts
  <2> QED
    BY <1>2, <2>2, <2>3
<1>3. CASE ErrRecording(c) /\ UNCHANGED journal
  BY <1>1, <1>3, ErrEffect DEF Typed
<1> QED
  BY <1>2, <1>3 DEF Record

(* The handler goes on with an operation that is under way. *)
LEMMA MovedIsOK ==
    ASSUME IInv, NEW c \in Calls, CallOK(c), Owner(c)', calls'[c].s = calls[c].s,
           calls'[c].i = calls[c].i, calls'[c].todo = calls[c].todo, worktrees' = worktrees,
           calls'[c].pc \notin {"removed", "reuse", "claim_write"}, ~Creating(c)', OwnerOK(c)'
    PROVE  CallOK(c)'
BY DEF CallOK

LEMMA WorktreeCreatedStep ==
    ASSUME IInv, NEW c \in Calls, boot = {}, WorktreeCreated(c)
    PROVE  IInv'
<1>1. /\ Owner(c) /\ OwnerOK(c) /\ CallOK(c) /\ calls[c].s \in Sessions
      /\ calls[c].pc \notin LockPcs /\ Typed /\ calls[c].pc = "worktree_created"
  BY OwnedAt DEF WorktreeCreated
<1>2. PICK z \in Sessions : z = calls[c].s
  BY <1>1
<1>3. UNCHANGED <<worktrees, claims, git, lock, rest, session, unclosed, members, durableMembers,
                   added_by>>
  BY DEF WorktreeCreated, rest
<1>4. /\ Continues(c) /\ strays \subseteq strays' /\ strays' \subseteq strays \cup members
      /\ journal' \in [Sessions -> [stage : Stages, reason : Reasons]]
      /\ \A s \in Sessions \ {z} : journal'[s] = journal[s]
      /\ journal'[z].stage \notin {None, "completed", "rolled_back"}
      /\ \/ calls'[c] = Idle
         \/ /\ calls'[c].pc = "session" /\ calls'[c].after = calls[c].after
            /\ calls'[c].s = calls[c].s /\ calls'[c].n = calls[c].n /\ calls'[c].i = calls[c].i
            /\ calls'[c].inv = calls[c].inv /\ calls'[c].todo = calls[c].todo
            /\ calls'[c].reason = calls[c].reason /\ Owner(c)'
  <2>1. /\ Record(c, "worktree_created", "session") /\ "session" \in Pcs
        /\ "worktree_created" \in Stages \ {None, "completed", "rolled_back"}
    BY WorktreeConstants DEF WorktreeCreated, Stages, Pcs
  <2> QED
    BY <1>1, <1>2, <1>3, <2>1, RecordEffect
<1>5. TeamTyped' /\ \A s \in Sessions \ {z} : SessionKept(s)
  BY <1>1, <1>3, <1>4, OthersKept DEF TeamTyped, Typed
<1>6. SessionOK(z)'
  BY <1>3, <1>4 DEF SessionOK, IInv, Operations
<1>7. CASE calls'[c] = Idle
  BY <1>1, <1>2, <1>3, <1>4, <1>5, <1>6, <1>7, IdleIsOK, IdleFacts, OwnMove DEF LockPcs
<1>8. CASE /\ calls'[c].pc = "session" /\ calls'[c].after = calls[c].after
           /\ calls'[c].s = calls[c].s /\ calls'[c].i = calls[c].i
           /\ calls'[c].inv = calls[c].inv /\ calls'[c].todo = calls[c].todo /\ Owner(c)'
  <2>1. OwnerOK(c)'
    BY <1>1, <1>2, <1>3, <1>4, <1>8 DEF OwnerOK, Creating, Cleaning, Absent, SessionGone
  <2>2. CallOK(c)' /\ calls'[c].pc \notin LockPcs
    BY <1>1, <1>3, <1>8, <2>1, MovedIsOK DEF Creating, LockPcs
  <2> QED
    BY <1>1, <1>2, <1>3, <1>4, <1>5, <1>6, <1>8, <2>2, OwnMove
<1> QED
  BY <1>4, <1>7, <1>8

LEMMA TeamJoinedStep ==
    ASSUME IInv, NEW c \in Calls, boot = {}, TeamJoined(c)
    PROVE  IInv'
<1>1. /\ Owner(c) /\ OwnerOK(c) /\ CallOK(c) /\ calls[c].s \in Sessions
      /\ calls[c].pc \notin LockPcs /\ Typed /\ calls[c].pc = "joined"
  BY OwnedAt DEF TeamJoined
<1>2. PICK z \in Sessions : z = calls[c].s
  BY <1>1
<1>3. UNCHANGED <<worktrees, claims, git, lock, rest, session, unclosed, members, durableMembers,
                   added_by>>
  BY DEF TeamJoined, rest
<1>4. /\ Continues(c) /\ strays \subseteq strays' /\ strays' \subseteq strays \cup members
      /\ journal' \in [Sessions -> [stage : Stages, reason : Reasons]]
      /\ \A s \in Sessions \ {z} : journal'[s] = journal[s]
      /\ journal'[z].stage \notin {None, "completed", "rolled_back"}
      /\ \/ calls'[c] = Idle
         \/ /\ calls'[c].pc = "onboard" /\ calls'[c].after = calls[c].after
            /\ calls'[c].s = calls[c].s /\ calls'[c].n = calls[c].n /\ calls'[c].i = calls[c].i
            /\ calls'[c].inv = calls[c].inv /\ calls'[c].todo = calls[c].todo
            /\ calls'[c].reason = calls[c].reason /\ Owner(c)'
  <2>1. /\ Record(c, "team_joined", "onboard") /\ "onboard" \in Pcs
        /\ "team_joined" \in Stages \ {None, "completed", "rolled_back"}
    BY WorktreeConstants DEF TeamJoined, Stages, Pcs
  <2> QED
    BY <1>1, <1>2, <1>3, <2>1, RecordEffect
<1>5. TeamTyped' /\ \A s \in Sessions \ {z} : SessionKept(s)
  BY <1>1, <1>3, <1>4, OthersKept DEF TeamTyped, Typed
<1>6. SessionOK(z)'
  BY <1>3, <1>4 DEF SessionOK, IInv, Operations
<1>7. CASE calls'[c] = Idle
  BY <1>1, <1>2, <1>3, <1>4, <1>5, <1>6, <1>7, IdleIsOK, IdleFacts, OwnMove DEF LockPcs
<1>8. CASE /\ calls'[c].pc = "onboard" /\ calls'[c].after = calls[c].after
           /\ calls'[c].s = calls[c].s /\ calls'[c].i = calls[c].i
           /\ calls'[c].inv = calls[c].inv /\ calls'[c].todo = calls[c].todo /\ Owner(c)'
  <2>1. OwnerOK(c)'
    BY <1>1, <1>2, <1>3, <1>4, <1>8 DEF OwnerOK, Creating, Cleaning
  <2>2. CallOK(c)' /\ calls'[c].pc \notin LockPcs
    BY <1>1, <1>3, <1>8, <2>1, MovedIsOK DEF Creating, LockPcs
  <2> QED
    BY <1>1, <1>2, <1>3, <1>4, <1>5, <1>6, <1>8, <2>2, OwnMove
<1> QED
  BY <1>4, <1>7, <1>8

(* A failure after which the worktree, if there is one, is cleaned up. *)
LEMMA UndoIsOK ==
    ASSUME IInv, NEW c \in Calls, NEW z \in Sessions, z = calls[c].s, Owner(c), CallOK(c),
           NEW reason \in Reasons, Undo(c, reason), UNCHANGED <<worktrees, journal, added_by>>,
           Undone(z, reason)'
    PROVE  /\ Continues(c) /\ CallOK(c)' /\ calls'[c].pc \notin LockPcs
           /\ Owner(c)' => calls'[c].s = z
<1>1. /\ Continues(c) /\ calls'[c].pc \in {"cleanup_check", "rolled_back"}
      /\ calls'[c].pc \notin LockPcs /\ calls'[c].after = "rolled_back"
      /\ calls'[c].reason = reason /\ calls'[c].s = calls[c].s /\ calls'[c].i = calls[c].i
      /\ calls'[c].inv = calls[c].inv /\ calls'[c].todo = calls[c].todo /\ Owner(c)'
  BY UndoFacts
<1>2. OwnerOK(c)'
  BY <1>1 DEF CallOK, OwnerOK, Creating, Cleaning, Undone, Absent, MemberGone, SessionGone
<1>3. CallOK(c)'
  BY <1>1, <1>2, MovedIsOK DEF Creating
<1> QED
  BY <1>1, <1>3

LEMMA CreateSessionStep ==
    ASSUME IInv, NEW c \in Calls, boot = {}, create_session(c)
    PROVE  IInv'
<1>1. /\ Owner(c) /\ OwnerOK(c) /\ CallOK(c) /\ calls[c].s \in Sessions
      /\ calls[c].pc \notin LockPcs /\ Typed /\ calls[c].pc = "session"
      /\ journal[calls[c].s].stage \notin {None, "completed", "rolled_back"}
  BY OwnedAt DEF create_session
<1>2. PICK z \in Sessions : z = calls[c].s
  BY <1>1
<1>3. UNCHANGED <<worktrees, claims, git, lock, rest, members, durableMembers, added_by>>
  BY DEF create_session, rest
<1>4. Absent(z) /\ SessionGone(z) /\ SessionOK(z)
  BY <1>1, <1>2 DEF OwnerOK, IInv, Operations
<1>5. CASE /\ session' = [session EXCEPT ![calls[c].s] = "open"]
           /\ Record(c, "session_created", "assign") /\ UNCHANGED unclosed
  <2>1. /\ Continues(c) /\ strays \subseteq strays' /\ strays' \subseteq strays \cup members
        /\ journal' \in [Sessions -> [stage : Stages, reason : Reasons]]
        /\ \A s \in Sessions \ {z} : journal'[s] = journal[s]
        /\ journal'[z].stage \notin {None, "completed", "rolled_back"}
        /\ \/ calls'[c] = Idle
           \/ /\ calls'[c].pc = "assign" /\ calls'[c].after = calls[c].after
              /\ calls'[c].s = calls[c].s /\ calls'[c].n = calls[c].n /\ calls'[c].i = calls[c].i
              /\ calls'[c].inv = calls[c].inv /\ calls'[c].todo = calls[c].todo
              /\ calls'[c].reason = calls[c].reason /\ Owner(c)'
    <3>1. /\ "assign" \in Pcs /\ "session_created" \in Stages \ {None, "completed", "rolled_back"}
      BY WorktreeConstants DEF Stages, Pcs
    <3> QED
      BY <1>1, <1>2, <1>3, <1>5, <3>1, RecordEffect
  <2>2. /\ session' \in [Sessions -> {None, "open", "closed"}]
        /\ \A s \in Sessions \ {z} : session'[s] = session[s]
    BY <1>1, <1>2, <1>5 DEF Typed
  <2>3. TeamTyped' /\ \A s \in Sessions \ {z} : SessionKept(s)
    BY <1>1, <1>3, <1>5, <2>1, <2>2, OthersKept DEF TeamTyped, Typed
  <2>4. SessionOK(z)'
    BY <1>3, <1>4, <2>1 DEF SessionOK
  <2>5. CASE calls'[c] = Idle
    BY <1>1, <1>2, <1>3, <2>1, <2>3, <2>4, <2>5, IdleIsOK, IdleFacts, OwnMove DEF LockPcs
  <2>6. CASE /\ calls'[c].pc = "assign" /\ calls'[c].after = calls[c].after
             /\ calls'[c].s = calls[c].s /\ calls'[c].i = calls[c].i
             /\ calls'[c].inv = calls[c].inv /\ calls'[c].todo = calls[c].todo /\ Owner(c)'
    <3>1. OwnerOK(c)'
      BY <1>1, <1>2, <1>3, <1>4, <2>1, <2>6 DEF OwnerOK, Creating, Cleaning, Absent
    <3>2. CallOK(c)' /\ calls'[c].pc \notin LockPcs
      BY <1>1, <1>3, <2>6, <3>1, MovedIsOK DEF Creating, LockPcs
    <3> QED
      BY <1>1, <1>2, <1>3, <2>1, <2>3, <2>4, <2>6, <3>2, OwnMove
  <2> QED
    BY <2>1, <2>5, <2>6
<1>6. CASE /\ \/ UNCHANGED <<session, unclosed>>
              \/ /\ session' = [session EXCEPT ![calls[c].s] = "open"]
                 /\ unclosed' = unclosed \cup {calls[c].s}
           /\ Undo(c, "session_create_failed") /\ UNCHANGED <<journal, strays>>
  <2>1. /\ session' \in [Sessions -> {None, "open", "closed"}] /\ unclosed' \subseteq Sessions
        /\ unclosed \subseteq unclosed' /\ SessionGone(z)'
        /\ \A s \in Sessions \ {z} : session'[s] = session[s]
    BY <1>1, <1>2, <1>4, <1>6 DEF Typed, SessionGone
  <2>2. "session_create_failed" \in Reasons /\ Undone(z, "session_create_failed")'
    BY <1>3, <1>4, <2>1 DEF Reasons, Undone, MemberGone, Absent
  <2>3. /\ Continues(c) /\ CallOK(c)' /\ calls'[c].pc \notin LockPcs
        /\ Owner(c)' => calls'[c].s = z
    BY <1>1, <1>2, <1>3, <1>6, <2>2, UndoIsOK
  <2>4. TeamTyped' /\ \A s \in Sessions \ {z} : SessionKept(s)
    BY <1>1, <1>3, <1>6, <2>1, OthersKept DEF TeamTyped, Typed
  <2>5. SessionOK(z)'
    BY <1>1, <1>2, <1>3, <1>4, <1>6 DEF SessionOK
  <2> QED
    BY <1>1, <1>2, <1>3, <1>6, <2>3, <2>4, <2>5, OwnMove
<1> QED
  BY <1>5, <1>6 DEF create_session

(* A session that is told to close is closed, or its closing has erred. *)
LEMMA CloseEffect ==
    ASSUME Typed, NEW z \in Sessions, CloseOrForce(z)
    PROVE  /\ session' \in [Sessions -> {None, "open", "closed"}] /\ unclosed' \subseteq Sessions
           /\ unclosed \subseteq unclosed' /\ SessionGone(z)'
           /\ \A s \in Sessions \ {z} : session'[s] = session[s]
BY DEF Typed, CloseOrForce, SessionGone

LEMMA AssignStep ==
    ASSUME IInv, NEW c \in Calls, boot = {}, set_session_worktree_id(c)
    PROVE  IInv'
<1>1. /\ Owner(c) /\ OwnerOK(c) /\ CallOK(c) /\ calls[c].s \in Sessions
      /\ calls[c].pc \notin LockPcs /\ Typed /\ calls[c].pc = "assign"
      /\ journal[calls[c].s].stage \notin {None, "completed", "rolled_back"}
  BY OwnedAt DEF set_session_worktree_id
<1>2. PICK z \in Sessions : z = calls[c].s
  BY <1>1
<1>3. UNCHANGED <<worktrees, claims, git, lock, rest, journal, members, durableMembers,
                   strays, added_by>>
  BY DEF set_session_worktree_id, rest, store, memberships
<1>4. Absent(z) /\ SessionOK(z)
  BY <1>1, <1>2 DEF OwnerOK, IInv, Operations
<1>5. SessionOK(z)'
  BY <1>1, <1>2, <1>3, <1>4 DEF SessionOK
<1>6. CASE Goto(c, "join") /\ UNCHANGED <<session, unclosed>>
  <2>1. /\ Continues(c) /\ calls'[c].pc = "join" /\ calls'[c].after = calls[c].after
        /\ calls'[c].s = calls[c].s /\ calls'[c].i = calls[c].i
        /\ calls'[c].inv = calls[c].inv /\ calls'[c].todo = calls[c].todo /\ Owner(c)'
    BY <1>1, <1>6, GotoFacts DEF Pcs
  <2>2. OwnerOK(c)'
    BY <1>1, <1>3, <2>1 DEF OwnerOK, Creating, Cleaning, Absent
  <2>3. CallOK(c)' /\ calls'[c].pc \notin LockPcs
    BY <1>1, <1>3, <2>1, <2>2, MovedIsOK DEF Creating, LockPcs
  <2>4. TeamTyped' /\ \A s \in Sessions \ {z} : SessionKept(s)
    BY <1>1, <1>3, <1>6, OthersKept DEF TeamTyped, Typed
  <2> QED
    BY <1>1, <1>2, <1>3, <1>5, <2>1, <2>3, <2>4, OwnMove
<1>7. CASE CloseOrForce(calls[c].s) /\ Undo(c, "set_session_worktree_id_failed")
  <2>1. /\ session' \in [Sessions -> {None, "open", "closed"}] /\ unclosed' \subseteq Sessions
        /\ unclosed \subseteq unclosed' /\ SessionGone(z)'
        /\ \A s \in Sessions \ {z} : session'[s] = session[s]
    BY <1>1, <1>2, <1>7, CloseEffect
  <2>2. /\ "set_session_worktree_id_failed" \in Reasons
        /\ Undone(z, "set_session_worktree_id_failed")'
    BY <1>3, <1>4, <2>1 DEF Reasons, Undone, MemberGone, Absent
  <2>3. /\ Continues(c) /\ CallOK(c)' /\ calls'[c].pc \notin LockPcs
        /\ Owner(c)' => calls'[c].s = z
    BY <1>1, <1>2, <1>3, <1>7, <2>2, UndoIsOK
  <2>4. TeamTyped' /\ \A s \in Sessions \ {z} : SessionKept(s)
    BY <1>1, <1>3, <2>1, OthersKept DEF TeamTyped, Typed
  <2> QED
    BY <1>1, <1>2, <1>3, <1>5, <2>3, <2>4, OwnMove
<1> QED
  BY <1>6, <1>7 DEF set_session_worktree_id

(* The member joins: its invocation runs, and has added nobody else. *)
LEMMA JoinedInvs ==
    ASSUME IInv, NEW c \in Calls, NEW z \in Sessions, z = calls[c].s, OwnerOK(c), Absent(z),
           calls'[c].inv = calls[c].inv, calls'[c].s = z, Others(c), cache' = cache,
           UNCHANGED <<added_by, forgotten, strays>>, members' = members \cup {z}
    PROVE  InvsOK'
<1> SUFFICES ASSUME NEW k \in Invocations \ forgotten
             PROVE  InvOK(k)'
  BY DEF InvsOK
<1>1. InvOK(k) /\ None # "running"
  BY WorktreeConstants DEF IInv, Operations
<1>2. /\ \A d, e \in Calls : calls[d].inv = k /\ calls[e].inv = k => d = e
      /\ \A d \in Calls : calls[d].inv = k => cache[k] = "running"
      /\ \A r, s \in Sessions : Added(k, r) /\ Added(k, s) => r = s
      /\ \A s \in Sessions : Added(k, s) =>
            cache[k] # None /\ \A d \in Calls : calls[d].inv = k => calls[d].s = s
  BY <1>1 DEF InvOK
<1>3. \A d \in Calls : calls'[d].inv = calls[d].inv /\ calls'[d].s = calls[d].s
  BY DEF Others
<1>4. /\ \A s \in Sessions \ {z} : Added(k, s)' => Added(k, s)
      /\ Added(k, z)' => calls[c].inv = k
      /\ ~Added(k, z)
  BY DEF Added, OwnerOK, Absent
<1>5. CASE calls[c].inv = k
  <2>1. \A s \in Sessions : ~Added(k, s)
    BY <1>2, <1>4, <1>5
  <2>2. \A s \in Sessions : Added(k, s)' => s = z
    BY <1>4, <2>1
  <2>3. \A d \in Calls : calls'[d].inv = k => d = c /\ calls'[d].s = z
    BY <1>2, <1>3, <1>5
  <2>4. cache'[k] = "running"
    BY <1>2, <1>5
  <2> QED
    BY <1>1, <2>2, <2>3, <2>4 DEF InvOK
<1>6. CASE calls[c].inv # k
  <2>1. \A s \in Sessions : Added(k, s)' => Added(k, s)
    BY <1>4, <1>6
  <2> QED
    BY <1>2, <1>3, <2>1 DEF InvOK
<1> QED
  BY <1>5, <1>6

LEMMA JoinStep ==
    ASSUME IInv, NEW c \in Calls, boot = {}, join_team(c)
    PROVE  IInv'
<1>1. /\ Owner(c) /\ OwnerOK(c) /\ CallOK(c) /\ calls[c].s \in Sessions
      /\ calls[c].pc \notin LockPcs /\ Typed /\ calls[c].pc = "join"
      /\ journal[calls[c].s].stage \notin {None, "completed", "rolled_back"}
  BY OwnedAt DEF join_team
<1>2. PICK z \in Sessions : z = calls[c].s
  BY <1>1
<1>3. UNCHANGED <<worktrees, claims, git, lock, rest, journal, unclosed, added_by, forgotten>>
  BY DEF join_team, rest, store
<1>4. Absent(z) /\ SessionOK(z)
  BY <1>1, <1>2 DEF OwnerOK, IInv, Operations
<1>5. CASE /\ members' = members \cup {calls[c].s}
           /\ durableMembers' = durableMembers \cup {calls[c].s}
           /\ Goto(c, "claim") /\ UNCHANGED <<session, strays>>
  <2>1. /\ Continues(c) /\ calls'[c].pc = "claim" /\ calls'[c].after = calls[c].after
        /\ calls'[c].s = calls[c].s /\ calls'[c].i = calls[c].i
        /\ calls'[c].inv = calls[c].inv /\ calls'[c].todo = calls[c].todo /\ Owner(c)'
    BY <1>1, <1>5, GotoFacts DEF Pcs
  <2>2. OwnerOK(c)'
    BY <1>1, <1>3, <2>1 DEF OwnerOK, Creating, Cleaning
  <2>3. CallOK(c)' /\ calls'[c].pc \notin LockPcs
    BY <1>1, <1>3, <2>1, <2>2, MovedIsOK DEF Creating, LockPcs
  <2>4. TeamTyped' /\ \A s \in Sessions \ {z} : SessionKept(s)
    BY <1>1, <1>2, <1>3, <1>5, OthersKept DEF TeamTyped, Typed
  <2>5. SessionOK(z)'
    BY <1>1, <1>2, <1>3, <1>5 DEF SessionOK
  <2>6. InvsOK'
    BY <1>1, <1>2, <1>3, <1>4, <1>5, <2>1, JoinedInvs DEF Continues, Goto
  <2>7. \A d \in Calls : d # c /\ Owner(d) => calls[d].s # z
    BY <1>1, <1>2 DEF IInv, Handlers, Owners
  <2>8. /\ calls' \in [Calls -> CallType] /\ cache' \in [Invocations -> {None, "running", "done"}]
        /\ Others(c) /\ UNCHANGED <<worktrees, claims, git, lock, forgotten, scope, boot, crashes>>
    BY <1>3, <2>1 DEF Continues, rest
  <2> QED
    BY <1>1, <1>2, <2>1, <2>3, <2>4, <2>5, <2>6, <2>7, <2>8, OwnStep
<1>6. CASE /\ \/ UNCHANGED <<members, strays>>
              \/ /\ members' = members \cup {calls[c].s}
                 /\ strays' = strays \cup {calls[c].s}
           /\ \/ session' = [session EXCEPT ![calls[c].s] = "closed"]
              \/ UNCHANGED session
           /\ Undo(c, "team_join_failed") /\ UNCHANGED durableMembers
  <2>1. /\ session' \in [Sessions -> {None, "open", "closed"}]
        /\ \A s \in Sessions \ {z} : session'[s] = session[s]
    BY <1>1, <1>2, <1>6 DEF Typed
  <2>2. /\ members' \ {z} = members \ {z} /\ members' \subseteq Sessions
        /\ strays \subseteq strays' /\ strays' \subseteq Sessions
        /\ z \in members' => z \in strays'
    BY <1>1, <1>2, <1>4, <1>6 DEF Typed, Absent
  <2>3. "team_join_failed" \in Reasons /\ Undone(z, "team_join_failed")'
    BY <1>4, <1>6, <2>2 DEF Reasons, Undone, MemberGone, Absent
  <2>4. /\ Continues(c) /\ CallOK(c)' /\ calls'[c].pc \notin LockPcs
        /\ Owner(c)' => calls'[c].s = z
    BY <1>1, <1>2, <1>3, <1>6, <2>3, UndoIsOK
  <2>5. TeamTyped' /\ \A s \in Sessions \ {z} : SessionKept(s)
    BY <1>1, <1>3, <1>6, <2>1, <2>2, OthersKept DEF TeamTyped, Typed
  <2>6. SessionOK(z)'
    BY <1>1, <1>2, <1>3, <1>4, <1>6, <2>2 DEF SessionOK, Absent
  <2> QED
    BY <1>1, <1>2, <1>3, <2>2, <2>4, <2>5, <2>6, OwnMove
<1> QED
  BY <1>5, <1>6 DEF join_team

LEMMA RollbackStep ==
    ASSUME IInv, NEW c \in Calls, boot = {}, rollback_spawn_after_join(c)
    PROVE  IInv'
<1>1. /\ Owner(c) /\ OwnerOK(c) /\ CallOK(c) /\ calls[c].s \in Sessions
      /\ calls[c].pc \notin LockPcs /\ Typed /\ calls[c].pc = "rollback"
      /\ journal[calls[c].s].stage \notin {None, "completed", "rolled_back"}
  BY OwnedAt DEF rollback_spawn_after_join
<1>2. PICK z \in Sessions : z = calls[c].s
  BY <1>1
<1>3. UNCHANGED <<worktrees, claims, git, lock, rest, journal, added_by>>
  BY DEF rollback_spawn_after_join, rest, store
<1>4. SessionOK(z)
  BY DEF IInv, Operations
<1>5. /\ members' \ {z} = members \ {z} /\ members' \subseteq members
      /\ durableMembers' \ {z} = durableMembers \ {z} /\ durableMembers' \subseteq durableMembers
      /\ strays \subseteq strays' /\ strays' \subseteq Sessions
      /\ z \in members' \cup durableMembers' => z \in strays'
  <2>1. MemberLeaves(z) \/ MemberLeavesMemory(z) \/ MemberStays(z)
    BY <1>2 DEF rollback_spawn_after_join
  <2>2. CASE MemberLeaves(z)
    BY <1>1, <2>2 DEF MemberLeaves, Typed
  <2>3. CASE MemberLeavesMemory(z)
    BY <1>1, <2>3 DEF MemberLeavesMemory, Typed
  <2>4. CASE MemberStays(z)
    BY <1>1, <1>4, <2>4 DEF MemberStays, Typed, SessionOK
  <2> QED
    BY <2>1, <2>2, <2>3, <2>4
<1>6. /\ session' \in [Sessions -> {None, "open", "closed"}] /\ unclosed' \subseteq Sessions
      /\ unclosed \subseteq unclosed' /\ SessionGone(z)'
      /\ \A s \in Sessions \ {z} : session'[s] = session[s]
  BY <1>1, <1>2, CloseEffect DEF rollback_spawn_after_join
<1>7. TeamTyped' /\ \A s \in Sessions \ {z} : SessionKept(s)
  BY <1>1, <1>3, <1>5, <1>6, OthersKept DEF TeamTyped, Typed
<1>8. /\ Continues(c) /\ calls'[c].pc = "rollback_claim" /\ calls'[c].after = calls[c].after
      /\ calls'[c].s = calls[c].s /\ calls'[c].i = calls[c].i
      /\ calls'[c].inv = calls[c].inv /\ calls'[c].todo = calls[c].todo /\ Owner(c)'
  BY <1>1, GotoFacts DEF Pcs, rollback_spawn_after_join
<1>9. MemberGone(z)' /\ SessionOK(z)'
  BY <1>1, <1>2, <1>3, <1>5 DEF MemberGone, Absent, SessionOK
<1>10. OwnerOK(c)'
  BY <1>1, <1>2, <1>3, <1>6, <1>8, <1>9
  DEF OwnerOK, Creating, Cleaning, MemberGone, Absent, SessionGone
<1>11. CallOK(c)' /\ calls'[c].pc \notin LockPcs
  BY <1>1, <1>3, <1>8, <1>10, MovedIsOK DEF Creating, LockPcs
<1> QED
  BY <1>1, <1>2, <1>3, <1>5, <1>7, <1>8, <1>9, <1>11, OwnMove

LEMMA RolledBackStep ==
    ASSUME IInv, NEW c \in Calls, boot = {}, RolledBack(c)
    PROVE  IInv'
<1>1. /\ Owner(c) /\ OwnerOK(c) /\ CallOK(c) /\ calls[c].s \in Sessions
      /\ calls[c].pc \notin LockPcs /\ Typed /\ calls[c].pc = "rolled_back"
      /\ journal[calls[c].s].stage \notin {None, "completed", "rolled_back"} /\ calls[c] \in CallType
  BY OwnedAt DEF RolledBack
<1>2. PICK z \in Sessions, reason \in Reasons : z = calls[c].s /\ reason = calls[c].reason
  BY <1>1 DEF CallType
<1>3. /\ UNCHANGED <<worktrees, claims, git, lock, rest, session, unclosed, added_by>>
      /\ UNCHANGED <<members, durableMembers, strays>>
  BY DEF RolledBack, team, memberships, rest
<1>4. Undone(z, reason)' /\ ~LeavesMember(c) /\ SessionOK(z)
  BY <1>1, <1>2, <1>3
  DEF OwnerOK, LeavesMember, IInv, Operations, Undone, Absent, MemberGone, SessionGone
<1>5. /\ Continues(c) /\ calls'[c].pc \notin LockPcs /\ CallOK(c)' /\ ~Owner(c)'
  BY <1>4, ReturnIsOK DEF RolledBack
<1>6. /\ journal' \in [Sessions -> [stage : Stages, reason : Reasons]]
      /\ \A s \in Sessions \ {z} : journal'[s] = journal[s]
      /\ journal'[z].stage \notin {None, "completed"}
      /\ journal'[z].stage = "rolled_back" => journal'[z].reason = reason
  <2>1. CASE Journal(calls[c].s, "rolled_back", calls[c].reason)
    <3>1. Journal(z, "rolled_back", reason) /\ "rolled_back" \in Stages
      BY <1>2, <2>1 DEF Stages
    <3> QED
      BY <1>1, <3>1, JournalEffect, WorktreeConstants
  <2>2. CASE UNCHANGED journal
    BY <1>1, <1>2, <2>2 DEF Typed
  <2> QED
    BY <2>1, <2>2 DEF RolledBack
<1>7. SessionOK(z)'
  BY <1>3, <1>4, <1>6 DEF SessionOK
<1>8. TeamTyped' /\ \A s \in Sessions \ {z} : SessionKept(s)
  BY <1>1, <1>3, <1>6, OthersKept DEF TeamTyped, Typed
<1> QED
  BY <1>1, <1>2, <1>3, <1>5, <1>7, <1>8, OwnMove

LEMMA OnboardingStep ==
    ASSUME IInv, NEW c \in Calls, boot = {}, SendOnboarding(c)
    PROVE  IInv'
<1>1. /\ Owner(c) /\ OwnerOK(c) /\ CallOK(c) /\ calls[c].s \in Sessions
      /\ calls[c].pc \notin LockPcs /\ Typed /\ calls[c].pc = "onboard"
      /\ journal[calls[c].s].stage \notin {None, "completed", "rolled_back"} /\ calls[c] \in CallType
  BY OwnedAt DEF SendOnboarding
<1>2. PICK z \in Sessions : z = calls[c].s
  BY <1>1
<1>3. UNCHANGED <<worktrees, claims, git, lock, rest, session, unclosed, members, durableMembers,
                   added_by>>
  BY DEF SendOnboarding, rest
<1>4. None \in Reasons /\ {"completed", "onboarding_sent"} \subseteq Stages
  BY DEF Reasons, Stages
<1>5. ASSUME Continues(c), CallOK(c)', calls'[c].pc \notin LockPcs, Owner(c)' => calls'[c].s = z,
             strays \subseteq strays', strays' \subseteq strays \cup members,
             \/ journal' = journal
             \/ \E stage \in {"onboarding_sent", "completed"} : Advance(calls[c].s, stage)
      PROVE  IInv'
  <2>1. /\ journal' \in [Sessions -> [stage : Stages, reason : Reasons]]
        /\ journal'[z].stage \notin {None, "rolled_back"}
        /\ \A s \in Sessions \ {z} : journal'[s] = journal[s]
    <3>1. CASE journal' = journal
      BY <1>1, <1>2, <3>1 DEF Typed
    <3>2. CASE \E stage \in {"onboarding_sent", "completed"} : Advance(calls[c].s, stage)
      <4>1. PICK stage \in {"onboarding_sent", "completed"} : Journal(z, stage, None)
        BY <1>2, <3>2 DEF Advance
      <4> QED
        BY <1>1, <1>4, <4>1, JournalEffect, WorktreeConstants
    <3> QED
      BY <1>5, <3>1, <3>2
  <2>2. TeamTyped' /\ \A s \in Sessions \ {z} : SessionKept(s)
    BY <1>1, <1>3, <1>5, <2>1, OthersKept DEF TeamTyped, Typed
  <2>3. SessionOK(z)'
    BY <1>3, <1>5, <2>1 DEF SessionOK, IInv, Operations
  <2> QED
    BY <1>1, <1>2, <1>3, <1>5, <2>1, <2>2, <2>3, OwnMove
<1>6. CASE Advance(calls[c].s, "completed") /\ Return(c, TRUE) /\ UNCHANGED strays
  BY <1>5, <1>6, ReturnIsOK
<1>7. CASE ErrRecording(c) /\ (UNCHANGED journal \/ Advance(calls[c].s, "onboarding_sent"))
  BY <1>1, <1>3, <1>5, <1>7, ErrEffect, IdleIsOK, IdleFacts DEF LockPcs
<1>8. CASE /\ calls' = [calls EXCEPT ![c].pc = "rollback",
                                     ![c].reason = "spawn_onboarding_failed_after_join"]
           /\ UNCHANGED <<journal, strays, cache>>
  <2> DEFINE k == [calls[c] EXCEPT !.pc = "rollback", !.reason = "spawn_onboarding_failed_after_join"]
  <2>1. /\ k \in CallType /\ k.pc = "rollback" /\ k.after = calls[c].after /\ k.s = calls[c].s
        /\ k.inv = calls[c].inv /\ k.i = calls[c].i /\ k.todo = calls[c].todo
    BY <1>1 DEF CallType, Pcs, Reasons
  <2>2. calls' = [calls EXCEPT ![c] = k] /\ cache' = cache
    BY <1>8
  <2> HIDE DEF k
  <2>3. Continues(c) /\ calls'[c] = k
    BY <1>1, <2>1, <2>2, MoveEffect
  <2>4. Owner(c)' /\ calls'[c].pc \notin LockPcs
    BY <1>1, <2>1, <2>3 DEF Owner, LockPcs
  <2>5. OwnerOK(c)'
    BY <1>1, <1>3, <1>8, <2>1, <2>3 DEF OwnerOK, Creating, Cleaning
  <2>6. CallOK(c)'
    BY <1>1, <1>3, <2>1, <2>3, <2>4, <2>5, MovedIsOK DEF Creating
  <2> QED
    BY <1>2, <1>5, <1>8, <2>1, <2>3, <2>4, <2>6
<1> QED
  BY <1>6, <1>7, <1>8 DEF SendOnboarding

(* A new operation, of an invocation that is not running and has added nobody. *)
LEMMA SpawnedInvs ==
    ASSUME IInv, NEW c \in Calls, NEW s \in Sessions, NEW inv \in Invocations \cup {None},
           begin_manage_add(inv), Others(c), forgotten' = forgotten,
           Absent(s), UNCHANGED <<members, strays>>,
           added_by' = [added_by EXCEPT ![s] = inv],
           calls[c].inv = None,
           \/ calls'[c].inv = None /\ cache' = cache
           \/ /\ calls'[c].inv = inv
              /\ cache' = IF inv = None THEN cache ELSE [cache EXCEPT ![inv] = "running"]
    PROVE  InvsOK'
<1> SUFFICES ASSUME NEW k \in Invocations \ forgotten
             PROVE  InvOK(k)'
  BY DEF InvsOK
<1>1. k # None /\ InvOK(k) /\ Typed /\ None \notin {"running", "done"}
  BY WorktreeConstants DEF IInv, Operations
<1>2. /\ \A d, e \in Calls : calls[d].inv = k /\ calls[e].inv = k => d = e
      /\ \A d \in Calls : calls[d].inv = k => cache[k] = "running"
      /\ \A r, t \in Sessions : Added(k, r) /\ Added(k, t) => r = t
      /\ \A r \in Sessions : Added(k, r) =>
            cache[k] # None /\ \A d \in Calls : calls[d].inv = k => calls[d].s = r
  BY <1>1 DEF InvOK
<1>3. \A r \in Sessions : Added(k, r)' => Added(k, r)
  BY <1>1 DEF Added, Typed, Absent
<1>4. \A d \in Calls : d # c => calls'[d] = calls[d]
  BY DEF Others
<1>5. CASE calls'[c].inv = k
  <2>1. inv = k /\ cache[k] = None /\ cache'[k] = "running"
    BY <1>1, <1>5 DEF begin_manage_add, Typed
  <2>2. /\ \A d \in Calls : calls'[d].inv = k => d = c
        /\ \A r \in Sessions : ~Added(k, r)'
    BY <1>1, <1>2, <1>3, <1>4, <2>1
  <2> QED
    BY <2>1, <2>2 DEF InvOK
<1>6. CASE calls'[c].inv # k
  <2>1. cache'[k] = cache[k]
    BY <1>1, <1>6 DEF Typed
  <2>2. \A d \in Calls : calls'[d].inv = k => calls[d].inv = k /\ calls'[d].s = calls[d].s
    BY <1>4, <1>6
  <2>3. \A d, e \in Calls : calls'[d].inv = k /\ calls'[e].inv = k => d = e
    BY <1>2, <2>2
  <2>4. \A d \in Calls : calls'[d].inv = k => cache'[k] = "running"
    BY <1>2, <2>1, <2>2
  <2>5. /\ \A r, t \in Sessions : Added(k, r)' /\ Added(k, t)' => r = t
        /\ \A r \in Sessions : Added(k, r)' =>
              cache'[k] # None /\ \A d \in Calls : calls'[d].inv = k => calls'[d].s = r
    BY <1>2, <1>3, <2>1, <2>2
  <2> QED
    BY <2>3, <2>4, <2>5 DEF InvOK
<1> QED
  BY <1>5, <1>6

LEMMA SpawnStep ==
    ASSUME IInv, NEW c \in Calls, NEW s \in Sessions, NEW mode \in Modes, NEW n \in Names \cup {None},
           mode # "none" => n \in Names, NEW inv \in Invocations \cup {None}, boot = {},
           spawn_team_member(c, s, mode, n, inv)
    PROVE  IInv'
<1>1. /\ calls[c].pc = "idle" /\ calls[c].pc \notin LockPcs /\ journal[s].stage = None
      /\ session[s] = None /\ begin_manage_add(inv) /\ CallOK(c) /\ Typed
  BY DEF spawn_team_member, LockPcs, IInv, Handlers
<1>2. /\ UNCHANGED <<worktrees, claims, git, lock, forgotten, scope, boot, crashes, session, unclosed>>
      /\ UNCHANGED <<members, durableMembers, strays>>
      /\ added_by' = [added_by EXCEPT ![s] = inv] /\ Journal(s, "planned", None)
  BY DEF spawn_team_member, team, memberships, Advance
<1>3. ~Owner(c) /\ calls[c].inv = None
  BY <1>1 DEF CallOK, OwnerOK
<1>4. /\ journal' \in [Sessions -> [stage : Stages, reason : Reasons]]
      /\ journal'[s].stage = "planned"
      /\ \A r \in Sessions \ {s} : journal'[r] = journal[r]
  <2>1. "planned" \in Stages /\ None \in Reasons
    BY DEF Stages, Reasons
  <2> QED
    BY <1>1, <1>2, <2>1, JournalEffect
<1>5. Absent(s) /\ Absent(s)' /\ SessionGone(s)'
  <2>1. Absent(s)
    BY <1>1 DEF IInv, Operations, SessionOK
  <2>2. None # "open"
    BY WorktreeConstants
  <2> QED
    BY <1>1, <1>2, <2>1, <2>2 DEF Absent, SessionGone
<1>6. \A d \in Calls : d # c /\ Owner(d) => calls[d].s # s
  BY <1>1 DEF IInv, Handlers, CallOK, OwnerOK
<1>7. TeamTyped' /\ \A r \in Sessions \ {s} : SessionKept(r)
  BY <1>1, <1>2, <1>4 DEF TeamTyped, Typed, SessionKept, MembershipKept
<1>8. SessionOK(s)'
  BY <1>4, <1>5 DEF SessionOK, Absent
<1>9. CASE /\ calls' = [calls EXCEPT ![c] =
                 [Idle EXCEPT !.pc = CASE mode = "create" -> "create_lock"
                                       [] mode = "reuse" -> "reuse"
                                       [] OTHER -> "session",
                              !.after = IF mode = "create" THEN "worktree_created" ELSE "session",
                              !.s = s, !.n = n, !.inv = inv]]
           /\ cache' = IF inv = None THEN cache ELSE [cache EXCEPT ![inv] = "running"]
  <2>1. PICK pc \in {"create_lock", "reuse", "session"}, after \in {"worktree_created", "session"} :
           /\ pc = CASE mode = "create" -> "create_lock"
                     [] mode = "reuse" -> "reuse"
                     [] OTHER -> "session"
           /\ after = IF mode = "create" THEN "worktree_created" ELSE "session"
           /\ pc \in {"create_lock", "reuse"} => n \in Names
    BY DEF Modes
  <2> DEFINE k == [Idle EXCEPT !.pc = pc, !.after = after, !.s = s, !.n = n, !.inv = inv]
  <2>2. /\ k \in CallType /\ k.pc = pc /\ k.after = after /\ k.s = s /\ k.n = n /\ k.inv = inv
        /\ k.i = None /\ k.todo = {}
    BY DEF Idle, CallType, Pcs, Reasons, Policies
  <2>3. calls' = [calls EXCEPT ![c] = k]
    BY <1>9, <2>1
  <2> HIDE DEF k
  <2>4. calls' \in [Calls -> CallType] /\ calls'[c] = k /\ Others(c)
    BY <1>1, <2>2, <2>3 DEF Typed, Others
  <2>5. cache' \in [Invocations -> {None, "running", "done"}]
    BY <1>1, <1>9 DEF Typed
  <2>6. Owner(c)' /\ calls'[c].pc \notin LockPcs /\ calls'[c].s = s
    BY <2>1, <2>2, <2>4 DEF Owner, LockPcs
  <2>7. OwnerOK(c)'
    <3>1. added_by'[s] = inv
      BY <1>1, <1>2 DEF Typed
    <3> QED
      BY <1>4, <1>5, <2>1, <2>2, <2>4, <3>1, WorktreeConstants
      DEF OwnerOK, Creating, Cleaning, Absent, SessionGone
  <2>8. CallOK(c)'
    BY <2>1, <2>2, <2>4, <2>6, <2>7 DEF CallOK, Creating
  <2>9. InvsOK'
    BY <1>1, <1>2, <1>3, <1>5, <1>9, <2>2, <2>4, SpawnedInvs
  <2> QED
    BY <1>1, <1>2, <1>6, <1>7, <1>8, <2>4, <2>5, <2>6, <2>8, <2>9, OwnStep
<1>10. CASE UNCHANGED <<calls, cache>>
  <2>1. /\ calls' \in [Calls -> CallType] /\ cache' \in [Invocations -> {None, "running", "done"}]
        /\ Others(c) /\ RowsGrow
    BY <1>1, <1>2, <1>10 DEF Typed, Others, RowsGrow
  <2>2. CallOK(c)' /\ ~Owner(c)'
    BY <1>1, <1>3, <1>10, <2>1, CallKept DEF Owner
  <2>3. InvsOK'
    BY <1>1, <1>2, <1>3, <1>5, <1>10, <2>1, SpawnedInvs
  <2> QED
    BY <1>1, <1>2, <1>6, <1>7, <1>8, <1>10, <2>1, <2>2, <2>3, OwnStep
<1> QED
  BY <1>9, <1>10 DEF spawn_team_member

-----------------------------------------------------------------------------
(* What repair_startup_state writes *)

LEMMA Partition ==
    ASSUME NEW rows
    PROVE  /\ Known(rows) = Winners(rows) \cup Losers(rows) \cup Malformed(rows)
           /\ Winners(rows) \cap Losers(rows) = {} /\ Winners(rows) \cap Malformed(rows) = {}
           /\ Losers(rows) \cap Malformed(rows) = {} /\ Known(rows) \subseteq Ids
BY DEF Winners, Losers, Malformed, Known

LEMMA RepairedRows ==
    ASSUME NEW rows \in Rows, NEW i \in Known(rows)
    PROVE  MergedWinner(rows, i) \in Row /\ tombstone_record(rows[i]) \in Row
<1>1. rows[i] \in Row
  BY DEF Rows, Known
<1>2. PICK policy \in Policies :
         policy = merge_deletion_policy({rows[j].policy : j \in Duplicates(rows, i)})
  BY DEF merge_deletion_policy, Policies
<1>3. MergedWinner(rows, i) = [rows[i] EXCEPT !.padded = FALSE, !.policy = policy]
  BY <1>2 DEF MergedWinner
<1>4. MergedWinner(rows, i) \in Row
  BY <1>1, <1>3 DEF Row
<1>5. tombstone_record(rows[i]) \in Row
  BY <1>1 DEF Row, tombstone_record, Policies
<1> QED
  BY <1>4, <1>5

(* A merged claim that stays held was released under no key of the worktree. *)
LEMMA MergedClaims ==
    ASSUME NEW rows \in Rows, NEW held \in Claims, NEW i \in Winners(rows) \cup Malformed(rows),
           NEW s \in Sessions
    PROVE  /\ MergedClaim(rows, held, i, s) \in ClaimStates
           /\ held[i][s] # None => MergedClaim(rows, held, i, s) # None
           /\ MergedClaim(rows, held, i, s) = "active" =>
                 i \in Winners(rows) /\ held[i][s] # "released"
<1>1. i \in Known(rows) /\ i \in Ids /\ None \notin {"active", "released"}
  BY Partition, StoreConstants
<1>2. CASE i \in Malformed(rows)
  BY <1>1, <1>2 DEF MergedClaim, ClaimStates
<1>3. CASE i \notin Malformed(rows)
  <2> DEFINE states == {held[j][s] : j \in Duplicates(rows, i)} \ {None}
  <2>1. i \in Duplicates(rows, i)
    BY <1>1 DEF Duplicates
  <2>2. MergedClaim(rows, held, i, s) = merge_released_at(states)
    BY <1>3 DEF MergedClaim
  <2>3. held[i][s] # None => held[i][s] \in states
    BY <2>1
  <2> HIDE DEF states
  <2>4. /\ merge_released_at(states) \in ClaimStates
        /\ states # {} => merge_released_at(states) # None
        /\ merge_released_at(states) = "active" => "released" \notin states
    BY <1>1 DEF merge_released_at, ClaimStates
  <2>5. held[i][s] # None => merge_released_at(states) # None
    BY <2>3, <2>4
  <2>6. merge_released_at(states) = "active" => held[i][s] # "released"
    BY <1>1, <2>3, <2>4
  <2> QED
    BY <1>3, <2>2, <2>4, <2>5, <2>6
<1> QED
  BY <1>2, <1>3

(* Of the claims of a session, only the one on the oldest worktree stays. *)
LEMMA RepairedClaims ==
    ASSUME NEW rows \in Rows, NEW held \in Claims, NEW i \in Winners(rows) \cup Malformed(rows),
           NEW s \in Sessions, MergedClaim(rows, held, i, s) # None
    PROVE  /\ RepairedClaim(rows, held, i, s) \in {"active", "released"}
           /\ RepairedClaim(rows, held, i, s) = "active" =>
                 /\ held[i][s] # "released"
                 /\ i = Oldest(rows, {v \in Winners(rows) : MergedClaim(rows, held, v, s) = "active"})
<1>1. /\ MergedClaim(rows, held, i, s) \in {"active", "released"}
      /\ MergedClaim(rows, held, i, s) = "active" => i \in Winners(rows) /\ held[i][s] # "released"
  BY MergedClaims DEF ClaimStates
<1> DEFINE kept == {v \in Winners(rows) : MergedClaim(rows, held, v, s) = "active"}
<1>2. RepairedClaim(rows, held, i, s) =
         IF i \in kept /\ i # Oldest(rows, kept) THEN "released" ELSE MergedClaim(rows, held, i, s)
  BY DEF RepairedClaim
<1>3. MergedClaim(rows, held, i, s) = "active" => i \in kept
  BY <1>1
<1> QED
  BY <1>1, <1>2, <1>3

RepairedRow(rows, w) == w \in RowWrite /\ w.id \in Known(rows)

KeptClaim(rows, held, w) ==
    /\ w \in ClaimWrite /\ w.phase = 4 /\ w.id \in Winners(rows) \cup Malformed(rows)
    /\ MergedClaim(rows, held, w.id, w.session) # None
    /\ w.state = RepairedClaim(rows, held, w.id, w.session)

DroppedClaim(rows, held, w) ==
    w \in ClaimWrite /\ w.phase = 5 /\ w.id \in Losers(rows) /\ w.state = "released"

LEMMA RepairWrites ==
    ASSUME NEW rows \in Rows, NEW held \in Claims, NEW w \in repair_startup_state(rows, held)
    PROVE  RepairedRow(rows, w) \/ KeptClaim(rows, held, w) \/ DroppedClaim(rows, held, w)
<1>1. ASSUME NEW phase \in 1..3, NEW i \in Known(rows), NEW r \in Row,
             w = [phase |-> phase, id |-> i, row |-> r]
      PROVE  RepairedRow(rows, w)
  BY <1>1 DEF RepairedRow, RowWrite, Known
<1>2. /\ Winners(rows) \subseteq Known(rows) /\ Losers(rows) \subseteq Known(rows)
      /\ Malformed(rows) \subseteq Known(rows) /\ Known(rows) \subseteq Ids
  BY Partition
<1>3. CASE \E i \in Winners(rows) : w = [phase |-> 1, id |-> i, row |-> MergedWinner(rows, i)]
  BY <1>1, <1>2, <1>3, RepairedRows
<1>4. CASE \E i \in Losers(rows) : w = [phase |-> 2, id |-> i, row |-> tombstone_record(rows[i])]
  BY <1>1, <1>2, <1>4, RepairedRows
<1>5. CASE \E i \in Malformed(rows) : w = [phase |-> 3, id |-> i, row |-> tombstone_record(rows[i])]
  BY <1>1, <1>2, <1>5, RepairedRows
<1>6. CASE \E i \in Winners(rows) \cup Malformed(rows), s \in Sessions :
              /\ MergedClaim(rows, held, i, s) # None
              /\ w = [phase |-> 4, id |-> i, session |-> s, state |-> RepairedClaim(rows, held, i, s)]
  <2>1. PICK i \in Winners(rows) \cup Malformed(rows), s \in Sessions :
           /\ MergedClaim(rows, held, i, s) # None
           /\ w = [phase |-> 4, id |-> i, session |-> s, state |-> RepairedClaim(rows, held, i, s)]
    BY <1>6
  <2>2. PICK v \in {"active", "released"} : v = RepairedClaim(rows, held, i, s)
    BY <2>1, RepairedClaims
  <2>3. w \in ClaimWrite /\ w.phase = 4 /\ w.id = i /\ w.session = s /\ w.state = v
    BY <1>2, <2>1, <2>2 DEF ClaimWrite
  <2> QED
    BY <2>1, <2>2, <2>3 DEF KeptClaim
<1>7. CASE \E i \in Losers(rows), s \in Sessions :
              w = [phase |-> 5, id |-> i, session |-> s, state |-> "released"]
  BY <1>2, <1>7 DEF DroppedClaim, ClaimWrite
<1> QED
  BY <1>3, <1>4, <1>5, <1>6, <1>7 DEF repair_startup_state

(* Every claim is written, and some write is made if there is a row. *)
LEMMA RepairCovers ==
    ASSUME NEW rows \in Rows, NEW held \in Claims, NEW i \in Known(rows)
    PROVE  /\ repair_startup_state(rows, held) # {}
           /\ \A s \in Sessions : held[i][s] # None =>
                 \E w \in repair_startup_state(rows, held) : Writes(w, i, s)
<1>1. CASE i \in Losers(rows)
  <2>1. [phase |-> 2, id |-> i, row |-> tombstone_record(rows[i])] \in repair_startup_state(rows, held)
    BY <1>1 DEF repair_startup_state
  <2>2. ASSUME NEW s \in Sessions, held[i][s] # None
        PROVE  \E w \in repair_startup_state(rows, held) : Writes(w, i, s)
    <3> DEFINE dropped == {k \in Losers(rows) \X Sessions : held[k[1]][k[2]] # None}
    <3>1. <<i, s>> \in dropped
      BY <1>1, <2>2
    <3>2. {[phase |-> 5, id |-> k[1], session |-> k[2], state |-> "released"] : k \in dropped}
             \subseteq repair_startup_state(rows, held)
      BY DEF repair_startup_state
    <3> HIDE DEF dropped
    <3>3. [phase |-> 5, id |-> i, session |-> s, state |-> "released"]
             \in repair_startup_state(rows, held)
      BY <3>1, <3>2
    <3> QED
      BY <3>3 DEF Writes
  <2> QED
    BY <2>1, <2>2
<1>2. CASE i \in Winners(rows) \cup Malformed(rows)
  <2>1. repair_startup_state(rows, held) # {}
    <3>1. CASE i \in Winners(rows)
      <4>1. [phase |-> 1, id |-> i, row |-> MergedWinner(rows, i)]
               \in repair_startup_state(rows, held)
        BY <3>1 DEF repair_startup_state
      <4> QED
        BY <4>1
    <3>2. CASE i \in Malformed(rows)
      <4>1. [phase |-> 3, id |-> i, row |-> tombstone_record(rows[i])]
               \in repair_startup_state(rows, held)
        BY <3>2 DEF repair_startup_state
      <4> QED
        BY <4>1
    <3> QED
      BY <1>2, <3>1, <3>2
  <2>2. ASSUME NEW s \in Sessions, held[i][s] # None
        PROVE  \E w \in repair_startup_state(rows, held) : Writes(w, i, s)
    <3>1. MergedClaim(rows, held, i, s) # None
      BY <1>2, <2>2, MergedClaims
    <3>2. <<i, s>> \in {k \in (Winners(rows) \cup Malformed(rows)) \X Sessions :
                          MergedClaim(rows, held, k[1], k[2]) # None}
      BY <1>2, <3>1
    <3>3. [phase |-> 4, id |-> i, session |-> s, state |-> RepairedClaim(rows, held, i, s)]
             \in repair_startup_state(rows, held)
      BY <3>2 DEF repair_startup_state
    <3> QED
      BY <3>3 DEF Writes
  <2> QED
    BY <2>1, <2>2
<1> QED
  BY <1>1, <1>2, Partition

(* The writes that a startup begins with. *)
LEMMA RepairStarts ==
    ASSUME NEW rows \in Rows, NEW held \in Claims,
           \A i \in Ids, s \in Sessions : held[i][s] # None => rows[i] # None
    PROVE  /\ repair_startup_state(rows, held) \subseteq RowWrite \cup ClaimWrite
           /\ RepairOK(rows, held, repair_startup_state(rows, held))
           /\ OneEach(held, repair_startup_state(rows, held))
<1>1. PICK todo : todo = repair_startup_state(rows, held)
  OBVIOUS
<1>2. \A w \in todo : RepairedRow(rows, w) \/ KeptClaim(rows, held, w) \/ DroppedClaim(rows, held, w)
  BY <1>1, RepairWrites
<1>3. todo \subseteq RowWrite \cup ClaimWrite
  BY <1>2 DEF RepairedRow, KeptClaim, DroppedClaim
<1>4. \A w \in todo : rows[w.id] # None
  BY <1>2, Partition DEF RepairedRow, KeptClaim, DroppedClaim, Known
<1>5. ASSUME NEW w \in todo, NEW i, NEW s, Writes(w, i, s)
      PROVE  /\ w \in ClaimWrite /\ w.id = i /\ w.session = s /\ i \in Ids /\ s \in Sessions
             /\ KeptClaim(rows, held, w) \/ DroppedClaim(rows, held, w)
  <2>1. w.id = i /\ w.session = s /\ w.phase > 3
    BY <1>5 DEF Writes
  <2>2. ~RepairedRow(rows, w)
    BY <2>1 DEF RepairedRow, RowWrite
  <2>3. KeptClaim(rows, held, w) \/ DroppedClaim(rows, held, w)
    BY <1>2, <2>2
  <2>4. w \in ClaimWrite
    BY <2>3 DEF KeptClaim, DroppedClaim
  <2>5. w.id \in Ids /\ w.session \in Sessions
    BY <2>4 DEF ClaimWrite
  <2> QED
    BY <2>1, <2>3, <2>4, <2>5
<1>6. ASSUME NEW i \in Ids, NEW s \in Sessions, NEW v \in todo, NEW w \in todo,
             Writes(v, i, s), Writes(w, i, s)
      PROVE  v = w
  <2>1. /\ v \in ClaimWrite /\ w \in ClaimWrite /\ v.id = w.id /\ v.session = w.session
        /\ KeptClaim(rows, held, v) \/ DroppedClaim(rows, held, v)
        /\ KeptClaim(rows, held, w) \/ DroppedClaim(rows, held, w)
    BY <1>5, <1>6
  <2>2. v.phase = w.phase /\ v.state = w.state
    BY <2>1, Partition DEF KeptClaim, DroppedClaim
  <2> QED
    BY <2>1, <2>2 DEF ClaimWrite
<1>7. ASSUME NEW i \in Ids, NEW s \in Sessions, NEW w \in todo, Writes(w, i, s), w.state = "active"
      PROVE  /\ held[i][s] # "released"
             /\ i = Oldest(rows, {v \in Winners(rows) : MergedClaim(rows, held, v, s) = "active"})
  <2>1. KeptClaim(rows, held, w) /\ w.id = i /\ w.session = s
    BY <1>5, <1>7 DEF DroppedClaim
  <2>2. /\ i \in Winners(rows) \cup Malformed(rows) /\ MergedClaim(rows, held, i, s) # None
        /\ RepairedClaim(rows, held, i, s) = "active"
    BY <1>7, <2>1 DEF KeptClaim
  <2> QED
    BY <2>2, RepairedClaims
<1>8. RepairOK(rows, held, todo)
  BY <1>4, <1>6, <1>7 DEF RepairOK
<1>9. ASSUME NEW i \in Ids, NEW s \in Sessions, WillHold(held, todo, i, s)
      PROVE  \E w \in todo : Writes(w, i, s) /\ w.state = "active"
  <2>1. CASE \E w \in todo : Writes(w, i, s)
    BY <1>9, <2>1 DEF WillHold
  <2>2. CASE ~ \E w \in todo : Writes(w, i, s)
    <3>1. held[i][s] = "active" /\ held[i][s] # None
      BY <1>9, <2>2, StoreConstants DEF WillHold
    <3>2. i \in Known(rows)
      BY <3>1 DEF Known
    <3> QED
      BY <1>1, <2>2, <3>1, <3>2, RepairCovers
  <2> QED
    BY <2>1, <2>2
<1>10. OneEach(held, todo)
  <2> SUFFICES ASSUME NEW i \in Ids, NEW j \in Ids, NEW s \in Sessions,
                      WillHold(held, todo, i, s), WillHold(held, todo, j, s)
               PROVE  i = j
    BY DEF OneEach
  <2>1. /\ \E w \in todo : Writes(w, i, s) /\ w.state = "active"
        /\ \E w \in todo : Writes(w, j, s) /\ w.state = "active"
    BY <1>9
  <2> QED
    BY <1>7, <2>1
<1> QED
  BY <1>1, <1>3, <1>8, <1>10

-----------------------------------------------------------------------------
(* Steps that are nobody's request *)

LEMMA ExpireStep ==
    ASSUME IInv, NEW inv \in Invocations, Expire(inv)
    PROVE  IInv'
<1>1. /\ UNCHANGED <<worktrees, claims, journal, tree, branch, session, unclosed, members,
                     durableMembers, strays, lock, calls, added_by, scope, boot, crashes>>
      /\ cache' = [cache EXCEPT ![inv] = None] /\ forgotten' = forgotten \cup {inv}
  BY DEF Expire, store, git, team, memberships
<1>2. Typed'
  BY <1>1 DEF IInv, Typed
<1>3. Handlers'
  BY <1>1 DEF IInv, Handlers, Locking, Owners, CallOK, Owner, OwnerOK, Creating, Cleaning,
                 Undone, Absent, MemberGone, SessionGone
<1>4. ASSUME NEW k \in Invocations \ forgotten'
      PROVE  InvOK(k)'
  <2>1. InvOK(k) /\ cache'[k] = cache[k]
    BY <1>1, <1>4 DEF IInv, Operations, Typed
  <2> QED
    BY <1>1, <2>1 DEF InvOK, Added
<1>5. Operations'
  BY <1>1, <1>4 DEF IInv, Operations, SessionOK, Undone, Absent, MemberGone, SessionGone
<1>6. Repairing' /\ ClaimsOK'
  BY <1>1 DEF IInv, Repairing, RepairOK, OneEach, WillHold, Writes, ClaimsOK
<1> QED
  BY <1>2, <1>3, <1>5, <1>6 DEF IInv

(* With no request running, the handlers have nothing to keep. *)
LEMMA IdleHandlers ==
    ASSUME \A c \in Calls : calls[c] = Idle, lock = None
    PROVE  Handlers
<1>1. \A c \in Calls : CallOK(c) /\ ~Owner(c)
  BY IdleFacts DEF CallOK, Owner, Creating
<1>2. Locking
  BY IdleFacts, WorktreeConstants DEF Locking, LockPcs
<1> QED
  BY <1>1, <1>2 DEF Handlers, Owners

LEMMA CrashStep ==
    ASSUME IInv, Crash
    PROVE  IInv'
<1>1. /\ UNCHANGED <<worktrees, claims, journal, tree, branch, session, unclosed, durableMembers,
                     strays, added_by, scope>>
      /\ members' = durableMembers
      /\ cache' = [k \in Invocations |-> None] /\ forgotten' = Invocations /\ lock' = None
      /\ calls' = [c \in Calls |-> Idle] /\ boot' = repair_startup_state(worktrees, claims)
  BY DEF Crash, store, git, team, memberships
<1>2. PICK rows \in Rows, held \in Claims : rows = worktrees /\ held = claims
  BY DEF IInv, Typed
<1>3. \A i \in Ids, s \in Sessions : held[i][s] # None => rows[i] # None
  BY <1>2 DEF IInv, ClaimsOK
<1>4. /\ boot' \subseteq RowWrite \cup ClaimWrite
      /\ RepairOK(rows, held, boot') /\ OneEach(held, boot')
  BY <1>1, <1>2, <1>3, RepairStarts
<1>5. crashes' \in 0..MaxCrashes
  <2>1. crashes \in Nat /\ scope.crashes \in 0..MaxCrashes /\ MaxCrashes \in Nat
    BY WorktreeConstants DEF IInv, Typed
  <2> QED
    BY <2>1 DEF Crash
<1>6. Typed'
  BY <1>1, <1>4, <1>5, IdleFacts DEF IInv, Typed
<1>7. Handlers'
  <2>1. (\A c \in Calls : calls[c] = Idle)' /\ (lock = None)'
    BY <1>1
  <2>2. \A c \in Calls : CallOK(c)' /\ ~Owner(c)'
    BY <2>1, IdleIsOK
  <2>3. Locking'
    BY <2>1, IdleFacts, WorktreeConstants DEF Locking, LockPcs
  <2> QED
    BY <2>2, <2>3 DEF Handlers, Owners
<1>8. Operations'
  BY <1>1 DEF IInv, Operations, SessionOK, Undone, Absent, MemberGone, SessionGone
<1>9. Repairing' /\ ClaimsOK'
  <2>1. worktrees' = rows /\ claims' = held
    BY <1>1, <1>2
  <2> QED
    BY <1>3, <1>4, <2>1 DEF Repairing, ClaimsOK
<1> QED
  BY <1>6, <1>7, <1>8, <1>9 DEF IInv

(* The effect of one write of the repair. *)
LEMMA StartupEffect ==
    ASSUME IInv, StartupWrite
    PROVE  /\ UNCHANGED <<journal, tree, branch, session, unclosed, members, durableMembers,
                          strays, lock, calls, cache, added_by, forgotten, scope, crashes>>
           /\ worktrees' \in Rows /\ RowsGrow /\ claims' \in Claims
           /\ boot' \subseteq RowWrite \cup ClaimWrite
           /\ RepairOK(worktrees', claims', boot') /\ OneEach(claims', boot') /\ ClaimsOK'
           /\ \A i \in Ids, s \in Sessions : claims[i][s] = "released" => claims'[i][s] = "released"
<1>1. PICK w \in boot : /\ \A v \in boot : w.phase <= v.phase
                        /\ IF w.phase <= 3
                           THEN /\ worktrees' = upsert_managed_worktree(worktrees, w.id, w.row)
                                /\ UNCHANGED claims
                           ELSE /\ claims' = [claims EXCEPT ![w.id][w.session] = w.state]
                                /\ UNCHANGED worktrees
                        /\ boot' = boot \ {w}
  BY DEF StartupWrite
<1>2. UNCHANGED <<journal, tree, branch, session, unclosed, members, durableMembers, strays, lock, calls,
                  cache, added_by, forgotten, scope, crashes>>
  BY DEF StartupWrite, git, team, memberships
<1>3. /\ worktrees \in Rows /\ claims \in Claims /\ boot \subseteq RowWrite \cup ClaimWrite
      /\ RepairOK(worktrees, claims, boot) /\ OneEach(claims, boot) /\ ClaimsOK
  BY <1>1 DEF IInv, Typed, Repairing
<1>4. CASE w.phase <= 3
  <2>1. w \in RowWrite
    BY <1>3, <1>4 DEF ClaimWrite
  <2>2. PICK id \in Ids, row \in Row : id = w.id /\ row = w.row
    BY <2>1 DEF RowWrite
  <2>3. worktrees' = upsert_managed_worktree(worktrees, id, row) /\ claims' = claims
    BY <1>1, <1>4, <2>2
  <2>4. worktrees' \in Rows /\ RowsGrow
    BY <1>3, <2>3, UpsertGrows DEF RowsGrow
  <2>5. \A v \in boot, i \in Ids, s \in Sessions : Writes(v, i, s) <=> v \in boot' /\ Writes(v, i, s)
    BY <1>1, <1>4, <2>1 DEF Writes, RowWrite
  <2>6. \A i \in Ids, s \in Sessions :
           WillHold(claims', boot', i, s) <=> WillHold(claims, boot, i, s)
    BY <1>1, <2>3, <2>5 DEF WillHold
  <2>7. \A v \in boot' : v \in boot /\ v.id \in Ids
    BY <1>1, <1>3 DEF RowWrite, ClaimWrite
  <2>8. RepairOK(worktrees', claims', boot')
    BY <1>3, <2>3, <2>4, <2>7 DEF RepairOK, RowsGrow
  <2>9. OneEach(claims', boot')
    BY <1>3, <2>6 DEF OneEach
  <2>10. ClaimsOK'
    BY <1>3, <2>3, <2>4 DEF ClaimsOK, RowsGrow
  <2> QED
    BY <1>1, <1>2, <1>3, <2>3, <2>4, <2>8, <2>9, <2>10
<1>5. CASE ~(w.phase <= 3)
  <2>1. w \in ClaimWrite
    BY <1>3, <1>5 DEF RowWrite
  <2>2. PICK id \in Ids, z \in Sessions, v \in {"active", "released"} :
           id = w.id /\ z = w.session /\ v = w.state
    BY <2>1 DEF ClaimWrite
  <2>3. Writes(w, id, z)
    BY <2>1, <2>2 DEF Writes, ClaimWrite
  <2>4. claims' = [claims EXCEPT ![id][z] = v] /\ worktrees' = worktrees /\ v \in ClaimStates
    BY <1>1, <1>5, <2>2 DEF ClaimStates
  <2>5. /\ claims' \in Claims /\ claims'[id][z] = v
        /\ \A i \in Ids, s \in Sessions : <<i, s>> # <<id, z>> => claims'[i][s] = claims[i][s]
    BY <1>3, <2>4 DEF Claims
  <2>6. worktrees[id] # None /\ (v = "active" => claims[id][z] # "released")
    BY <1>3, <2>2, <2>3 DEF RepairOK
  <2>7. ClaimsOK' /\ RowsGrow
    BY <1>3, <2>4, <2>5, <2>6 DEF ClaimsOK, RowsGrow
  <2>8. \A x \in boot' : x \in boot /\ ~Writes(x, id, z)
    BY <1>1, <1>3, <2>2, <2>3 DEF RepairOK
  <2>9. ASSUME NEW i \in Ids, NEW s \in Sessions, <<i, s>> # <<id, z>>, NEW x \in boot, Writes(x, i, s)
        PROVE  x \in boot'
    BY <1>1, <2>2, <2>9 DEF Writes
  <2>10. RepairOK(worktrees', claims', boot')
    <3>1. \A x \in boot' : worktrees'[x.id] # None
      BY <1>3, <2>4, <2>8 DEF RepairOK
    <3>2. \A i \in Ids, s \in Sessions : \A x, y \in boot' : Writes(x, i, s) /\ Writes(y, i, s) => x = y
      BY <1>3, <2>8 DEF RepairOK
    <3>3. ASSUME NEW i \in Ids, NEW s \in Sessions, NEW x \in boot', Writes(x, i, s), x.state = "active"
          PROVE  claims'[i][s] # "released"
      <4>1. <<i, s>> # <<id, z>>
        BY <2>8, <3>3
      <4> QED
        BY <1>3, <2>5, <2>8, <3>3, <4>1 DEF RepairOK
    <3> QED
      BY <3>1, <3>2, <3>3 DEF RepairOK
  <2>11. ASSUME NEW i \in Ids, NEW s \in Sessions, WillHold(claims', boot', i, s)
         PROVE  WillHold(claims, boot, i, s)
    <3>1. CASE <<i, s>> = <<id, z>>
      <4>1. i = id /\ s = z
        BY <3>1
      <4>2. claims'[id][z] = "active"
        BY <2>8, <2>11, <4>1 DEF WillHold
      <4>3. w.state = "active"
        BY <2>2, <2>5, <4>2
      <4> QED
        BY <2>3, <4>1, <4>3 DEF WillHold
    <3>2. CASE <<i, s>> # <<id, z>>
      <4>1. \A x \in boot : Writes(x, i, s) => x \in boot'
        BY <2>9, <3>2
      <4>2. claims'[i][s] = claims[i][s]
        BY <2>5, <3>2
      <4> QED
        BY <2>8, <2>11, <4>1, <4>2 DEF WillHold
    <3> QED
      BY <3>1, <3>2
  <2>12. OneEach(claims', boot')
    BY <1>3, <2>11 DEF OneEach
  <2>13. \A i \in Ids, s \in Sessions : claims[i][s] = "released" => claims'[i][s] = "released"
    BY <2>2, <2>5, <2>6
  <2>14. boot' \subseteq RowWrite \cup ClaimWrite /\ worktrees' \in Rows
    BY <1>1, <1>3, <2>4
  <2> QED
    BY <1>2, <2>5, <2>7, <2>10, <2>12, <2>13, <2>14
<1> QED
  BY <1>4, <1>5

LEMMA StartupStep ==
    ASSUME IInv, StartupWrite
    PROVE  IInv'
<1>1. /\ UNCHANGED <<journal, tree, branch, session, unclosed, members, durableMembers, strays,
                     lock, calls, cache, added_by, forgotten, scope, crashes>>
      /\ worktrees' \in Rows /\ RowsGrow /\ claims' \in Claims
      /\ boot' \subseteq RowWrite \cup ClaimWrite
      /\ RepairOK(worktrees', claims', boot') /\ OneEach(claims', boot') /\ ClaimsOK'
  BY StartupEffect
<1>2. Typed'
  BY <1>1 DEF IInv, Typed
<1>3. \A d \in Calls : CallOK(d)'
  <2> TAKE d \in Calls
  <2>1. calls'[d] = calls[d] /\ CallOK(d) /\ Typed /\ SessionKept(calls[d].s)
    BY <1>1 DEF IInv, Handlers, SessionKept, MembershipKept
  <2> QED
    BY <1>1, <2>1, CallKept
<1>4. Handlers'
  BY <1>1, <1>3 DEF IInv, Handlers, Locking, Owners, Owner
<1>5. Operations'
  BY <1>1 DEF IInv, Operations, SessionOK, InvOK, Added, Undone, Absent, MemberGone, SessionGone
<1>6. Repairing'
  BY <1>1 DEF Repairing
<1> QED
  BY <1>1, <1>2, <1>4, <1>5, <1>6 DEF IInv

-----------------------------------------------------------------------------
(* The theorems *)

LEMMA Initially == Init => IInv
<1> SUFFICES ASSUME NEW rows \in Rows, NEW held \in Claims, Consistent(rows, held), InitWith(rows, held)
             PROVE  IInv
  BY DEF Init
<1>1. worktrees = rows /\ claims = held /\ boot = repair_startup_state(rows, held)
  BY DEF InitWith
<1>2. \A i \in Ids, s \in Sessions : held[i][s] # None => rows[i] # None
  BY DEF Consistent
<1>3. /\ boot \subseteq RowWrite \cup ClaimWrite
      /\ RepairOK(rows, held, boot) /\ OneEach(held, boot)
  BY <1>1, <1>2, RepairStarts
<1>4. /\ journal = [s \in Sessions |-> [stage |-> None, reason |-> None]]
      /\ members = {} /\ durableMembers = {} /\ strays = {} /\ unclosed = {}
      /\ lock = None /\ calls = [c \in Calls |-> Idle]
      /\ added_by = [s \in Sessions |-> None]
  BY DEF InitWith
<1>5. Typed
  <2>1. journal \in [Sessions -> [stage : Stages, reason : Reasons]]
    BY <1>4 DEF Stages, Reasons
  <2>2. session \in [Sessions -> {None, "open", "closed"}] /\ tree \subseteq Names /\ branch \subseteq Names
    BY DEF InitWith
  <2>3. calls \in [Calls -> CallType]
    BY <1>4, IdleFacts
  <2>4. /\ cache \in [Invocations -> {None, "running", "done"}] /\ forgotten \subseteq Invocations
        /\ scope \in Scopes /\ crashes \in 0..MaxCrashes
    BY WorktreeConstants DEF InitWith
  <2> QED
    BY <1>1, <1>3, <1>4, <2>1, <2>2, <2>3, <2>4 DEF Typed
<1>6. Handlers
  <2>1. \A c \in Calls : calls[c] = Idle
    BY <1>4
  <2> QED
    BY <1>4, <2>1, IdleHandlers
<1>7. Operations
  <2>1. \A s \in Sessions : journal[s].stage = None
    BY <1>4
  <2>2. \A c \in Calls : calls[c].inv = None
    BY <1>4, IdleFacts
  <2>3. \A s \in Sessions : SessionOK(s)
    BY <1>4, <2>1, WorktreeConstants DEF SessionOK, Absent
  <2>4. \A k \in Invocations : InvOK(k)
    BY <1>4, <2>2, WorktreeConstants DEF InvOK, Added
  <2> QED
    BY <2>3, <2>4 DEF Operations
<1>8. Repairing /\ ClaimsOK
  BY <1>1, <1>2, <1>3 DEF Repairing, ClaimsOK
<1> QED
  BY <1>5, <1>6, <1>7, <1>8 DEF IInv

LEMMA RequestSteps ==
    ASSUME IInv, boot = {}, NEW c \in Calls, Request(c)
    PROVE  IInv'
<1>1. /\ scope.names \subseteq Names /\ scope.spawns \subseteq Modes
      /\ scope.invocations \subseteq Invocations \cup {None}
  BY WorktreeConstants DEF IInv, Typed
<1>2. CASE \E n \in scope.names, policy \in Policies : create_worktree(c, n, policy)
  BY <1>1, <1>2, CreateWorktreeStep
<1>3. CASE \E i \in Ids, s \in Sessions : claim_worktree(c, i, s)
  BY <1>3, ClaimWorktreeStep
<1>4. CASE \E i \in Ids, s \in Sessions, last \in BOOLEAN : release_worktree(c, i, s, last)
  BY <1>4, ReleaseWorktreeStep
<1>5. CASE \E i \in Ids : cleanup_worktree(c, i)
  BY <1>5, CleanupWorktreeStep
<1>6. CASE \E s \in Sessions : invoke_team_manage_remove(c, s)
  BY <1>6, RemoveStep
<1>7. CASE \E s \in Sessions, mode \in scope.spawns, inv \in scope.invocations :
              \E n \in IF mode = "none" THEN {None} ELSE scope.names :
                 spawn_team_member(c, s, mode, n, inv)
  <2>1. PICK s \in Sessions, mode \in scope.spawns, inv \in scope.invocations :
           \E n \in IF mode = "none" THEN {None} ELSE scope.names : spawn_team_member(c, s, mode, n, inv)
    BY <1>7
  <2>2. PICK n \in IF mode = "none" THEN {None} ELSE scope.names : spawn_team_member(c, s, mode, n, inv)
    BY <2>1
  <2>3. mode \in Modes /\ inv \in Invocations \cup {None} /\ n \in Names \cup {None}
    BY <1>1
  <2>4. mode # "none" => n \in Names
    BY <1>1
  <2> QED
    BY <2>2, <2>3, <2>4, SpawnStep
<1> QED
  BY <1>2, <1>3, <1>4, <1>5, <1>6, <1>7 DEF Request

LEMMA HandlerSteps ==
    ASSUME IInv, boot = {}, NEW c \in Calls, Step(c)
    PROVE  IInv'
BY CreateUnderLockStep, RunInitScriptStep, UpsertRecordStep, WriteClaimStep, CheckClaimsStep,
   RemoveArtifactsStep, ReuseStep, WorktreeCreatedStep, CreateSessionStep, AssignStep, JoinStep,
   ClaimForMemberStep, TeamJoinedStep, OnboardingStep, RollbackStep, RollbackClaimStep,
   RolledBackStep, MemberRemovedStep, ReleaseNextStep DEF Step

LEMMA Stutters ==
    ASSUME IInv, UNCHANGED vars
    PROVE  IInv'
<1>1. UNCHANGED <<worktrees, claims, journal, session, unclosed, members, durableMembers, strays, tree,
                  branch, lock, calls, cache, added_by, forgotten, scope, boot, crashes>>
  BY DEF vars, store, git, team, memberships, rest
<1>2. Typed'
  BY <1>1 DEF IInv, Typed
<1>3. Handlers'
  BY <1>1 DEF IInv, Handlers, Locking, Owners, CallOK, Owner, OwnerOK, Creating, Cleaning,
                 Undone, Absent, MemberGone, SessionGone
<1>4. Operations'
  BY <1>1 DEF IInv, Operations, SessionOK, InvOK, Added, Undone, Absent, MemberGone, SessionGone
<1>5. Repairing' /\ ClaimsOK'
  BY <1>1 DEF IInv, Repairing, RepairOK, OneEach, WillHold, Writes, ClaimsOK
<1> QED
  BY <1>2, <1>3, <1>4, <1>5 DEF IInv

LEMMA Inductive == IInv /\ [Next]_vars => IInv'
<1> SUFFICES ASSUME IInv, [Next]_vars
             PROVE  IInv'
  OBVIOUS
<1>1. CASE StartupWrite
  BY <1>1, StartupStep
<1>2. CASE boot = {} /\ \E c \in Calls : Request(c) \/ Step(c) \/ DropCall(c)
  BY <1>2, RequestSteps, HandlerSteps, DropStep
<1>3. CASE \E inv \in Invocations : Expire(inv)
  BY <1>3, ExpireStep
<1>4. CASE Crash
  BY <1>4, CrashStep
<1>5. CASE UNCHANGED vars
  BY <1>5, Stutters
<1> QED
  BY <1>1, <1>2, <1>3, <1>4, <1>5 DEF Next

(* The invariant of worktrees, claims, spawns and repair, over all         *)
(* interleavings of requests, faults and restarts and on any store.        *)
THEOREM InductiveInvariant == Spec => []IInv
BY Initially, Inductive, PTL DEF Spec

(* Every variable keeps its type, and the repository is locked exactly     *)
(* while a creation needs it.                                              *)
THEOREM TypeCorrect == Spec => []TypeOK
<1>1. IInv => TypeOK
  BY DEF IInv, Typed, Handlers, Locking, LockPcs, CallType, TypeOK
<1> QED
  BY <1>1, InductiveInvariant, PTL

(* A spawn that the journal calls rolled back has left a member only if its *)
(* joining or removal erred, and an open session only if creating or        *)
(* closing it erred, or if it was the join that failed.                     *)
THEOREM RollbacksAreComplete == Spec => []RolledBackIsUndone
<1>1. IInv => RolledBackIsUndone
  BY DEF IInv, Typed, Operations, SessionOK, RolledBackIsUndone,
         Undone, Absent, MemberGone, SessionGone
<1> QED
  BY <1>1, InductiveInvariant, PTL

(* A set of which any two members are equal. *)
LEMMA AtMostOne ==
    ASSUME NEW S, \A x, y \in S : x = y
    PROVE  Cardinality(S) <= 1
<1>1. CASE S = {}
  BY <1>1, FS_EmptySet
<1>2. CASE S # {}
  <2>1. PICK x : x \in S
    BY <1>2
  <2>2. S = {x}
    BY <2>1
  <2>3. Cardinality(S) = 1
    BY <2>2, FS_Singleton
  <2> QED
    BY <2>3
<1> QED
  BY <1>1, <1>2

(* A gateway invocation adds one member, however often it is repeated while *)
(* its entry is kept, beside those whose addition has erred after joining.  *)
THEOREM InvocationsAddOnce == Spec => []AddedOnce
<1>1. IInv => AddedOnce
  <2> SUFFICES ASSUME IInv, NEW k \in Invocations \ forgotten
               PROVE  Cardinality({s \in members \ strays : added_by[s] = k}) <= 1
    BY DEF AddedOnce
  <2> DEFINE S == {s \in members \ strays : added_by[s] = k}
  <2>1. \A r, s \in S : r = s
    BY DEF IInv, Typed, Operations, InvOK, Added
  <2> QED
    BY <2>1, AtMostOne
<1> QED
  BY <1>1, InductiveInvariant, PTL

(* While the repair runs, there are no requests. *)
LEMMA RepairOnly ==
    ASSUME IInv, Next, boot # {}
    PROVE  StartupWrite \/ Crash \/ (UNCHANGED claims /\ UNCHANGED boot)
BY DEF Next, Expire, store

(* When the repair is over, a session holds one worktree at most, whatever *)
(* store it began with and however often it was interrupted.               *)
THEOREM RepairLeavesOneClaim == Spec => OneClaimAfterRepair
<1>1. ASSUME IInv, [Next]_vars, boot # {}, boot' = {}, NEW s \in Sessions
      PROVE  Cardinality({i \in Ids : claims'[i][s] = "active"}) <= 1
  <2>1. Next
    BY <1>1 DEF vars, rest
  <2>2. CASE StartupWrite
    <3>1. OneEach(claims', boot')
      BY <1>1, <2>2, StartupEffect
    <3> DEFINE S == {i \in Ids : claims'[i][s] = "active"}
    <3>2. \A i, j \in S : i = j
      BY <1>1, <3>1 DEF OneEach, WillHold
    <3> QED
      BY <3>2, AtMostOne
  <2>3. CASE Crash
    <3>1. boot' = repair_startup_state(worktrees, claims) /\ worktrees \in Rows /\ claims \in Claims
      BY <1>1, <2>3 DEF Crash, IInv, Typed
    <3>2. PICK w \in boot : w.id \in Known(worktrees)
      <4>1. PICK w : w \in boot
        BY <1>1
      <4>2. w.id \in Ids /\ worktrees[w.id] # None
        BY <1>1, <4>1 DEF IInv, Typed, Repairing, RepairOK, RowWrite, ClaimWrite
      <4> QED
        BY <4>1, <4>2 DEF Known
    <3> QED
      BY <1>1, <3>1, <3>2, RepairCovers
  <2> QED
    BY <1>1, <2>1, <2>2, <2>3, RepairOnly
<1>2. IInv /\ [Next]_vars => [boot # {} /\ boot' = {} =>
         \A s \in Sessions : Cardinality({i \in Ids : claims'[i][s] = "active"}) <= 1]_vars
  BY <1>1
<1> QED
  BY <1>2, InductiveInvariant, PTL DEF Spec, OneClaimAfterRepair

(* The repair gives no session back what it has released. *)
THEOREM ReleasesAreFinal == Spec => RepairRevivesNothing
<1>1. ASSUME IInv, [Next]_vars, boot # {}, NEW i \in Ids, NEW s \in Sessions, claims[i][s] = "released"
      PROVE  claims'[i][s] = "released"
  <2>1. CASE StartupWrite
    BY <1>1, <2>1, StartupEffect
  <2>2. CASE Crash
    BY <1>1, <2>2 DEF Crash, store
  <2>3. CASE UNCHANGED claims
    BY <1>1, <2>3
  <2>4. CASE UNCHANGED vars
    BY <1>1, <2>4 DEF vars, store
  <2> QED
    BY <1>1, <2>1, <2>2, <2>3, <2>4, RepairOnly
<1>2. IInv /\ [Next]_vars => [boot # {} => \A i \in Ids, s \in Sessions :
                                claims[i][s] = "released" => claims'[i][s] = "released"]_vars
  BY <1>1
<1> QED
  BY <1>2, InductiveInvariant, PTL DEF Spec, RepairRevivesNothing
=============================================================================
