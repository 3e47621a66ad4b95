------------------------ MODULE ClaudeProviderProofs ------------------------
(***************************************************************************)
(* Proofs about ClaudeProvider for any sessions, callers, requests and     *)
(* faults, any pool of bridges and any number of processes, handles and    *)
(* turns.                                                                  *)
(***************************************************************************)
EXTENDS ClaudeProvider, TLAPS, SequenceTheorems

-----------------------------------------------------------------------------
(* The inductive invariant *)

PoolType == [state : {"none", "open", "closed"}, registered : BOOLEAN, failing : BOOLEAN]
BridgeType == [next : Nat, live : SUBSET Refs, active : [Refs -> BTurns \cup {None}]]
TurnType == [h : Handles \cup {None}, bridge : Bridges \cup {None}, ref : Refs \cup {None},
             state : {"none", "sent", "running", "ended"}, interrupted : BOOLEAN,
             result : Results \cup {None}, acked : BOOLEAN]
EventType == ({"started"} \X BTurns) \cup ({"error", "completed"} \X BTurns \X Results)
CCallType == [pc : {"idle", "acquire", "ping", "register", "unkey", "name", "asked", "answered", "activate",
                    "check_idle", "shutdown"},
              how : {"new", "resume", "close", "send", "wait", "interrupt", None},
              s : Sessions \cup {None}, h : Handles \cup {None}, bridge : Bridges \cup {None},
              ref : Refs \cup {None}, t : BTurns \cup {None},
              answer : Results \cup {"named", "ok", "error", None}]

CTyped ==
    /\ cscope \in CScopes
    /\ table \in [Sessions -> Handles \cup {None}]
    /\ keys \in [Bridges -> [Refs -> Handles \cup {None}]]
    /\ handles \in [Handles -> HandleType \cup {None}]
    /\ pool \in [Bridges -> PoolType]
    /\ lock \in Calls \cup {None} /\ refs \in [Sessions -> Refs \cup {None}]
    /\ bridge \in [Bridges -> BridgeType]
    /\ bturns \in [BTurns -> TurnType]
    /\ events \in [Bridges -> [Refs -> Seq(EventType)]]
    /\ ccalls \in [Calls -> CCallType]

(* A bridge that was in the pool, and is there as long as it is open. *)
Serving(k) == pool[k].state = "closed" \/ (pool[k].state = "open" /\ pool[k].registered)

(* There is such a handle. *)
Made(h) == h \in Handles /\ handles[h] # None

(* The handle has the result of a turn, or the name to ask for it. *)
Has(handle, t) == handle.done[t] # None
Finds(handle, t) == Has(handle, t) \/ t \in handle.mapped

HandleOK(h) == handles[h] # None => Serving(handles[h].bridge)

TurnOK(t) ==
    /\ bturns[t].state # "none" =>
          Made(bturns[t].h) /\ bturns[t].bridge \in Bridges /\ bturns[t].ref \in Refs
    /\ bturns[t].acked => bturns[t].state # "none" /\ Finds(handles[bturns[t].h], t)

Sending(c) ==
    /\ bturns[ccalls[c].t].state # "none" /\ bturns[ccalls[c].t].h = ccalls[c].h

(* A wait on the handle that sent the turn finds it there; with a name, or *)
(* else with the result.                                                   *)
Waiting(c) ==
    LET call == ccalls[c]
    IN  /\ bturns[call.t].state # "none"
        /\ bturns[call.t].h = call.h =>
              /\ Finds(handles[call.h], call.t)
              /\ call.pc = "asked" => call.answer = "named" \/ Has(handles[call.h], call.t)

(* What a call carries with it at each of its steps. *)
CallOK(c) ==
    LET call == ccalls[c]
    IN  /\ call.pc \in {"acquire", "ping", "register"} => call.s \in Sessions /\ call.how \in {"new", "resume"}
        /\ call.pc \in {"ping", "register"} =>
              call.bridge \in Bridges /\ pool[call.bridge].state \in {"open", "closed"}
        /\ call.pc = "unkey" =>
              /\ call.s \in Sessions /\ call.how \in {"resume", "close"} /\ Made(call.h)
              /\ call.bridge = handles[call.h].bridge /\ call.ref = handles[call.h].ref
        /\ call.pc \in {"name", "asked", "answered"} =>
              /\ call.bridge \in Bridges /\ Serving(call.bridge)
              /\ call.how \in {"new", "resume"} => call.s \in Sessions
              /\ call.how \in {"send", "wait", "interrupt"} =>
                    Made(call.h) /\ call.t \in BTurns /\ call.ref \in Refs
              /\ call.how = "close" => call.ref \in Refs
              /\ call.how = "send" => Sending(c)
        /\ call.pc = "name" => call.how \in {"wait", "interrupt"}
        /\ call.pc \in {"name", "asked"} /\ call.how = "wait" => Waiting(c)
        /\ call.pc = "answered" =>
              /\ call.how \in {"new", "resume", "send", "wait"} /\ call.ref \in Refs
              /\ call.how = "wait" => call.answer \in Results
        /\ call.pc = "activate" =>
              Made(call.h) /\ call.t \in BTurns /\ Sending(c) /\ Finds(handles[call.h], call.t)

(* A handle is in the table for its own session, and keys lead to handles. *)
TableOK ==
    /\ \A s \in Sessions : table[s] # None => Made(table[s]) /\ handles[table[s]].s = s
    /\ \A k \in Bridges, r \in Refs : keys[k][r] # None => Made(keys[k][r])

(* A removal that has still to take its key has the session's handle to    *)
(* itself, and the key leads to that until a recycle clears it.            *)
KeysHeld ==
    \A c \in Calls : ccalls[c].pc = "unkey" =>
       /\ \A s \in Sessions : table[s] # ccalls[c].h
       /\ \A d \in Calls \ {c} : ccalls[d].pc = "unkey" => ccalls[d].h # ccalls[c].h
       /\ IsOpen(ccalls[c].bridge) /\ ~ShuttingDown =>
             keys[ccalls[c].bridge][ccalls[c].ref] = ccalls[c].h

Works == /\ \A h \in Handles : HandleOK(h)
         /\ \A t \in BTurns : TurnOK(t)
         /\ \A c \in Calls : CallOK(c)
Tables == TableOK /\ KeysHeld /\ EventsReachSession

IInv == CTyped /\ Works /\ Tables

-----------------------------------------------------------------------------
(* Facts about the constants and the operators *)

LEMMA Distinct ==
    /\ None \notin Sessions /\ None \notin HandleType /\ None \notin Results
    /\ None \notin Handles /\ None \notin Bridges /\ None \notin Refs /\ None \notin BTurns
  BY ClaudeConstants DEF Handles, Bridges, Refs, BTurns

LEMMA ScopesAreSmall ==
    ASSUME cscope \in CScopes
    PROVE  cscope.calls \subseteq Calls /\ cscope.sessions \subseteq Sessions
           /\ cscope.turns \subseteq BTurns
  BY ClaudeConstants DEF CScopeType

LEMMA StartTypes ==
    /\ CIdle \in CCallType /\ NewTurn \in TurnType /\ NewBridge \in BridgeType
    /\ \A s \in Sessions, k \in Bridges, r \in Refs : NewHandle(s, k, r) \in HandleType
  BY DEF CIdle, CCallType, NewTurn, TurnType, NewBridge, BridgeType, NewHandle, HandleType

LEMMA HandleTyped ==
    ASSUME CTyped, NEW h \in Handles, handles[h] # None
    PROVE  /\ handles[h] \in HandleType /\ handles[h].s \in Sessions
           /\ handles[h].bridge \in Bridges /\ handles[h].ref \in Refs
  <1>1. handles[h] \in HandleType
    BY DEF CTyped
  <1> QED
    BY <1>1 DEF HandleType

(* The calls after one of them has moved on. *)
LEMMA Moves ==
    ASSUME CTyped, NEW c \in Calls, NEW m \in CCallType, ccalls' = [ccalls EXCEPT ![c] = m]
    PROVE  /\ ccalls' \in [Calls -> CCallType] /\ ccalls'[c] = m
           /\ \A d \in Calls \ {c} : ccalls'[d] = ccalls[d]
  BY DEF CTyped

LEMMA Returns ==
    ASSUME CTyped, NEW c \in Calls, ccalls' = CReturn(c)
    PROVE  /\ ccalls' \in [Calls -> CCallType] /\ ccalls'[c] = CIdle /\ ccalls'[c].pc = "idle"
           /\ CallOK(c)' /\ \A d \in Calls \ {c} : ccalls'[d] = ccalls[d]
  <1>1. /\ ccalls' \in [Calls -> CCallType] /\ ccalls'[c] = CIdle
        /\ \A d \in Calls \ {c} : ccalls'[d] = ccalls[d]
    BY Moves, StartTypes DEF CReturn
  <1> QED
    BY <1>1 DEF CIdle, CallOK

LEMMA GoesOn ==
    ASSUME CTyped, NEW c \in Calls,
           NEW pc \in {"acquire", "register", "asked", "activate", "check_idle", "shutdown"},
           ccalls' = CGoto(c, pc)
    PROVE  /\ ccalls' \in [Calls -> CCallType] /\ ccalls'[c] \in CCallType
           /\ ccalls'[c].pc = pc /\ ccalls'[c].how = ccalls[c].how /\ ccalls'[c].s = ccalls[c].s
           /\ ccalls'[c].h = ccalls[c].h /\ ccalls'[c].bridge = ccalls[c].bridge
           /\ ccalls'[c].ref = ccalls[c].ref /\ ccalls'[c].t = ccalls[c].t
           /\ ccalls'[c].answer = ccalls[c].answer
           /\ \A d \in Calls \ {c} : ccalls'[d] = ccalls[d]
  <1> DEFINE m == [ccalls[c] EXCEPT !.pc = pc]
  <1>1. ccalls[c] \in CCallType
    BY DEF CTyped
  <1>2. /\ m \in CCallType /\ m.pc = pc /\ m.how = ccalls[c].how /\ m.s = ccalls[c].s
        /\ m.h = ccalls[c].h /\ m.bridge = ccalls[c].bridge /\ m.ref = ccalls[c].ref
        /\ m.t = ccalls[c].t /\ m.answer = ccalls[c].answer
    BY <1>1 DEF CCallType
  <1>3. ccalls' = [ccalls EXCEPT ![c] = m]
    BY DEF CGoto
  <1> HIDE DEF m
  <1> QED
    BY <1>2, <1>3, Moves

-----------------------------------------------------------------------------
(* What every step keeps *)

(* No handle goes or changes its owner, and none loses track of a turn. *)
HandlesGrow ==
    \A h \in Handles :
       /\ handles[h] # None =>
             /\ handles'[h] # None /\ handles'[h].s = handles[h].s
             /\ handles'[h].bridge = handles[h].bridge /\ handles'[h].ref = handles[h].ref
             /\ \A t \in BTurns : Finds(handles[h], t) => Finds(handles'[h], t)
             /\ \A t \in BTurns : Has(handles[h], t) => Has(handles'[h], t)
       /\ handles[h] = None => HandleOK(h)'

(* A process never comes back, and leaves the pool only when it is closed. *)
PoolGrows ==
    \A k \in Bridges :
       /\ Serving(k) => Serving(k)'
       /\ pool[k].state # "none" => pool'[k].state # "none"

(* A turn stays on the handle that it was sent to. *)
TurnsGrow ==
    \A t \in BTurns :
       /\ bturns[t].state # "none" =>
             /\ bturns'[t].state # "none" /\ bturns'[t].h = bturns[t].h
             /\ bturns'[t].bridge = bturns[t].bridge /\ bturns'[t].ref = bturns[t].ref
             /\ bturns'[t].acked => bturns[t].acked \/ Finds(handles'[bturns[t].h], t)
       /\ bturns[t].state = "none" => TurnOK(t)'

Grows == HandlesGrow /\ PoolGrows /\ TurnsGrow

LEMMA HandlesStay ==
    ASSUME UNCHANGED handles
    PROVE  HandlesGrow
  BY DEF HandlesGrow, HandleOK

LEMMA TurnsStay ==
    ASSUME Works, UNCHANGED bturns
    PROVE  TurnsGrow
  BY DEF TurnsGrow, TurnOK, Works

LEMMA PoolStays ==
    ASSUME UNCHANGED pool
    PROVE  PoolGrows
  BY DEF PoolGrows, Serving

LEMMA CallStays ==
    ASSUME CTyped, CTyped', Works, Grows, NEW c \in Calls, ccalls'[c] = ccalls[c]
    PROVE  CallOK(c)'
  <1>1. PICK call \in CCallType : call = ccalls[c] /\ call = ccalls'[c]
    BY DEF CTyped
  <1>2. CallOK(c)
    BY DEF Works
  <1>3. ASSUME Made(call.h) PROVE handles'[call.h] # None /\ handles[call.h] # None
                                 /\ call.h \in Handles
    BY <1>3 DEF Grows, HandlesGrow, Made
  <1>4. call.pc \in {"ping", "register"} => call.bridge \in Bridges /\ pool'[call.bridge].state \in {"open", "closed"}
    <2> SUFFICES ASSUME call.pc \in {"ping", "register"}
                 PROVE  call.bridge \in Bridges /\ pool'[call.bridge].state \in {"open", "closed"}
      OBVIOUS
    <2>1. call.bridge \in Bridges /\ pool[call.bridge].state # "none"
      BY <1>1, <1>2 DEF CallOK
    <2>2. pool'[call.bridge] \in PoolType /\ pool'[call.bridge].state # "none"
      BY <2>1 DEF Grows, PoolGrows, CTyped
    <2> QED
      BY <2>1, <2>2 DEF PoolType
  <1>5. call.pc = "unkey" =>
           /\ call.s \in Sessions /\ call.how \in {"resume", "close"} /\ Made(call.h)'
           /\ call.bridge = handles'[call.h].bridge /\ call.ref = handles'[call.h].ref
    BY <1>1, <1>2 DEF CallOK, Made, Grows, HandlesGrow
  <1>6. ASSUME call.how = "send", call.pc \in {"name", "asked", "answered", "activate"}
        PROVE  Sending(c)'
    <2>1. Sending(c) /\ call.t \in BTurns
      BY <1>1, <1>2, <1>6 DEF CallOK
    <2> QED
      BY <1>1, <2>1 DEF Sending, Grows, TurnsGrow
  <1>6a. ASSUME call.how = "wait", call.pc \in {"name", "asked"}
         PROVE  Waiting(c)'
    <2>1. Waiting(c) /\ call.t \in BTurns /\ Made(call.h)
      BY <1>1, <1>2, <1>6a DEF CallOK
    <2>2. /\ bturns[call.t].state # "none"
          /\ bturns[call.t].h = call.h =>
                /\ Finds(handles[call.h], call.t)
                /\ call.pc = "asked" => call.answer = "named" \/ Has(handles[call.h], call.t)
      BY <1>1, <2>1 DEF Waiting
    <2>3. bturns'[call.t].state # "none" /\ bturns'[call.t].h = bturns[call.t].h
      BY <2>1, <2>2 DEF Grows, TurnsGrow
    <2>4. /\ Finds(handles[call.h], call.t) => Finds(handles'[call.h], call.t)
          /\ Has(handles[call.h], call.t) => Has(handles'[call.h], call.t)
      BY <2>1 DEF Made, Grows, HandlesGrow
    <2>5. /\ bturns'[call.t].state # "none"
          /\ bturns'[call.t].h = call.h =>
                /\ Finds(handles'[call.h], call.t)
                /\ call.pc = "asked" => call.answer = "named" \/ Has(handles'[call.h], call.t)
      BY <2>2, <2>3, <2>4
    <2> HIDE DEF Finds, Has
    <2> QED
      BY <1>1, <2>5 DEF Waiting
  <1>7. call.pc \in {"name", "asked", "answered"} =>
              /\ call.bridge \in Bridges /\ Serving(call.bridge)'
              /\ call.how \in {"new", "resume"} => call.s \in Sessions
              /\ call.how \in {"send", "wait", "interrupt"} =>
                    Made(call.h)' /\ call.t \in BTurns /\ call.ref \in Refs
              /\ call.how = "close" => call.ref \in Refs
              /\ call.how = "send" => Sending(c)'
    <2> SUFFICES ASSUME call.pc \in {"name", "asked", "answered"}
                 PROVE  /\ call.bridge \in Bridges /\ Serving(call.bridge)'
                        /\ call.how \in {"new", "resume"} => call.s \in Sessions
                        /\ call.how \in {"send", "wait", "interrupt"} =>
                              Made(call.h)' /\ call.t \in BTurns /\ call.ref \in Refs
                        /\ call.how = "close" => call.ref \in Refs
      BY <1>6
    <2>1. /\ call.bridge \in Bridges /\ Serving(call.bridge)
          /\ call.how \in {"new", "resume"} => call.s \in Sessions
          /\ call.how \in {"send", "wait", "interrupt"} =>
                Made(call.h) /\ call.t \in BTurns /\ call.ref \in Refs
          /\ call.how = "close" => call.ref \in Refs
      BY <1>1, <1>2 DEF CallOK
    <2>2. Serving(call.bridge)'
      BY <2>1 DEF Grows, PoolGrows
    <2> QED
      BY <1>3, <2>1, <2>2 DEF Made
  <1>8. call.pc = "activate" =>
           Made(call.h)' /\ call.t \in BTurns /\ Sending(c)' /\ Finds(handles'[call.h], call.t)
    <2> SUFFICES ASSUME call.pc = "activate"
                 PROVE  Made(call.h)' /\ call.t \in BTurns /\ Sending(c)' /\ Finds(handles'[call.h], call.t)
      OBVIOUS
    <2>1. Made(call.h) /\ call.t \in BTurns /\ Sending(c) /\ Finds(handles[call.h], call.t)
      BY <1>1, <1>2 DEF CallOK
    <2>2. Sending(c)'
      BY <1>1, <2>1 DEF Sending, Grows, TurnsGrow
    <2> QED
      BY <1>3, <2>1, <2>2 DEF Made, Grows, HandlesGrow
  <1>9. /\ call.pc \in {"acquire", "ping", "register"} =>
              call.s \in Sessions /\ call.how \in {"new", "resume"}
        /\ call.pc = "name" => call.how \in {"wait", "interrupt"}
        /\ call.pc = "answered" =>
              /\ call.how \in {"new", "resume", "send", "wait"} /\ call.ref \in Refs
              /\ call.how = "wait" => call.answer \in Results
    BY <1>1, <1>2 DEF CallOK
  <1> HIDE DEF Finds
  <1> QED
    BY <1>1, <1>4, <1>5, <1>6a, <1>7, <1>8, <1>9 DEF CallOK

LEMMA TurnStays ==
    ASSUME Works, Grows, NEW t \in BTurns
    PROVE  TurnOK(t)'
  <1>1. TurnOK(t)
    BY DEF Works
  <1>2. CASE bturns[t].state = "none"
    BY <1>2 DEF Grows, TurnsGrow
  <1>3. CASE bturns[t].state # "none"
    <2>1. PICK h \in Handles : h = bturns[t].h /\ handles[h] # None
      BY <1>1, <1>3 DEF TurnOK, Made
    <2>2. /\ bturns'[t].state # "none" /\ bturns'[t].h = h
          /\ bturns'[t].bridge = bturns[t].bridge /\ bturns'[t].ref = bturns[t].ref
          /\ bturns'[t].acked => bturns[t].acked \/ Finds(handles'[h], t)
      BY <1>3, <2>1 DEF Grows, TurnsGrow
    <2>3. handles'[h] # None /\ (Finds(handles[h], t) => Finds(handles'[h], t))
      BY <2>1 DEF Grows, HandlesGrow
    <2>4. bturns[t].acked => Finds(handles[h], t)
      BY <1>1, <2>1 DEF TurnOK
    <2>5. bturns'[t].acked => Finds(handles'[bturns'[t].h], t)
      BY <2>2, <2>3, <2>4
    <2>6. Made(bturns[t].h)' /\ bturns'[t].bridge \in Bridges /\ bturns'[t].ref \in Refs
      BY <1>1, <1>3, <2>1, <2>2, <2>3 DEF Made, TurnOK
    <2> HIDE DEF Finds
    <2> QED
      BY <2>2, <2>5, <2>6 DEF TurnOK
  <1> QED
    BY <1>2, <1>3

(* The calls outside C do nothing. *)
CallsStay(C) == \A c \in Calls \ C : ccalls'[c] = ccalls[c]

LEMMA WorksStep ==
    ASSUME CTyped, CTyped', Works, Grows, NEW C, CallsStay(C),
           \A c \in Calls \cap C : CallOK(c)'
    PROVE  Works'
  <1>1. ASSUME NEW c \in Calls PROVE CallOK(c)'
    BY CallStays DEF CallsStay
  <1>2. ASSUME NEW h \in Handles PROVE HandleOK(h)'
    <2>1. CASE handles[h] = None
      BY <2>1 DEF Grows, HandlesGrow
    <2>2. CASE handles[h] # None
      <3>1. handles[h].bridge \in Bridges /\ HandleOK(h)
        BY <2>2, HandleTyped DEF Works
      <3>2. handles'[h].bridge = handles[h].bridge
        BY <2>2 DEF Grows, HandlesGrow
      <3>3. Serving(handles[h].bridge)
        BY <2>2, <3>1 DEF HandleOK
      <3>4. PICK k \in Bridges : k = handles[h].bridge /\ Serving(k)
        BY <3>1, <3>3
      <3>5. Serving(k)'
        BY <3>4 DEF Grows, PoolGrows
      <3> QED
        BY <3>2, <3>4, <3>5 DEF HandleOK, Serving
    <2> QED
      BY <2>1, <2>2
  <1> QED
    BY <1>1, <1>2, TurnStays DEF Works

-----------------------------------------------------------------------------
(* Steps that leave the tables alone *)

(* No bridge opens that a handle may have, and who gives one up goes on    *)
(* doing so until it is closed.                                            *)
Calm == \A k \in Bridges : Serving(k) /\ IsOpen(k)' => IsOpen(k) /\ (ShuttingDown => ShuttingDown')

NoNewRemovals == \A c \in Calls : ccalls'[c].pc = "unkey" => ccalls'[c] = ccalls[c]

LEMMA CalmCall ==
    ASSUME NEW c \in Calls, CallsStay({c}), UNCHANGED pool,
           ccalls[c].pc = "shutdown" => ccalls'[c].pc = "shutdown"
    PROVE  Calm
  BY DEF Calm, CallsStay, ShuttingDown, IsOpen

LEMMA TablesStep ==
    ASSUME CTyped, Works, Tables, Grows, UNCHANGED <<table, keys>>, NoNewRemovals, Calm
    PROVE  Tables'
  <1>1. ASSUME NEW s \in Sessions, table[s] # None
        PROVE  /\ table[s] \in Handles /\ handles[table[s]] # None
               /\ handles'[table[s]] # None /\ handles'[table[s]].s = s
               /\ handles'[table[s]].bridge = handles[table[s]].bridge
               /\ handles'[table[s]].ref = handles[table[s]].ref
    BY <1>1 DEF Tables, TableOK, Made, Grows, HandlesGrow
  <1>2. TableOK'
    <2>1. ASSUME NEW k \in Bridges, NEW r \in Refs, keys[k][r] # None PROVE Made(keys[k][r])'
      BY <2>1 DEF Tables, TableOK, Made, Grows, HandlesGrow
    <2> QED
      BY <1>1, <2>1 DEF TableOK, Made
  <1>3. EventsReachSession'
    <2> SUFFICES ASSUME NEW s \in Sessions, table[s] # None,
                        IsOpen(handles[table[s]].bridge)', ~ShuttingDown'
                 PROVE  keys[handles[table[s]].bridge][handles[table[s]].ref] = table[s]
      BY <1>1 DEF EventsReachSession
    <2>1. PICK k \in Bridges : k = handles[table[s]].bridge /\ Serving(k)
      BY <1>1, HandleTyped DEF Works, HandleOK
    <2>2. IsOpen(k)'
      BY <1>1, <2>1 DEF IsOpen
    <2>3. IsOpen(k) /\ ~ShuttingDown
      BY <2>1, <2>2 DEF Calm
    <2> QED
      BY <2>1, <2>3 DEF Tables, EventsReachSession
  <1>4. KeysHeld'
    <2> SUFFICES ASSUME NEW c \in Calls, ccalls'[c].pc = "unkey"
                 PROVE  /\ \A s \in Sessions : table[s] # ccalls[c].h
                        /\ \A d \in Calls \ {c} : ccalls'[d].pc = "unkey" => ccalls'[d].h # ccalls[c].h
                        /\ IsOpen(ccalls[c].bridge)' /\ ~ShuttingDown' =>
                              keys[ccalls[c].bridge][ccalls[c].ref] = ccalls[c].h
      BY DEF KeysHeld, NoNewRemovals, IsOpen
    <2>1. ccalls'[c] = ccalls[c] /\ ccalls[c].pc = "unkey"
      BY DEF NoNewRemovals
    <2>2. /\ \A s \in Sessions : table[s] # ccalls[c].h
          /\ \A d \in Calls \ {c} : ccalls[d].pc = "unkey" => ccalls[d].h # ccalls[c].h
          /\ IsOpen(ccalls[c].bridge) /\ ~ShuttingDown =>
                keys[ccalls[c].bridge][ccalls[c].ref] = ccalls[c].h
      BY <2>1 DEF Tables, KeysHeld
    <2>3. CallOK(c)
      BY DEF Works
    <2>4. PICK h \in Handles : h = ccalls[c].h /\ handles[h] # None /\ ccalls[c].bridge = handles[h].bridge
      BY <2>1, <2>3 DEF CallOK, Made
    <2>5. PICK k \in Bridges : k = ccalls[c].bridge /\ Serving(k)
      BY <2>4, HandleTyped DEF Works, HandleOK
    <2>6. ASSUME IsOpen(ccalls[c].bridge)', ~ShuttingDown' PROVE IsOpen(k) /\ ~ShuttingDown
      <3>1. IsOpen(k)'
        BY <2>1, <2>5, <2>6 DEF IsOpen
      <3> QED
        BY <2>5, <2>6, <3>1 DEF Calm
    <2>7. \A d \in Calls \ {c} : ccalls'[d].pc = "unkey" => ccalls'[d].h # ccalls[c].h
      BY <2>2 DEF NoNewRemovals
    <2> QED
      BY <2>2, <2>5, <2>6, <2>7
  <1> QED
    BY <1>2, <1>3, <1>4 DEF Tables

(* A step of one call that leaves the tables alone. *)
LEMMA QuietStep ==
    ASSUME IInv, CTyped', Grows, NEW c \in Calls, CallsStay({c}), CallOK(c)',
           UNCHANGED <<table, keys>>, Calm, ccalls'[c].pc # "unkey"
    PROVE  IInv'
  <1>1. Works'
    BY WorksStep DEF IInv
  <1>2. NoNewRemovals
    BY DEF NoNewRemovals, CallsStay
  <1>3. Tables'
    BY <1>2, TablesStep DEF IInv
  <1> QED
    BY <1>1, <1>3 DEF IInv

(* A step of no call. *)
LEMMA SilentStep ==
    ASSUME IInv, CTyped', Grows, UNCHANGED <<table, keys, ccalls>>, Calm
    PROVE  IInv'
  <1>1. CallsStay({}) /\ NoNewRemovals
    BY DEF CallsStay, NoNewRemovals
  <1>2. Works'
    BY <1>1, WorksStep DEF IInv
  <1>3. Tables'
    BY <1>1, TablesStep DEF IInv
  <1> QED
    BY <1>2, <1>3 DEF IInv

(* A step of one call that only touches the call, and at most the lock. *)
LEMMA CallStep ==
    ASSUME IInv, NEW c \in Calls, CallsStay({c}), ccalls' \in [Calls -> CCallType], CallOK(c)',
           UNCHANGED <<cscope, table, keys, handles, pool, refs, bridge, bturns, events>>,
           lock' \in {lock, c, None},
           ccalls'[c].pc # "unkey", ccalls[c].pc = "shutdown" => ccalls'[c].pc = "shutdown"
    PROVE  IInv'
  <1>1. CTyped'
    BY DEF CTyped, IInv
  <1>2. Grows
    BY HandlesStay, TurnsStay, PoolStays DEF Grows, IInv
  <1>3. Calm
    BY CalmCall
  <1> QED
    BY <1>1, <1>2, <1>3, QuietStep

-----------------------------------------------------------------------------
(* Steps of a call that change nothing else *)

LEMMA StartsToAcquire ==
    ASSUME IInv, NEW c \in Calls, NEW s \in Sessions, NEW how \in {"new", "resume"},
           ccalls[c].pc = "idle",
           ccalls' = [ccalls EXCEPT ![c] = [CIdle EXCEPT !.pc = "acquire", !.how = how, !.s = s]],
           UNCHANGED <<cscope, table, keys, handles, pool, lock, refs, bridge, bturns, events>>
    PROVE  IInv'
  <1> DEFINE m == [CIdle EXCEPT !.pc = "acquire", !.how = how, !.s = s]
  <1>1. m \in CCallType /\ m.pc = "acquire" /\ m.how = how /\ m.s = s
    BY DEF CIdle, CCallType
  <1>2. ccalls' = [ccalls EXCEPT ![c] = m]
    OBVIOUS
  <1> HIDE DEF m
  <1>3. ccalls' \in [Calls -> CCallType] /\ ccalls'[c] = m /\ CallsStay({c})
    BY <1>1, <1>2, Moves DEF IInv, CallsStay
  <1>4. CallOK(c)'
    BY <1>1, <1>3 DEF CallOK
  <1> QED
    BY <1>1, <1>3, <1>4, CallStep

LEMMA CreateStep ==
    ASSUME IInv, NEW c \in Calls, NEW s \in Sessions, create_session(c, s)
    PROVE  IInv'
  BY StartsToAcquire DEF create_session

LEMMA ResumeStep ==
    ASSUME IInv, NEW c \in Calls, NEW s \in Sessions, resume_session(c, s)
    PROVE  IInv'
  BY StartsToAcquire DEF resume_session

LEMMA ReturnStep ==
    ASSUME IInv, NEW c \in Calls, ccalls' = CReturn(c), ccalls[c].pc # "shutdown",
           lock' \in {lock, None},
           UNCHANGED <<cscope, table, keys, handles, pool, refs, bridge, bturns, events>>
    PROVE  IInv'
  <1>1. /\ ccalls' \in [Calls -> CCallType] /\ ccalls'[c].pc = "idle" /\ CallOK(c)'
        /\ CallsStay({c})
    BY Returns DEF IInv, CallsStay
  <1> QED
    BY <1>1, CallStep

LEMMA SpawnStep ==
    ASSUME IInv, NEW c \in Calls, spawn_bridge_handle(c)
    PROVE  IInv'
  <1>1. CASE ccalls' = CReturn(c)
    BY <1>1, ReturnStep DEF spawn_bridge_handle
  <1>2. CASE ccalls' = CGoto(c, "register")
    <2>1. /\ ccalls' \in [Calls -> CCallType] /\ CallsStay({c}) /\ ccalls'[c].pc = "register"
          /\ ccalls'[c].how = ccalls[c].how /\ ccalls'[c].s = ccalls[c].s
          /\ ccalls'[c].bridge = ccalls[c].bridge
      BY <1>2, GoesOn DEF IInv, CallsStay
    <2>2. CallOK(c) /\ ccalls[c].pc = "ping" /\ UNCHANGED pool /\ lock' \in {lock, None}
      BY DEF IInv, Works, spawn_bridge_handle
    <2>3. CallOK(c)'
      BY <2>1, <2>2 DEF CallOK
    <2> QED
      BY <2>1, <2>2, <2>3, CallStep DEF spawn_bridge_handle
  <1> QED
    BY <1>1, <1>2 DEF spawn_bridge_handle

(* The end of a call, but for what needs no more than its place. *)
LEMMA PlaceStep ==
    ASSUME IInv, NEW c \in Calls, NEW pc \in {"check_idle", "shutdown"}, ccalls' = CGoto(c, pc),
           ccalls[c].pc # "shutdown",
           UNCHANGED <<cscope, table, keys, handles, pool, lock, refs, bridge, bturns, events>>
    PROVE  IInv'
  <1>1. ccalls' \in [Calls -> CCallType] /\ CallsStay({c}) /\ ccalls'[c].pc = pc
    BY GoesOn DEF IInv, CallsStay
  <1>2. CallOK(c)'
    BY <1>1 DEF CallOK
  <1> QED
    BY <1>1, <1>2, CallStep

LEMMA UnansweredStep ==
    ASSUME IInv, NEW c \in Calls, Unanswered(c)
    PROVE  IInv'
  BY ReturnStep, PlaceStep DEF Unanswered

LEMMA CheckIdleStep ==
    ASSUME IInv, NEW c \in Calls, CheckIdle(c)
    PROVE  IInv'
  BY ReturnStep, PlaceStep DEF CheckIdle

(* An answer goes to a call that asked. *)
LEMMA Answers ==
    ASSUME CTyped, NEW c \in Calls, NEW r \in Refs, NEW answer \in Results \cup {"ok", "error"},
           Answer(c, r, answer)
    PROVE  /\ ccalls' \in [Calls -> CCallType] /\ CallsStay({c}) /\ ccalls'[c] \in CCallType
           /\ ccalls'[c].pc = "answered" /\ ccalls'[c].ref = r /\ ccalls'[c].answer = answer
           /\ ccalls'[c].how = ccalls[c].how /\ ccalls'[c].s = ccalls[c].s
           /\ ccalls'[c].h = ccalls[c].h /\ ccalls'[c].bridge = ccalls[c].bridge
           /\ ccalls'[c].t = ccalls[c].t
  <1> DEFINE m == [ccalls[c] EXCEPT !.pc = "answered", !.ref = r, !.answer = answer]
  <1>1. ccalls[c] \in CCallType
    BY DEF CTyped
  <1>2. /\ m \in CCallType /\ m.pc = "answered" /\ m.how = ccalls[c].how /\ m.s = ccalls[c].s
        /\ m.h = ccalls[c].h /\ m.bridge = ccalls[c].bridge /\ m.ref = r
        /\ m.t = ccalls[c].t /\ m.answer = answer
    BY <1>1 DEF CCallType
  <1>3. ccalls' = [ccalls EXCEPT ![c] = m]
    BY DEF Answer, CTyped
  <1> HIDE DEF m
  <1> QED
    BY <1>2, <1>3, Moves DEF CallsStay

(* A call that has its answer, of those that are answered. *)
LEMMA AnsweredOK ==
    ASSUME IInv, CTyped', Grows, NEW c \in Calls, NEW r \in Refs,
           NEW answer \in Results \cup {"ok", "error"}, Answer(c, r, answer), ccalls[c].pc = "asked",
           ccalls[c].how \in {"new", "resume", "send", "wait"},
           ccalls[c].how = "wait" => answer \in Results
    PROVE  CallOK(c)'
  <1>1. /\ ccalls'[c] \in CCallType
        /\ ccalls'[c].pc = "answered" /\ ccalls'[c].ref = r /\ ccalls'[c].answer = answer
        /\ ccalls'[c].how = ccalls[c].how /\ ccalls'[c].s = ccalls[c].s
        /\ ccalls'[c].h = ccalls[c].h /\ ccalls'[c].bridge = ccalls[c].bridge
        /\ ccalls'[c].t = ccalls[c].t
    BY Answers DEF IInv
  <1>2. CallOK(c)
    BY DEF IInv, Works
  <1>3. ccalls[c].bridge \in Bridges /\ Serving(ccalls[c].bridge)
    BY <1>2 DEF CallOK
  <1>4. PICK k \in Bridges : k = ccalls[c].bridge /\ Serving(k)'
    BY <1>3 DEF Grows, PoolGrows
  <1>5. ccalls[c].how = "send" => Sending(c)'
    <2> SUFFICES ASSUME ccalls[c].how = "send" PROVE Sending(c)'
      OBVIOUS
    <2>1. Sending(c) /\ ccalls[c].t \in BTurns
      BY <1>2 DEF CallOK
    <2> QED
      BY <1>1, <2>1 DEF Sending, Grows, TurnsGrow
  <1>6. ccalls[c].how \in {"send", "wait", "interrupt"} => Made(ccalls[c].h)' /\ ccalls[c].t \in BTurns
    BY <1>1, <1>2 DEF CallOK, Made, Grows, HandlesGrow
  <1>7. ccalls[c].how \in {"new", "resume"} => ccalls[c].s \in Sessions
    BY <1>2 DEF CallOK
  <1>8. Serving(ccalls[c].bridge)' /\ ccalls'[c].bridge \in Bridges
    BY <1>1, <1>4 DEF Serving
  <1> QED
    BY <1>1, <1>5, <1>6, <1>7, <1>8 DEF CallOK

LEMMA WaitStep ==
    ASSUME IInv, NEW c \in Calls, waitForTurn(c)
    PROVE  IInv'
  <1>1. CallOK(c) /\ ccalls[c].pc = "asked" /\ ccalls[c].how = "wait"
    BY DEF IInv, Works, waitForTurn
  <1>2. PICK r \in Refs, t \in BTurns : r = ccalls[c].ref /\ t = ccalls[c].t
    BY <1>1 DEF CallOK
  <1>3. PICK answer \in Results : answer = bturns[t].result
    <2>1. bturns[t] \in TurnType
      BY DEF IInv, CTyped
    <2> QED
      BY <1>2, <2>1 DEF TurnType, waitForTurn
  <1>4. Answer(c, r, answer)
    BY <1>2, <1>3 DEF waitForTurn
  <1>5. ccalls' \in [Calls -> CCallType] /\ CallsStay({c}) /\ ccalls'[c].pc = "answered"
    BY <1>4, Answers DEF IInv
  <1>6. CTyped'
    BY <1>5 DEF IInv, CTyped, waitForTurn
  <1>7. Grows
    BY HandlesStay, TurnsStay, PoolStays DEF Grows, IInv, waitForTurn
  <1>8. CallOK(c)'
    BY <1>1, <1>4, <1>6, <1>7, AnsweredOK
  <1> QED
    BY <1>1, <1>5, <1>8, CallStep DEF waitForTurn

-----------------------------------------------------------------------------
(* Steps of the bridge *)

(* A turn that moves on. *)
LEMMA TurnMoves ==
    ASSUME IInv, NEW t \in BTurns, bturns[t].state # "none", NEW u \in TurnType,
           u.state # "none", u.h = bturns[t].h, u.bridge = bturns[t].bridge, u.ref = bturns[t].ref,
           u.acked = bturns[t].acked, bturns' = [bturns EXCEPT ![t] = u]
    PROVE  bturns' \in [BTurns -> TurnType] /\ TurnsGrow
  <1>1. bturns \in [BTurns -> TurnType]
    BY DEF IInv, CTyped
  <1>2. bturns'[t] = u /\ \A v \in BTurns \ {t} : bturns'[v] = bturns[v]
    BY <1>1
  <1>3. ASSUME NEW v \in BTurns, bturns[v].state = "none" PROVE TurnOK(v)'
    <2>1. bturns'[v] = bturns[v] /\ TurnOK(v)
      BY <1>2, <1>3 DEF IInv, Works
    <2> QED
      BY <1>3, <2>1 DEF TurnOK
  <1> HIDE DEF TurnOK
  <1> QED
    BY <1>1, <1>2, <1>3 DEF TurnsGrow

LEMMA Forgets ==
    ASSUME IInv, NEW k, NEW r, NEW reset \in BOOLEAN, Forget(k, r, reset)
    PROVE  bturns' \in [BTurns -> TurnType] /\ TurnsGrow
  <1>1. ASSUME NEW t \in BTurns
        PROVE  /\ bturns'[t] \in TurnType /\ bturns'[t].h = bturns[t].h
               /\ bturns'[t].bridge = bturns[t].bridge /\ bturns'[t].ref = bturns[t].ref
               /\ bturns'[t].state = bturns[t].state /\ bturns'[t].acked = bturns[t].acked
    <2> DEFINE u == [bturns[t] EXCEPT !.result = None, !.interrupted = @ /\ ~reset]
    <2>1. bturns[t] \in TurnType
      BY DEF IInv, CTyped
    <2>2. /\ u \in TurnType /\ u.h = bturns[t].h
          /\ u.bridge = bturns[t].bridge /\ u.ref = bturns[t].ref
          /\ u.state = bturns[t].state /\ u.acked = bturns[t].acked
      BY <2>1 DEF TurnType
    <2>3. bturns'[t] = u \/ bturns'[t] = bturns[t]
      BY DEF Forget
    <2> HIDE DEF u
    <2> QED
      BY <2>1, <2>2, <2>3
  <1>2. bturns' \in [BTurns -> TurnType]
    <2>1. bturns' = [t \in BTurns |-> bturns'[t]]
      BY DEF Forget
    <2> QED
      BY <1>1, <2>1
  <1>3. ASSUME NEW t \in BTurns, bturns[t].state = "none" PROVE TurnOK(t)'
    <2>1. TurnOK(t)
      BY DEF IInv, Works
    <2> QED
      BY <1>1, <1>3, <2>1 DEF TurnOK
  <1> HIDE DEF TurnOK
  <1> QED
    BY <1>1, <1>2, <1>3 DEF TurnsGrow

(* A step of the bridge that answers nothing or answers a call. *)
LEMMA BridgeStepKeeps ==
    ASSUME IInv, NEW c \in Calls, CallsStay({c}), ccalls' \in [Calls -> CCallType], CallOK(c)',
           ccalls[c].pc = "asked", ccalls'[c].pc # "unkey",
           bturns' \in [BTurns -> TurnType], TurnsGrow, bridge' \in [Bridges -> BridgeType],
           events' \in [Bridges -> [Refs -> Seq(EventType)]],
           UNCHANGED <<cscope, table, keys, handles, pool, lock, refs>>
    PROVE  IInv'
  <1>1. CTyped'
    BY DEF IInv, CTyped
  <1>2. Grows
    BY HandlesStay, PoolStays DEF Grows
  <1>3. Calm
    BY CalmCall
  <1> QED
    BY <1>1, <1>2, <1>3, QuietStep

LEMMA OpenStep ==
    ASSUME IInv, NEW c \in Calls, OpenSession(c)
    PROVE  IInv'
  <1>1. CallOK(c) /\ ccalls[c].pc = "asked" /\ ccalls[c].how \in {"new", "resume"}
    BY DEF IInv, Works, OpenSession
  <1>2. PICK k \in Bridges : k = ccalls[c].bridge
    BY <1>1 DEF CallOK
  <1>3. PICK r \in Refs :
           /\ bridge' = [bridge EXCEPT ![k] =
                            [next |-> IF ccalls[c].how = "new" THEN @.next + 1 ELSE @.next,
                             live |-> @.live \cup {r}, active |-> [@.active EXCEPT ![r] = None]]]
           /\ Forget(k, r, TRUE) /\ Answer(c, r, "ok")
    BY <1>2 DEF OpenSession
  <1>4. bturns' \in [BTurns -> TurnType] /\ TurnsGrow
    BY <1>3, Forgets
  <1>5. ccalls' \in [Calls -> CCallType] /\ CallsStay({c}) /\ ccalls'[c].pc = "answered"
    BY <1>3, Answers DEF IInv
  <1>6. bridge' \in [Bridges -> BridgeType]
    <2>1. bridge \in [Bridges -> BridgeType] /\ bridge[k] \in BridgeType
      BY DEF IInv, CTyped
    <2> DEFINE b == [next |-> IF ccalls[c].how = "new" THEN bridge[k].next + 1 ELSE bridge[k].next,
                     live |-> bridge[k].live \cup {r}, active |-> [bridge[k].active EXCEPT ![r] = None]]
    <2>2. b \in BridgeType
      BY <2>1 DEF BridgeType
    <2>3. bridge' = [bridge EXCEPT ![k] = b]
      BY <1>3
    <2> HIDE DEF b
    <2> QED
      BY <2>1, <2>2, <2>3
  <1>7. CTyped' /\ Grows
    BY <1>4, <1>5, <1>6, HandlesStay, PoolStays DEF IInv, CTyped, OpenSession, Grows
  <1>8. CallOK(c)'
    BY <1>1, <1>3, <1>7, AnsweredOK
  <1>9. events' \in [Bridges -> [Refs -> Seq(EventType)]]
    BY <1>7 DEF CTyped
  <1> QED
    BY <1>1, <1>4, <1>5, <1>6, <1>8, <1>9, BridgeStepKeeps DEF OpenSession

LEMMA Emits ==
    ASSUME CTyped, NEW k \in Bridges, NEW r \in Refs, NEW more \in Seq(EventType),
           events' = [events EXCEPT ![k][r] = @ \o more]
    PROVE  events' \in [Bridges -> [Refs -> Seq(EventType)]]
  <1>1. events \in [Bridges -> [Refs -> Seq(EventType)]] /\ events[k][r] \in Seq(EventType)
    BY DEF CTyped
  <1>2. events[k][r] \o more \in Seq(EventType)
    BY <1>1
  <1> QED
    BY <1>1, <1>2

LEMMA SendInputStep ==
    ASSUME IInv, NEW c \in Calls, sendInput(c)
    PROVE  IInv'
  <1>1. CallOK(c) /\ ccalls[c].pc = "asked" /\ ccalls[c].how = "send"
    BY DEF IInv, Works, sendInput
  <1>2. PICK k \in Bridges, r \in Refs, t \in BTurns :
           k = ccalls[c].bridge /\ r = ccalls[c].ref /\ t = ccalls[c].t /\ bturns[t].state # "none"
    BY <1>1 DEF CallOK, Sending
  <1>3. PICK answer \in {"ok", "error"} : Answer(c, r, answer)
    BY <1>2 DEF sendInput
  <1>4. ccalls' \in [Calls -> CCallType] /\ CallsStay({c}) /\ ccalls'[c].pc = "answered"
    BY <1>3, Answers DEF IInv
  <1>5. /\ bturns' \in [BTurns -> TurnType] /\ TurnsGrow
        /\ bridge' \in [Bridges -> BridgeType] /\ events' \in [Bridges -> [Refs -> Seq(EventType)]]
    <2>1. CASE UNCHANGED <<bridge, bturns, events>>
      BY <2>1, TurnsStay DEF IInv, CTyped
    <2>2. CASE /\ bridge' = [bridge EXCEPT ![k].active[r] = t]
               /\ bturns' = [bturns EXCEPT ![t].state = "running"]
               /\ Emit(k, r, <<"started", t>>)
      <3> DEFINE b == [bridge[k] EXCEPT !.active[r] = t]
                 u == [bturns[t] EXCEPT !.state = "running"]
      <3>1. bridge \in [Bridges -> BridgeType] /\ bturns \in [BTurns -> TurnType]
        BY DEF IInv, CTyped
      <3>2. b \in BridgeType
        BY <3>1 DEF BridgeType
      <3>3. /\ u \in TurnType /\ u.state # "none" /\ u.h = bturns[t].h
            /\ u.bridge = bturns[t].bridge /\ u.ref = bturns[t].ref /\ u.acked = bturns[t].acked
        BY <3>1 DEF TurnType
      <3>4. bridge' = [bridge EXCEPT ![k] = b] /\ bturns' = [bturns EXCEPT ![t] = u]
        BY <2>2, <3>1
      <3>5. events' \in [Bridges -> [Refs -> Seq(EventType)]]
        <4>1. events \in [Bridges -> [Refs -> Seq(EventType)]] /\ <<"started", t>> \in EventType
          BY DEF IInv, CTyped, EventType
        <4>2. events[k][r] \in Seq(EventType)
          BY <4>1
        <4>3. Append(events[k][r], <<"started", t>>) \in Seq(EventType)
          BY <4>1, <4>2
        <4> QED
          BY <2>2, <4>1, <4>3 DEF Emit
      <3> HIDE DEF b, u
      <3> QED
        BY <1>2, <3>1, <3>2, <3>3, <3>4, <3>5, TurnMoves
    <2> QED
      BY <1>2, <2>1, <2>2 DEF sendInput
  <1>6. CTyped' /\ Grows
    BY <1>4, <1>5, HandlesStay, PoolStays DEF IInv, CTyped, sendInput, Grows
  <1>7. CallOK(c)'
    BY <1>1, <1>3, <1>6, AnsweredOK
  <1> QED
    BY <1>1, <1>4, <1>5, <1>7, BridgeStepKeeps DEF sendInput

LEMMA InterruptStep ==
    ASSUME IInv, NEW c \in Calls, interruptTurn(c)
    PROVE  IInv'
  <1>1. CallOK(c) /\ ccalls[c].pc = "asked" /\ ccalls[c].how = "interrupt"
    BY DEF IInv, Works, interruptTurn
  <1>2. PICK t \in BTurns : t = ccalls[c].t
    BY <1>1 DEF CallOK
  <1>3. bturns' = bturns \/ bturns' = [bturns EXCEPT ![t].interrupted = TRUE]
    BY <1>2 DEF interruptTurn
  <1>4. bturns' \in [BTurns -> TurnType] /\ TurnsGrow
    <2>1. CASE bturns' = bturns
      BY <2>1, TurnsStay DEF IInv, CTyped
    <2>2. CASE bturns' = [bturns EXCEPT ![t].interrupted = TRUE]
      <3> DEFINE u == [bturns[t] EXCEPT !.interrupted = TRUE]
      <3>1. bturns \in [BTurns -> TurnType]
        BY DEF IInv, CTyped
      <3>2. /\ u \in TurnType /\ u.state = bturns[t].state /\ u.h = bturns[t].h
            /\ u.bridge = bturns[t].bridge /\ u.ref = bturns[t].ref /\ u.acked = bturns[t].acked
        BY <3>1 DEF TurnType
      <3>3. bturns' = [bturns EXCEPT ![t] = u]
        BY <2>2, <3>1
      <3> HIDE DEF u
      <3>4. CASE bturns[t].state # "none"
        BY <3>2, <3>3, <3>4, TurnMoves
      <3>5. CASE bturns[t].state = "none"
        <4>1. bturns' \in [BTurns -> TurnType] /\ bturns'[t] = u
              /\ \A v \in BTurns \ {t} : bturns'[v] = bturns[v]
          BY <3>1, <3>2, <3>3
        <4>2. ASSUME NEW v \in BTurns, bturns[v].state = "none" PROVE TurnOK(v)'
          <5>1. TurnOK(v)
            BY DEF IInv, Works
          <5> QED
            BY <3>2, <3>5, <4>1, <4>2, <5>1 DEF TurnOK
        <4> HIDE DEF TurnOK
        <4> QED
          BY <3>2, <3>5, <4>1, <4>2 DEF TurnsGrow
      <3> QED
        BY <3>4, <3>5
    <2> QED
      BY <1>3, <2>1, <2>2
  <1>5. /\ ccalls' \in [Calls -> CCallType] /\ ccalls'[c].pc = "idle" /\ CallOK(c)'
        /\ CallsStay({c})
    BY Returns DEF IInv, CallsStay, interruptTurn
  <1>6. bridge' \in [Bridges -> BridgeType] /\ events' \in [Bridges -> [Refs -> Seq(EventType)]]
    BY DEF IInv, CTyped, interruptTurn
  <1> QED
    BY <1>1, <1>4, <1>5, <1>6, BridgeStepKeeps DEF interruptTurn

LEMMA CloseStep ==
    ASSUME IInv, NEW c \in Calls, closeSession(c)
    PROVE  IInv'
  <1>1. CallOK(c) /\ ccalls[c].pc = "asked" /\ ccalls[c].how = "close"
    BY DEF IInv, Works, closeSession
  <1>2. PICK k \in Bridges, r \in Refs : k = ccalls[c].bridge /\ r = ccalls[c].ref
    BY <1>1 DEF CallOK
  <1>3. /\ bridge' = [bridge EXCEPT ![k].live = @ \ {r}, ![k].active[r] = None]
        /\ Forget(k, r, FALSE) /\ ccalls' = CGoto(c, "check_idle")
    BY <1>2 DEF closeSession
  <1>4. bturns' \in [BTurns -> TurnType] /\ TurnsGrow
    BY <1>3, Forgets
  <1>5. bridge' \in [Bridges -> BridgeType]
    <2> DEFINE b == [bridge[k] EXCEPT !.live = @ \ {r}, !.active[r] = None]
    <2>1. bridge \in [Bridges -> BridgeType]
      BY DEF IInv, CTyped
    <2>2. b \in BridgeType
      BY <2>1 DEF BridgeType
    <2>3. bridge' = [bridge EXCEPT ![k] = b]
      BY <1>3, <2>1
    <2> HIDE DEF b
    <2> QED
      BY <2>1, <2>2, <2>3
  <1>6. ccalls' \in [Calls -> CCallType] /\ CallsStay({c}) /\ ccalls'[c].pc = "check_idle"
    BY <1>3, GoesOn DEF IInv, CallsStay
  <1>7. CallOK(c)' /\ events' \in [Bridges -> [Refs -> Seq(EventType)]]
    BY <1>6 DEF CallOK, IInv, CTyped, closeSession
  <1> QED
    BY <1>1, <1>4, <1>5, <1>6, <1>7, BridgeStepKeeps DEF closeSession

LEMMA CompleteStep ==
    ASSUME IInv, NEW t \in BTurns, NEW status \in Results, NEW error \in BOOLEAN,
           completeTurn(t, status, error)
    PROVE  IInv'
  <1>1. TurnOK(t) /\ bturns[t].state = "running"
    BY DEF IInv, Works, completeTurn
  <1>2. PICK k \in Bridges, r \in Refs : k = bturns[t].bridge /\ r = bturns[t].ref
    BY <1>1 DEF TurnOK
  <1> DEFINE u == [bturns[t] EXCEPT !.state = "ended", !.result = status]
             b == [bridge[k] EXCEPT !.active[r] = IF @ = t THEN None ELSE @]
  <1>3. bturns \in [BTurns -> TurnType] /\ bridge \in [Bridges -> BridgeType]
    BY DEF IInv, CTyped
  <1>4. /\ u \in TurnType /\ u.state # "none" /\ u.h = bturns[t].h
        /\ u.bridge = bturns[t].bridge /\ u.ref = bturns[t].ref /\ u.acked = bturns[t].acked
    BY <1>3 DEF TurnType
  <1>5. b \in BridgeType
    BY <1>3 DEF BridgeType
  <1>6. bturns' = [bturns EXCEPT ![t] = u] /\ bridge' = [bridge EXCEPT ![k] = b]
    BY <1>2, <1>3 DEF completeTurn
  <1> HIDE DEF u, b
  <1>7. bturns' \in [BTurns -> TurnType] /\ TurnsGrow /\ bridge' \in [Bridges -> BridgeType]
    BY <1>1, <1>3, <1>4, <1>5, <1>6, TurnMoves
  <1>8. TurnEvents(t, status, error) \in Seq(EventType)
    <2>1. <<"error", t, "failed">> \in EventType /\ <<"completed", t, status>> \in EventType
      BY DEF EventType, Results
    <2> QED
      BY <2>1 DEF TurnEvents
  <1>9. events' \in [Bridges -> [Refs -> Seq(EventType)]]
    BY <1>2, <1>8, Emits DEF completeTurn, IInv
  <1>10. CTyped' /\ Grows
    BY <1>7, <1>9, HandlesStay, PoolStays DEF IInv, CTyped, Grows, completeTurn
  <1>11. Calm
    BY DEF Calm, completeTurn, IsOpen, ShuttingDown
  <1> QED
    BY <1>10, <1>11, SilentStep DEF completeTurn

-----------------------------------------------------------------------------
(* Steps that change a handle *)

(* The same session on the same bridge, with no turn lost. *)
Better(old, new) ==
    /\ new \in HandleType /\ new.s = old.s /\ new.bridge = old.bridge /\ new.ref = old.ref
    /\ \A t \in BTurns : Finds(old, t) => Finds(new, t)
    /\ \A t \in BTurns : Has(old, t) => Has(new, t)

LEMMA HandlesMove ==
    ASSUME CTyped, handles' = [h \in Handles |-> handles'[h]],
           \A h \in Handles : \/ handles'[h] = handles[h]
                              \/ handles[h] # None /\ Better(handles[h], handles'[h])
    PROVE  handles' \in [Handles -> HandleType \cup {None}] /\ HandlesGrow
  <1>1. \A h \in Handles : handles'[h] \in HandleType \cup {None}
    BY DEF CTyped, Better
  <1>2. handles' \in [Handles -> HandleType \cup {None}]
    BY <1>1
  <1>3. None \notin HandleType
    BY Distinct
  <1> HIDE DEF Finds
  <1>4. HandlesGrow
    BY <1>3 DEF HandlesGrow, Better, HandleOK
  <1> QED
    BY <1>2, <1>4

LEMMA HandleMoves ==
    ASSUME CTyped, NEW h \in Handles, handles[h] # None, NEW g, Better(handles[h], g),
           handles' = [handles EXCEPT ![h] = g]
    PROVE  /\ handles' \in [Handles -> HandleType \cup {None}] /\ HandlesGrow
           /\ handles'[h] = g
  <1>1. handles \in [Handles -> HandleType \cup {None}]
    BY DEF CTyped
  <1>2. /\ handles' = [i \in Handles |-> handles'[i]]
        /\ handles'[h] = g /\ \A i \in Handles \ {h} : handles'[i] = handles[i]
    BY <1>1
  <1>3. \A i \in Handles : \/ handles'[i] = handles[i]
                           \/ handles[i] # None /\ Better(handles[i], handles'[i])
    BY <1>2
  <1> QED
    BY <1>2, <1>3, HandlesMove

(* A result comes, and its turn is not lost with its name. *)
LEMMA ResultIsKept ==
    ASSUME NEW handle \in HandleType, NEW t \in BTurns, NEW status \in Results
    PROVE  Better(handle, WithResult(handle, t, status))
  <1> DEFINE g == WithResult(handle, t, status)
  <1>1. /\ g \in HandleType /\ g.s = handle.s /\ g.bridge = handle.bridge /\ g.ref = handle.ref
        /\ g.mapped = handle.mapped \ {t} /\ g.done = [handle.done EXCEPT ![t] = status]
    BY DEF WithResult, HandleType
  <1>2. handle.done \in [BTurns -> Results \cup {None}] /\ status # None
    BY Distinct DEF HandleType
  <1> HIDE DEF g
  <1>3. \A u \in BTurns : (Finds(handle, u) => Finds(g, u)) /\ (Has(handle, u) => Has(g, u))
    BY <1>1, <1>2 DEF Finds, Has
  <1>4. Better(handle, g)
    BY <1>1, <1>3 DEF Better
  <1> QED
    BY <1>4 DEF g

LEMMA ActiveChanges ==
    ASSUME NEW handle \in HandleType, NEW a \in ({"runtime", "bridge"} \X BTurns) \cup {None}
    PROVE  Better(handle, [handle EXCEPT !.active = a])
  BY DEF Better, HandleType, Finds, Has

LEMMA EventIsKept ==
    ASSUME NEW handle \in HandleType, NEW event \in EventType
    PROVE  Better(handle, Handled(handle, event))
  <1> DEFINE t == event[2]
             name == IF t \in handle.mapped THEN <<"runtime", t>> ELSE <<"bridge", t>>
  <1>1. t \in BTurns /\ (event[1] # "started" => event[3] \in Results)
    BY DEF EventType
  <1>2. name \in {"runtime", "bridge"} \X BTurns
    BY <1>1
  <1>3. CASE event[1] = "started"
    BY <1>2, <1>3, ActiveChanges DEF Handled
  <1>4. CASE event[1] # "started" /\ name[1] = "runtime"
    BY <1>1, <1>4, ResultIsKept DEF Handled
  <1>5. CASE event[1] # "started" /\ name[1] # "runtime"
    <2>1. PICK a : a = IF handle.active = name THEN None ELSE handle.active
      OBVIOUS
    <2>2. a \in ({"runtime", "bridge"} \X BTurns) \cup {None}
      BY <2>1 DEF HandleType
    <2>3. Handled(handle, event) = [handle EXCEPT !.active = a]
      BY <1>5, <2>1 DEF Handled
    <2> QED
      BY <2>2, <2>3, ActiveChanges
  <1> QED
    BY <1>3, <1>4, <1>5

LEMMA EventStep ==
    ASSUME IInv, NEW k \in Bridges, NEW r \in Refs, handle_bridge_event(k, r)
    PROVE  IInv'
  <1>1. events[k][r] \in Seq(EventType) /\ events[k][r] # <<>>
    BY DEF IInv, CTyped, handle_bridge_event
  <1>2. PICK event \in EventType : event = Head(events[k][r])
    BY <1>1
  <1>3. Tail(events[k][r]) \in Seq(EventType)
    BY <1>1
  <1>4. events' \in [Bridges -> [Refs -> Seq(EventType)]]
    BY <1>3 DEF IInv, CTyped, handle_bridge_event
  <1>5. handles' \in [Handles -> HandleType \cup {None}] /\ HandlesGrow
    <2>1. CASE keys[k][r] = None
      BY <2>1, HandlesStay DEF handle_bridge_event, IInv, CTyped
    <2>2. CASE keys[k][r] # None
      <3>1. PICK h \in Handles : h = keys[k][r] /\ handles[h] # None
        BY <2>2 DEF IInv, Tables, TableOK, Made
      <3>2. handles[h] \in HandleType
        BY <3>1, HandleTyped DEF IInv
      <3>3. Better(handles[h], Handled(handles[h], event))
        BY <3>2, EventIsKept
      <3>4. handles' = [handles EXCEPT ![h] = Handled(handles[h], event)]
        BY <1>2, <2>2, <3>1 DEF handle_bridge_event
      <3> QED
        BY <3>1, <3>3, <3>4, HandleMoves DEF IInv
    <2> QED
      BY <2>1, <2>2
  <1>6. CTyped'
    BY <1>4, <1>5 DEF IInv, CTyped, handle_bridge_event
  <1>7. Grows
    BY <1>5, TurnsStay, PoolStays DEF Grows, IInv, handle_bridge_event
  <1>8. Calm
    BY DEF Calm, handle_bridge_event, IsOpen, ShuttingDown
  <1> QED
    BY <1>6, <1>7, <1>8, SilentStep DEF handle_bridge_event

LEMMA FailStep ==
    ASSUME IInv, NEW k \in Bridges, fail_bridge(k)
    PROVE  IInv'
  <1>1. ASSUME NEW h \in Handles
        PROVE  \/ handles'[h] = handles[h]
               \/ handles[h] # None /\ Better(handles[h], handles'[h])
    <2> SUFFICES ASSUME handles'[h] # handles[h]
                 PROVE  handles[h] # None /\ Better(handles[h], handles'[h])
      OBVIOUS
    <2>1. /\ \E s \in Assigned(k) : table[s] = h
          /\ handles[h].active # None /\ handles[h].active[1] = "runtime"
          /\ handles'[h] = [handles[h] EXCEPT !.done[handles[h].active[2]] = "failed"]
      BY DEF fail_bridge
    <2>2. handles[h] # None
      BY <2>1 DEF Assigned, IInv, Tables, TableOK, Made
    <2>3. handles[h] \in HandleType
      BY <2>2, HandleTyped DEF IInv
    <2>4. PICK t \in BTurns : t = handles[h].active[2]
      BY <2>1, <2>3 DEF HandleType
    <2> DEFINE g == [handles[h] EXCEPT !.done[t] = "failed"]
    <2>5. /\ g \in HandleType /\ g.s = handles[h].s /\ g.bridge = handles[h].bridge
          /\ g.ref = handles[h].ref /\ g.mapped = handles[h].mapped
          /\ g.done = [handles[h].done EXCEPT ![t] = "failed"]
      BY <2>3 DEF HandleType, Results
    <2>6. handles[h].done \in [BTurns -> Results \cup {None}] /\ None # "failed"
      BY <2>3, Distinct DEF HandleType, Results
    <2>7. handles'[h] = g
      BY <2>1, <2>4
    <2> HIDE DEF g
    <2>8. \A u \in BTurns : (Finds(handles[h], u) => Finds(g, u)) /\ (Has(handles[h], u) => Has(g, u))
      BY <2>5, <2>6 DEF Finds, Has
    <2> QED
      BY <2>2, <2>5, <2>7, <2>8 DEF Better
  <1>2. handles' = [h \in Handles |-> handles'[h]]
    BY DEF fail_bridge
  <1>3. handles' \in [Handles -> HandleType \cup {None}] /\ HandlesGrow
    BY <1>1, <1>2, HandlesMove DEF IInv
  <1> DEFINE p == [pool[k] EXCEPT !.failing = FALSE]
  <1>4. pool \in [Bridges -> PoolType]
    BY DEF IInv, CTyped
  <1>5. p \in PoolType /\ p.state = pool[k].state /\ p.registered = pool[k].registered
    BY <1>4 DEF PoolType
  <1>6. pool' = [pool EXCEPT ![k] = p]
    BY <1>4 DEF fail_bridge
  <1> HIDE DEF p
  <1>7. /\ pool' \in [Bridges -> PoolType]
        /\ \A j \in Bridges : pool'[j].state = pool[j].state /\ pool'[j].registered = pool[j].registered
    BY <1>4, <1>5, <1>6
  <1>8. CTyped'
    BY <1>3, <1>7 DEF IInv, CTyped, fail_bridge
  <1>9. PoolGrows /\ Calm
    BY <1>7 DEF PoolGrows, Serving, Calm, IsOpen, ShuttingDown, fail_bridge
  <1>10. Grows
    BY <1>3, <1>9, TurnsStay DEF Grows, IInv, fail_bridge
  <1> QED
    BY <1>8, <1>9, <1>10, SilentStep DEF fail_bridge

-----------------------------------------------------------------------------
(* Steps of a turn's call *)

LEMMA StoreStep ==
    ASSUME IInv, NEW c \in Calls, StoreAnswer(c)
    PROVE  IInv'
  <1>1. CallOK(c) /\ ccalls[c].pc = "answered" /\ ccalls[c].how = "wait"
    BY DEF IInv, Works, StoreAnswer
  <1>2. PICK h \in Handles, t \in BTurns, status \in Results :
           h = ccalls[c].h /\ handles[h] # None /\ t = ccalls[c].t /\ status = ccalls[c].answer
    BY <1>1 DEF CallOK, Made
  <1>3. handles' = [handles EXCEPT ![h] = WithResult(handles[h], t, status)]
    BY <1>2 DEF StoreAnswer
  <1>4. Better(handles[h], WithResult(handles[h], t, status))
    BY <1>2, HandleTyped, ResultIsKept DEF IInv
  <1>5. handles' \in [Handles -> HandleType \cup {None}] /\ HandlesGrow
    BY <1>2, <1>3, <1>4, HandleMoves DEF IInv
  <1>6. /\ ccalls' \in [Calls -> CCallType] /\ ccalls'[c].pc = "idle" /\ CallOK(c)'
        /\ CallsStay({c})
    BY Returns DEF IInv, CallsStay, StoreAnswer
  <1>7. CTyped'
    BY <1>5, <1>6 DEF IInv, CTyped, StoreAnswer
  <1>8. Grows
    BY <1>5, TurnsStay, PoolStays DEF Grows, IInv, StoreAnswer
  <1>9. Calm
    BY <1>1, <1>6, CalmCall DEF StoreAnswer
  <1> QED
    BY <1>6, <1>7, <1>8, <1>9, QuietStep DEF StoreAnswer

LEMMA MapStep ==
    ASSUME IInv, NEW c \in Calls, MapTurn(c)
    PROVE  IInv'
  <1>1. CallOK(c) /\ ccalls[c].pc = "answered" /\ ccalls[c].how = "send"
    BY DEF IInv, Works, MapTurn
  <1>2. CASE ccalls' = CReturn(c) /\ UNCHANGED handles
    BY <1>1, <1>2, ReturnStep DEF MapTurn
  <1>3. CASE /\ handles' = [handles EXCEPT ![ccalls[c].h].mapped = @ \cup {ccalls[c].t}]
             /\ ccalls' = CGoto(c, "activate")
    <2>1. PICK h \in Handles, t \in BTurns :
             h = ccalls[c].h /\ handles[h] # None /\ t = ccalls[c].t
      BY <1>1 DEF CallOK, Made
    <2> DEFINE g == [handles[h] EXCEPT !.mapped = @ \cup {t}]
    <2>2. handles[h] \in HandleType
      BY <2>1, HandleTyped DEF IInv
    <2>3. Better(handles[h], g) /\ Finds(g, t)
      BY <2>2 DEF Better, HandleType, Finds, Has
    <2>4. handles' = [handles EXCEPT ![h] = g]
      BY <1>3, <2>1
    <2> HIDE DEF g
    <2>5. /\ handles' \in [Handles -> HandleType \cup {None}] /\ HandlesGrow
          /\ handles'[h] = g
      BY <2>1, <2>3, <2>4, HandleMoves DEF IInv
    <2>6. /\ ccalls' \in [Calls -> CCallType] /\ ccalls'[c].pc = "activate" /\ CallsStay({c})
          /\ ccalls'[c].h = h /\ ccalls'[c].t = t
      BY <1>3, <2>1, GoesOn DEF IInv, CallsStay
    <2>7. CTyped'
      BY <2>5, <2>6 DEF IInv, CTyped, MapTurn
    <2>8. Grows
      BY <2>5, TurnsStay, PoolStays DEF Grows, IInv, MapTurn
    <2>9. Made(h)' /\ Finds(handles'[h], t)
      BY <2>1, <2>3, <2>5 DEF Made, HandlesGrow
    <2>10. Sending(c)'
      BY <1>1, <2>1, <2>6 DEF Sending, MapTurn, CallOK
    <2>11. CallOK(c)'
      BY <2>6, <2>9, <2>10 DEF CallOK, Made
    <2>12. Calm
      BY <1>1, <2>6, CalmCall DEF MapTurn
    <2> QED
      BY <2>6, <2>7, <2>8, <2>11, <2>12, QuietStep DEF MapTurn
  <1> QED
    BY <1>2, <1>3 DEF MapTurn

LEMMA ActivateStep ==
    ASSUME IInv, NEW c \in Calls, SetActive(c)
    PROVE  IInv'
  <1>1. CallOK(c) /\ ccalls[c].pc = "activate"
    BY DEF IInv, Works, SetActive
  <1>2. PICK h \in Handles, t \in BTurns :
           /\ h = ccalls[c].h /\ handles[h] # None /\ t = ccalls[c].t
           /\ bturns[t].state # "none" /\ bturns[t].h = h /\ Finds(handles[h], t)
    BY <1>1 DEF CallOK, Made, Sending
  <1> DEFINE g == [handles[h] EXCEPT !.active = <<"runtime", t>>]
             u == [bturns[t] EXCEPT !.acked = TRUE]
  <1>3. Better(handles[h], g)
    BY <1>2, HandleTyped, ActiveChanges DEF IInv
  <1>4. bturns \in [BTurns -> TurnType]
    BY DEF IInv, CTyped
  <1>5. /\ u \in TurnType /\ u.state = bturns[t].state /\ u.h = bturns[t].h
        /\ u.bridge = bturns[t].bridge /\ u.ref = bturns[t].ref
    BY <1>4 DEF TurnType
  <1>6. handles' = [handles EXCEPT ![h] = g] /\ bturns' = [bturns EXCEPT ![t] = u]
    BY <1>2, <1>4 DEF SetActive
  <1> HIDE DEF g, u
  <1>7. handles' \in [Handles -> HandleType \cup {None}] /\ HandlesGrow /\ handles'[h] = g
    BY <1>2, <1>3, <1>6, HandleMoves DEF IInv
  <1>8. Finds(handles'[h], t)
    BY <1>2, <1>3, <1>7 DEF Better
  <1>9. /\ bturns' \in [BTurns -> TurnType] /\ bturns'[t] = u
        /\ \A v \in BTurns \ {t} : bturns'[v] = bturns[v]
    BY <1>4, <1>5, <1>6
  <1>10. TurnsGrow
    <2>1. ASSUME NEW v \in BTurns, bturns[v].state = "none" PROVE TurnOK(v)'
      <3>1. bturns'[v] = bturns[v] /\ TurnOK(v)
        BY <1>2, <1>9, <2>1 DEF IInv, Works
      <3> QED
        BY <2>1, <3>1 DEF TurnOK
    <2> HIDE DEF Finds, TurnOK
    <2> QED
      BY <1>2, <1>5, <1>8, <1>9, <2>1 DEF TurnsGrow
  <1>11. /\ ccalls' \in [Calls -> CCallType] /\ ccalls'[c].pc = "idle" /\ CallOK(c)'
         /\ CallsStay({c})
    BY Returns DEF IInv, CallsStay, SetActive
  <1>12. CTyped'
    BY <1>7, <1>9, <1>11 DEF IInv, CTyped, SetActive
  <1>13. Grows
    BY <1>7, <1>10, PoolStays DEF Grows, SetActive
  <1>14. Calm
    BY <1>1, <1>11, CalmCall DEF SetActive
  <1> QED
    BY <1>11, <1>12, <1>13, <1>14, QuietStep DEF SetActive

LEMMA AskStep ==
    ASSUME IInv, NEW c \in Calls, NEW s \in Sessions, NEW t \in BTurns,
           NEW how \in {"send", "wait", "interrupt"}, AskForTurn(c, s, t, how)
    PROVE  IInv'
  <1>1. PICK h \in Handles : h = table[s] /\ handles[h] # None
    BY DEF AskForTurn, IInv, Tables, TableOK, Made
  <1>2. PICK k \in Bridges, r \in Refs : k = handles[h].bridge /\ r = handles[h].ref /\ Serving(k)
    BY <1>1, HandleTyped DEF IInv, Works, HandleOK
  <1>3. PICK pc \in {"name", "asked"} : pc = IF how = "send" THEN "asked" ELSE "name"
    OBVIOUS
  <1> DEFINE m == [CIdle EXCEPT !.pc = pc, !.how = how, !.s = s, !.h = h, !.bridge = k,
                                !.ref = r, !.t = t]
             u == [bturns[t] EXCEPT !.state = "sent", !.h = h, !.bridge = k, !.ref = r]
  <1>4. /\ m \in CCallType /\ m.pc = pc /\ m.how = how /\ m.h = h /\ m.bridge = k
        /\ m.ref = r /\ m.t = t
    BY DEF CIdle, CCallType
  <1>5. ccalls' = [ccalls EXCEPT ![c] = m]
    BY <1>1, <1>2, <1>3 DEF AskForTurn
  <1>6. bturns \in [BTurns -> TurnType]
    BY DEF IInv, CTyped
  <1>7. /\ u \in TurnType /\ u.state = "sent" /\ u.h = h
        /\ u.bridge = k /\ u.ref = r /\ u.acked = bturns[t].acked
    BY <1>6 DEF TurnType
  <1>8. bturns' = IF how = "send" THEN [bturns EXCEPT ![t] = u] ELSE bturns
    BY <1>1, <1>2 DEF AskForTurn
  <1> HIDE DEF m, u
  <1>9. ccalls' \in [Calls -> CCallType] /\ ccalls'[c] = m /\ CallsStay({c})
    BY <1>4, <1>5, Moves DEF IInv, CallsStay
  <1>10. UNCHANGED <<cscope, table, keys, handles, pool, lock, refs, bridge, events>>
    BY DEF AskForTurn
  <1>11. bturns' \in [BTurns -> TurnType] /\ TurnsGrow
    <2>1. CASE how # "send"
      BY <1>6, <1>8, <2>1, TurnsStay DEF IInv
    <2>2. CASE how = "send"
      <3>1. bturns[t].state = "none" /\ TurnOK(t)
        BY <2>2 DEF AskForTurn, IInv, Works
      <3>2. /\ bturns' \in [BTurns -> TurnType] /\ bturns'[t] = u
            /\ \A v \in BTurns \ {t} : bturns'[v] = bturns[v]
        BY <1>6, <1>7, <1>8, <2>2
      <3>3. ASSUME NEW v \in BTurns, bturns[v].state = "none" PROVE TurnOK(v)'
        <4>1. CASE v = t
          BY <1>1, <1>7, <1>10, <3>1, <3>2, <4>1 DEF TurnOK, Made
        <4>2. CASE v # t
          <5>1. bturns'[v] = bturns[v] /\ TurnOK(v)
            BY <3>2, <4>2 DEF IInv, Works
          <5> QED
            BY <3>3, <5>1 DEF TurnOK
        <4> QED
          BY <4>1, <4>2
      <3> HIDE DEF TurnOK
      <3> QED
        BY <3>1, <3>2, <3>3 DEF TurnsGrow
    <2> QED
      BY <2>1, <2>2
  <1>12. CTyped' /\ Grows
    BY <1>9, <1>10, <1>11, HandlesStay, PoolStays DEF IInv, CTyped, Grows
  <1>13. how = "send" => Sending(c)'
    BY <1>4, <1>6, <1>7, <1>8, <1>9 DEF Sending
  <1>14. Made(h)' /\ Serving(k)'
    BY <1>1, <1>2, <1>10 DEF Made, Serving
  <1>14a. how = "wait" => Waiting(c)'
    <2> SUFFICES ASSUME how = "wait" PROVE Waiting(c)'
      OBVIOUS
    <2>1. bturns[t].acked /\ TurnOK(t) /\ UNCHANGED <<bturns, handles>> /\ m.pc = "name"
      BY <1>3, <1>4 DEF AskForTurn, IInv, Works
    <2>2. bturns[t].state # "none" /\ Finds(handles[bturns[t].h], t)
      BY <2>1 DEF TurnOK
    <2> HIDE DEF Finds
    <2> QED
      BY <1>4, <1>9, <2>1, <2>2 DEF Waiting
  <1>15. CallOK(c)'
    BY <1>3, <1>4, <1>9, <1>13, <1>14, <1>14a DEF CallOK, Made, Serving
  <1>16. Calm
    BY <1>9, <1>10, CalmCall DEF AskForTurn
  <1> QED
    BY <1>4, <1>9, <1>10, <1>12, <1>15, <1>16, QuietStep

(* A wait looks for the name in a later section than for the result. *)
LEMMA NameStep ==
    ASSUME IInv, NEW c \in Calls, resolve_bridge_turn_id(c)
    PROVE  IInv'
  <1>1. CallOK(c) /\ ccalls[c].pc = "name" /\ ccalls[c] \in CCallType
    BY DEF IInv, Works, CTyped, resolve_bridge_turn_id
  <1>2. PICK answer \in {"named", None} :
           answer = IF ccalls[c].t \in handles[ccalls[c].h].mapped THEN "named" ELSE None
    OBVIOUS
  <1> DEFINE m == [ccalls[c] EXCEPT !.pc = "asked", !.answer = answer]
  <1>3. /\ m \in CCallType /\ m.pc = "asked" /\ m.answer = answer /\ m.how = ccalls[c].how
        /\ m.s = ccalls[c].s /\ m.h = ccalls[c].h /\ m.bridge = ccalls[c].bridge
        /\ m.ref = ccalls[c].ref /\ m.t = ccalls[c].t
    BY <1>1 DEF CCallType
  <1>4. ccalls' = [ccalls EXCEPT ![c] = m]
    BY <1>2 DEF resolve_bridge_turn_id
  <1> HIDE DEF m
  <1>5. ccalls' \in [Calls -> CCallType] /\ ccalls'[c] = m /\ CallsStay({c})
    BY <1>3, <1>4, Moves DEF IInv, CallsStay
  <1>6. UNCHANGED <<cscope, table, keys, handles, pool, lock, refs, bridge, bturns, events>>
    BY DEF resolve_bridge_turn_id
  <1>7. ccalls[c].how = "wait" => Waiting(c)'
    <2> SUFFICES ASSUME ccalls[c].how = "wait" PROVE Waiting(c)'
      OBVIOUS
    <2>1. Waiting(c)
      BY <1>1 DEF CallOK
    <2>2. /\ bturns[m.t].state # "none"
          /\ bturns[m.t].h = m.h =>
                Finds(handles[m.h], m.t) /\ (answer = "named" \/ Has(handles[m.h], m.t))
      BY <1>2, <1>3, <2>1 DEF Waiting, Finds
    <2> HIDE DEF Finds, Has
    <2> QED
      BY <1>3, <1>5, <1>6, <2>2 DEF Waiting
  <1>8. CallOK(c)'
    BY <1>1, <1>3, <1>5, <1>6, <1>7 DEF CallOK, Made, Serving
  <1> QED
    BY <1>1, <1>3, <1>5, <1>6, <1>8, CallStep

(* A request that is dropped leaves everything else as it is. *)
LEMMA DropStep ==
    ASSUME IInv, NEW c \in Calls, DropRequest(c)
    PROVE  IInv'
  BY ReturnStep DEF DropRequest

-----------------------------------------------------------------------------
(* Steps that change the pool *)

LEMMA Kills ==
    ASSUME CTyped, NEW K, Kill(K)
    PROVE  /\ pool' \in [Bridges -> PoolType] /\ bridge' \in [Bridges -> BridgeType] /\ PoolGrows
           /\ \A k \in Bridges : IsOpen(k)' => IsOpen(k) /\ k \notin K
  <1>1. ASSUME NEW k \in Bridges
        PROVE  /\ pool'[k] \in PoolType /\ (Serving(k) => Serving(k)')
               /\ pool[k].state # "none" => pool'[k].state # "none"
               /\ IsOpen(k)' => IsOpen(k) /\ k \notin K
    <2> DEFINE p == [pool[k] EXCEPT !.registered = @ /\ k \notin K]
               q == [state |-> "closed", registered |-> FALSE, failing |-> TRUE]
    <2>1. pool[k] \in PoolType
      BY DEF CTyped
    <2>2. /\ p \in PoolType /\ p.state = pool[k].state
          /\ p.registered = (pool[k].registered /\ k \notin K)
      BY <2>1 DEF PoolType
    <2>3. q \in PoolType /\ q.state = "closed"
      BY DEF PoolType
    <2>4. pool'[k] = IF k \in K /\ IsOpen(k) THEN q ELSE p
      BY DEF Kill
    <2> HIDE DEF p, q
    <2>5. CASE k \in K /\ IsOpen(k)
      BY <2>3, <2>4, <2>5 DEF Serving, IsOpen
    <2>6. CASE ~(k \in K /\ IsOpen(k))
      BY <2>2, <2>4, <2>6 DEF Serving, IsOpen
    <2> QED
      BY <2>5, <2>6
  <1>2. pool' \in [Bridges -> PoolType]
    <2>1. pool' = [k \in Bridges |-> pool'[k]]
      BY DEF Kill
    <2> QED
      BY <1>1, <2>1
  <1>3. bridge' \in [Bridges -> BridgeType]
    BY StartTypes DEF Kill, CTyped
  <1> QED
    BY <1>1, <1>2, <1>3 DEF PoolGrows

LEMMA BridgeFailsStep ==
    ASSUME IInv, NEW k \in Bridges, BridgeFails(k)
    PROVE  IInv'
  <1>1. /\ pool' \in [Bridges -> PoolType] /\ bridge' \in [Bridges -> BridgeType] /\ PoolGrows
        /\ \A j \in Bridges : IsOpen(j)' => IsOpen(j)
    BY Kills DEF IInv, BridgeFails
  <1>2. CTyped'
    BY <1>1 DEF IInv, CTyped, BridgeFails
  <1>3. Grows
    BY <1>1, HandlesStay, TurnsStay DEF Grows, IInv, BridgeFails
  <1>4. Calm
    BY <1>1 DEF Calm, ShuttingDown, BridgeFails
  <1> QED
    BY <1>2, <1>3, <1>4, SilentStep DEF BridgeFails

LEMMA ShutdownStep ==
    ASSUME IInv, NEW c \in Calls, ShutdownBridges(c)
    PROVE  IInv'
  <1>1. /\ pool' \in [Bridges -> PoolType] /\ bridge' \in [Bridges -> BridgeType] /\ PoolGrows
        /\ \A j \in Bridges : IsOpen(j)' => IsOpen(j) /\ j \notin Registered
    BY Kills DEF IInv, ShutdownBridges
  <1>2. /\ ccalls' \in [Calls -> CCallType] /\ ccalls'[c].pc = "idle" /\ CallOK(c)'
        /\ CallsStay({c})
    BY Returns DEF IInv, CallsStay, ShutdownBridges
  <1>3. CTyped'
    BY <1>1, <1>2 DEF IInv, CTyped, ShutdownBridges
  <1>4. Grows
    BY <1>1, HandlesStay, TurnsStay DEF Grows, IInv, ShutdownBridges
  <1>5. \A j \in Bridges : Serving(j) => ~IsOpen(j)'
    BY <1>1 DEF Serving, IsOpen, Registered
  <1>6. Calm
    BY <1>5 DEF Calm
  <1> QED
    BY <1>2, <1>3, <1>4, <1>6, QuietStep DEF ShutdownBridges

(* A step of a call that changes the pool and the lock. *)
LEMMA PoolStep ==
    ASSUME IInv, NEW c \in Calls, CallsStay({c}), ccalls' \in [Calls -> CCallType], CallOK(c)',
           ccalls[c].pc # "shutdown", ccalls'[c].pc # "unkey",
           pool' \in [Bridges -> PoolType], PoolGrows, lock' \in {lock, c, None},
           \A k \in Bridges : Serving(k) /\ IsOpen(k)' => IsOpen(k),
           UNCHANGED <<cscope, table, keys, handles, refs, bridge, bturns, events>>
    PROVE  IInv'
  <1>1. CTyped'
    BY DEF IInv, CTyped
  <1>2. Grows
    BY HandlesStay, TurnsStay DEF Grows, IInv
  <1>3. Calm
    BY DEF Calm, ShuttingDown, CallsStay
  <1> QED
    BY <1>1, <1>2, <1>3, QuietStep

LEMMA RegisterStep ==
    ASSUME IInv, NEW c \in Calls, RegisterBridge(c)
    PROVE  IInv'
  <1>1. CallOK(c) /\ ccalls[c].pc = "register"
    BY DEF IInv, Works, RegisterBridge
  <1>2. PICK k \in Bridges : k = ccalls[c].bridge /\ pool[k].state \in {"open", "closed"}
    BY <1>1 DEF CallOK
  <1> DEFINE p == [pool[k] EXCEPT !.registered = TRUE]
  <1>3. pool \in [Bridges -> PoolType]
    BY DEF IInv, CTyped
  <1>4. p \in PoolType /\ p.state = pool[k].state /\ p.registered
    BY <1>3 DEF PoolType
  <1>5. pool' = [pool EXCEPT ![k] = p]
    BY <1>2, <1>3 DEF RegisterBridge
  <1> HIDE DEF p
  <1>6. pool' \in [Bridges -> PoolType] /\ pool'[k] = p /\ \A j \in Bridges \ {k} : pool'[j] = pool[j]
    BY <1>3, <1>4, <1>5
  <1>7. PoolGrows /\ \A j \in Bridges : IsOpen(j)' => IsOpen(j)
    BY <1>4, <1>6 DEF PoolGrows, Serving, IsOpen
  <1>8. /\ ccalls' \in [Calls -> CCallType] /\ ccalls'[c].pc = "asked" /\ CallsStay({c})
        /\ ccalls'[c].how = ccalls[c].how /\ ccalls'[c].s = ccalls[c].s /\ ccalls'[c].bridge = k
    BY <1>2, GoesOn DEF IInv, CallsStay, RegisterBridge
  <1>9. Serving(k)' /\ ccalls[c].how \in {"new", "resume"} /\ ccalls[c].s \in Sessions
    BY <1>1, <1>2, <1>4, <1>6 DEF Serving, CallOK
  <1>10. CallOK(c)'
    BY <1>8, <1>9 DEF CallOK, Serving
  <1> QED
    BY <1>1, <1>6, <1>7, <1>8, <1>10, PoolStep DEF RegisterBridge

LEMMA AcquireStep ==
    ASSUME IInv, NEW c \in Calls, Acquire(c)
    PROVE  IInv'
  <1> DEFINE kept == {k \in Registered : IsOpen(k)}
             pruned == [k \in Bridges |-> [pool[k] EXCEPT !.registered = @ /\ IsOpen(k)]]
  <1>1. /\ ccalls[c].pc = "acquire" /\ ccalls[c].s \in Sessions
        /\ ccalls[c].how \in {"new", "resume"} /\ ccalls[c] \in CCallType
    BY DEF Acquire, IInv, Works, CallOK, CTyped
  <1>2. ASSUME NEW k \in Bridges
        PROVE  /\ pruned[k] \in PoolType /\ pruned[k].state = pool[k].state
               /\ Serving(k) => pruned[k].state = "closed" \/ (pruned[k].state = "open" /\ pruned[k].registered)
    <2> DEFINE p == [pool[k] EXCEPT !.registered = @ /\ IsOpen(k)]
    <2>1. pool[k] \in PoolType
      BY DEF IInv, CTyped
    <2>2. /\ p \in PoolType /\ p.state = pool[k].state
          /\ p.registered = (pool[k].registered /\ IsOpen(k))
      BY <2>1 DEF PoolType
    <2>3. pruned[k] = p
      OBVIOUS
    <2> HIDE DEF p, pruned
    <2> QED
      BY <2>2, <2>3 DEF Serving, IsOpen
  <1>3. pruned \in [Bridges -> PoolType]
    <2>1. pruned = [k \in Bridges |-> pruned[k]]
      OBVIOUS
    <2> HIDE DEF pruned
    <2> QED
      BY <1>2, <2>1
  <1>4. ASSUME NEW k \in kept, pool' = pruned, UNCHANGED lock,
               ccalls' = [ccalls EXCEPT ![c].pc = "asked", ![c].bridge = k]
        PROVE  IInv'
    <2> DEFINE m == [ccalls[c] EXCEPT !.pc = "asked", !.bridge = k]
    <2>1. k \in Bridges /\ Serving(k)
      BY DEF Registered, IsOpen, Serving
    <2>2. m \in CCallType /\ m.pc = "asked" /\ m.bridge = k /\ m.how = ccalls[c].how /\ m.s = ccalls[c].s
      BY <1>1, <2>1 DEF CCallType
    <2>3. ccalls' = [ccalls EXCEPT ![c] = m]
      BY <1>4 DEF IInv, CTyped
    <2> HIDE DEF m, pruned, kept
    <2>4. ccalls' \in [Calls -> CCallType] /\ ccalls'[c] = m /\ CallsStay({c})
      BY <2>2, <2>3, Moves DEF IInv, CallsStay
    <2>5. PoolGrows /\ \A j \in Bridges : Serving(j) /\ IsOpen(j)' => IsOpen(j)
      BY <1>2, <1>4 DEF PoolGrows, Serving, IsOpen
    <2>6. Serving(k)'
      BY <2>1, <2>5 DEF PoolGrows
    <2>7. CallOK(c)'
      BY <1>1, <2>1, <2>2, <2>4, <2>6 DEF CallOK, Serving
    <2> QED
      BY <1>1, <1>3, <1>4, <2>2, <2>4, <2>5, <2>7, PoolStep DEF Acquire
  <1>5. ASSUME NEW k \in Bridges, pool[k].state = "none",
               pool' = [pruned EXCEPT ![k].state = "open"], lock' = c,
               ccalls' = [ccalls EXCEPT ![c].pc = "ping", ![c].bridge = k]
        PROVE  IInv'
    <2> DEFINE m == [ccalls[c] EXCEPT !.pc = "ping", !.bridge = k]
               p == [pruned[k] EXCEPT !.state = "open"]
    <2>1. m \in CCallType /\ m.pc = "ping" /\ m.bridge = k /\ m.how = ccalls[c].how /\ m.s = ccalls[c].s
      BY <1>1 DEF CCallType
    <2>2. ccalls' = [ccalls EXCEPT ![c] = m]
      BY <1>5 DEF IInv, CTyped
    <2> HIDE DEF m, pruned, kept
    <2>3. p \in PoolType /\ p.state = "open"
      BY <1>2 DEF PoolType
    <2>4. pool' = [pruned EXCEPT ![k] = p]
      BY <1>3, <1>5
    <2> HIDE DEF p
    <2>5. ccalls' \in [Calls -> CCallType] /\ ccalls'[c] = m /\ CallsStay({c})
      BY <2>1, <2>2, Moves DEF IInv, CallsStay
    <2>6. /\ pool' \in [Bridges -> PoolType] /\ pool'[k] = p
          /\ \A j \in Bridges \ {k} : pool'[j] = pruned[j]
      BY <1>3, <2>3, <2>4
    <2>7. ASSUME NEW j \in Bridges
          PROVE  /\ (Serving(j) => Serving(j)') /\ (Serving(j) /\ IsOpen(j)' => IsOpen(j))
                 /\ pool[j].state # "none" => pool'[j].state # "none"
      <3>1. CASE j = k
        BY <1>5, <2>3, <2>6, <3>1 DEF Serving, IsOpen
      <3>2. CASE j # k
        BY <1>2, <2>6, <3>2 DEF Serving, IsOpen
      <3> QED
        BY <3>1, <3>2
    <2>8. CallOK(c)'
      BY <1>1, <2>1, <2>3, <2>5, <2>6 DEF CallOK
    <2> QED
      BY <1>1, <1>5, <2>1, <2>5, <2>6, <2>7, <2>8, PoolStep DEF Acquire, PoolGrows
  <1> QED
    BY <1>4, <1>5 DEF Acquire

-----------------------------------------------------------------------------
(* Steps that change the tables *)

(* What a removal that has still to take its key can rely on. *)
LEMMA Removal ==
    ASSUME IInv, NEW c \in Calls, ccalls[c].pc = "unkey"
    PROVE  /\ ccalls[c].s \in Sessions /\ ccalls[c].how \in {"resume", "close"}
           /\ ccalls[c].h \in Handles /\ handles[ccalls[c].h] # None
           /\ ccalls[c].bridge = handles[ccalls[c].h].bridge /\ ccalls[c].bridge \in Bridges
           /\ ccalls[c].ref = handles[ccalls[c].h].ref /\ ccalls[c].ref \in Refs
           /\ Serving(ccalls[c].bridge)
           /\ \A s \in Sessions : table[s] # ccalls[c].h
           /\ \A d \in Calls \ {c} : ccalls[d].pc = "unkey" => ccalls[d].h # ccalls[c].h
           /\ IsOpen(ccalls[c].bridge) /\ ~ShuttingDown =>
                 keys[ccalls[c].bridge][ccalls[c].ref] = ccalls[c].h
  <1>1. /\ ccalls[c].s \in Sessions /\ ccalls[c].how \in {"resume", "close"}
        /\ ccalls[c].h \in Handles /\ handles[ccalls[c].h] # None
        /\ ccalls[c].bridge = handles[ccalls[c].h].bridge
        /\ ccalls[c].ref = handles[ccalls[c].h].ref
    BY DEF IInv, Works, CallOK, Made
  <1>2. ccalls[c].bridge \in Bridges /\ ccalls[c].ref \in Refs /\ Serving(ccalls[c].bridge)
    BY <1>1, HandleTyped DEF IInv, Works, HandleOK
  <1> QED
    BY <1>1, <1>2 DEF IInv, Tables, KeysHeld

LEMMA InTable ==
    ASSUME IInv, NEW s \in Sessions, table[s] # None
    PROVE  /\ table[s] \in Handles /\ handles[table[s]] # None /\ handles[table[s]].s = s
           /\ handles[table[s]].bridge \in Bridges /\ handles[table[s]].ref \in Refs
           /\ IsOpen(handles[table[s]].bridge) /\ ~ShuttingDown =>
                 keys[handles[table[s]].bridge][handles[table[s]].ref] = table[s]
  <1>1. table[s] \in Handles /\ handles[table[s]] # None /\ handles[table[s]].s = s
    BY DEF IInv, Tables, TableOK, Made
  <1>2. handles[table[s]].bridge \in Bridges /\ handles[table[s]].ref \in Refs
    BY <1>1, HandleTyped DEF IInv
  <1> QED
    BY <1>1, <1>2 DEF IInv, Tables, EventsReachSession

LEMMA RemoveStep ==
    ASSUME IInv, NEW c \in Calls, NEW s \in Sessions, NEW how \in {"resume", "close"},
           remove_session(c, s, how)
    PROVE  IInv'
  <1>1. PICK h \in Handles : h = table[s] /\ handles[h] # None /\ handles[h].s = s
    BY InTable DEF remove_session
  <1>2. PICK k \in Bridges, r \in Refs :
           /\ k = handles[h].bridge /\ r = handles[h].ref
           /\ IsOpen(k) /\ ~ShuttingDown => keys[k][r] = h
    BY <1>1, InTable, Distinct
  <1> DEFINE m == [CIdle EXCEPT !.pc = "unkey", !.how = how, !.s = s, !.h = h, !.bridge = k, !.ref = r]
  <1>3. /\ m \in CCallType /\ m.pc = "unkey" /\ m.how = how /\ m.s = s /\ m.h = h
        /\ m.bridge = k /\ m.ref = r
    BY DEF CIdle, CCallType
  <1>4. ccalls' = [ccalls EXCEPT ![c] = m]
    BY <1>1, <1>2 DEF remove_session
  <1> HIDE DEF m
  <1>5. ccalls' \in [Calls -> CCallType] /\ ccalls'[c] = m /\ CallsStay({c})
    BY <1>3, <1>4, Moves DEF IInv, CallsStay
  <1>6. /\ UNCHANGED <<cscope, keys, handles, pool, lock, refs, bridge, bturns, events>>
        /\ table' = [table EXCEPT ![s] = None] /\ ccalls[c].pc = "idle"
    BY DEF remove_session
  <1>7. table' \in [Sessions -> Handles \cup {None}] /\ table'[s] = None
        /\ \A o \in Sessions \ {s} : table'[o] = table[o]
    BY <1>6 DEF IInv, CTyped
  <1>8. CTyped' /\ Grows
    BY <1>5, <1>6, <1>7, HandlesStay, TurnsStay, PoolStays DEF IInv, CTyped, Grows
  <1>9. CallOK(c)'
    BY <1>1, <1>2, <1>3, <1>5, <1>6 DEF CallOK, Made
  <1>10. Works'
    BY <1>5, <1>8, <1>9, WorksStep DEF IInv
  <1>11. ShuttingDown' <=> ShuttingDown
    BY <1>3, <1>5, <1>6 DEF ShuttingDown, CallsStay
  <1>12. TableOK'
    BY <1>6, <1>7 DEF TableOK, Made, IInv, Tables
  <1>13. EventsReachSession'
    BY <1>6, <1>7, <1>11 DEF EventsReachSession, IInv, Tables, IsOpen
  <1>14. KeysHeld'
    <2> SUFFICES ASSUME NEW d \in Calls, ccalls'[d].pc = "unkey"
                 PROVE  /\ \A o \in Sessions : table'[o] # ccalls'[d].h
                        /\ \A e \in Calls \ {d} : ccalls'[e].pc = "unkey" => ccalls'[e].h # ccalls'[d].h
                        /\ IsOpen(ccalls[d].bridge)' /\ ~ShuttingDown' =>
                              keys'[ccalls'[d].bridge][ccalls'[d].ref] = ccalls'[d].h
      BY DEF KeysHeld
    <2>0. ASSUME NEW e \in Calls \ {c}, ccalls'[e].pc = "unkey"
          PROVE  ccalls'[e] = ccalls[e] /\ ccalls[e].pc = "unkey" /\ ccalls[e].h # h
      BY <1>1, <1>5, <2>0, Removal DEF CallsStay
    <2>1. CASE d = c
      <3>1. \A o \in Sessions \ {s} : table[o] # h
        BY <1>1, InTable, Distinct
      <3> QED
        BY <1>2, <1>3, <1>5, <1>6, <1>7, <1>11, <2>0, <2>1, <3>1, Distinct DEF IsOpen
    <2>2. CASE d # c
      <3>1. ccalls'[d] = ccalls[d] /\ ccalls[d].pc = "unkey" /\ ccalls[d].h # h
        BY <2>0, <2>2
      <3>2. /\ \A o \in Sessions : table[o] # ccalls[d].h
            /\ \A e \in Calls \ {d} : ccalls[e].pc = "unkey" => ccalls[e].h # ccalls[d].h
            /\ IsOpen(ccalls[d].bridge) /\ ~ShuttingDown =>
                  keys[ccalls[d].bridge][ccalls[d].ref] = ccalls[d].h
            /\ ccalls[d].h \in Handles
        BY <3>1, Removal
      <3>3. \A o \in Sessions : table'[o] # ccalls[d].h
        BY <1>7, <3>2, Distinct
      <3>4. \A e \in Calls \ {d} : ccalls'[e].pc = "unkey" => ccalls'[e].h # ccalls[d].h
        BY <1>3, <1>5, <2>0, <3>1, <3>2
      <3> QED
        BY <1>6, <1>11, <3>1, <3>2, <3>3, <3>4 DEF IsOpen
    <2> QED
      BY <2>1, <2>2
  <1> QED
    BY <1>8, <1>10, <1>12, <1>13, <1>14 DEF IInv, Tables

LEMMA RemoveKeyStep ==
    ASSUME IInv, NEW c \in Calls, RemoveKey(c)
    PROVE  IInv'
  <1>1. ccalls[c].pc = "unkey"
    BY DEF RemoveKey
  <1>2. PICK h \in Handles, k \in Bridges, r \in Refs :
           /\ h = ccalls[c].h /\ k = ccalls[c].bridge /\ r = ccalls[c].ref
           /\ Serving(k) /\ handles[h] # None
           /\ \A s \in Sessions : table[s] # h
           /\ \A d \in Calls \ {c} : ccalls[d].pc = "unkey" => ccalls[d].h # h
           /\ IsOpen(k) /\ ~ShuttingDown => keys[k][r] = h
    BY <1>1, Removal
  <1>3. ccalls[c].s \in Sessions /\ ccalls[c].how \in {"resume", "close"}
    BY <1>1, Removal
  <1>4. PICK pc \in {"acquire", "asked"} :
           ccalls' = CGoto(c, pc) /\ (pc = "acquire" <=> ccalls[c].how = "resume")
    BY DEF RemoveKey
  <1>5. /\ ccalls' \in [Calls -> CCallType] /\ CallsStay({c}) /\ ccalls'[c].pc = pc
        /\ ccalls'[c].how = ccalls[c].how /\ ccalls'[c].s = ccalls[c].s
        /\ ccalls'[c].bridge = k /\ ccalls'[c].ref = r
    BY <1>2, <1>4, GoesOn DEF IInv, CallsStay
  <1>6. /\ UNCHANGED <<cscope, table, handles, pool, lock, refs, bridge, bturns, events>>
        /\ keys' = [keys EXCEPT ![k][r] = None]
    BY <1>2 DEF RemoveKey
  <1>7. /\ keys' \in [Bridges -> [Refs -> Handles \cup {None}]] /\ keys'[k][r] = None
        /\ \A j \in Bridges, q \in Refs : <<j, q>> # <<k, r>> => keys'[j][q] = keys[j][q]
    BY <1>6 DEF IInv, CTyped
  <1>8. CTyped' /\ Grows
    BY <1>5, <1>6, <1>7, HandlesStay, TurnsStay, PoolStays DEF IInv, CTyped, Grows
  <1>9. CallOK(c)'
    BY <1>2, <1>3, <1>4, <1>5, <1>6 DEF CallOK, Serving
  <1>10. Works'
    BY <1>5, <1>8, <1>9, WorksStep DEF IInv
  <1>11. ShuttingDown' <=> ShuttingDown
    BY <1>1, <1>4, <1>5 DEF ShuttingDown, CallsStay
  <1>12. TableOK'
    <2>1. \A s \in Sessions : table'[s] # None => Made(table[s])' /\ handles'[table'[s]].s = s
      BY <1>6 DEF TableOK, Made, IInv, Tables
    <2>2. ASSUME NEW j \in Bridges, NEW q \in Refs, keys'[j][q] # None PROVE Made(keys[j][q])'
      <3>1. keys'[j][q] = keys[j][q]
        BY <1>7, <2>2
      <3> QED
        BY <1>6, <2>2, <3>1 DEF TableOK, Made, IInv, Tables
    <2> QED
      BY <2>1, <2>2 DEF TableOK
  <1>13. EventsReachSession'
    <2> SUFFICES ASSUME NEW s \in Sessions, table[s] # None,
                        IsOpen(handles[table[s]].bridge), ~ShuttingDown
                 PROVE  keys'[handles[table[s]].bridge][handles[table[s]].ref] = table[s]
      BY <1>6, <1>11 DEF EventsReachSession, IsOpen
    <2>1. PICK j \in Bridges, q \in Refs :
             j = handles[table[s]].bridge /\ q = handles[table[s]].ref /\ keys[j][q] = table[s]
      BY InTable
    <2>2. <<j, q>> # <<k, r>>
      BY <1>2, <2>1
    <2> QED
      BY <1>7, <2>1, <2>2
  <1>14. KeysHeld'
    <2> SUFFICES ASSUME NEW d \in Calls, ccalls'[d].pc = "unkey"
                 PROVE  /\ \A o \in Sessions : table'[o] # ccalls'[d].h
                        /\ \A e \in Calls \ {d} : ccalls'[e].pc = "unkey" => ccalls'[e].h # ccalls'[d].h
                        /\ IsOpen(ccalls[d].bridge)' /\ ~ShuttingDown' =>
                              keys'[ccalls'[d].bridge][ccalls'[d].ref] = ccalls'[d].h
      BY DEF KeysHeld
    <2>1. d # c /\ ccalls'[d] = ccalls[d] /\ ccalls[d].pc = "unkey" /\ ccalls[d].h # h
      BY <1>2, <1>4, <1>5 DEF CallsStay
    <2>2. PICK j \in Bridges, q \in Refs :
             /\ j = ccalls[d].bridge /\ q = ccalls[d].ref
             /\ \A o \in Sessions : table[o] # ccalls[d].h
             /\ \A e \in Calls \ {d} : ccalls[e].pc = "unkey" => ccalls[e].h # ccalls[d].h
             /\ IsOpen(j) /\ ~ShuttingDown => keys[j][q] = ccalls[d].h
      BY <2>1, Removal
    <2>3. IsOpen(j) /\ ~ShuttingDown => keys'[j][q] = ccalls[d].h
      BY <1>2, <1>7, <2>1, <2>2
    <2>4. \A e \in Calls \ {d} : ccalls'[e].pc = "unkey" => ccalls'[e].h # ccalls[d].h
      BY <1>4, <1>5, <2>2 DEF CallsStay
    <2> QED
      BY <1>6, <1>11, <2>1, <2>2, <2>3, <2>4 DEF IsOpen
  <1> QED
    BY <1>8, <1>10, <1>12, <1>13, <1>14 DEF IInv, Tables

LEMMA RecycleStep ==
    ASSUME IInv, NEW c \in Calls, recycle_after_live_auth_change(c)
    PROVE  IInv'
  <1>1. /\ ccalls' \in [Calls -> CCallType] /\ CallsStay({c}) /\ ccalls'[c].pc = "shutdown"
    BY GoesOn DEF IInv, CallsStay, recycle_after_live_auth_change
  <1>2. /\ UNCHANGED <<cscope, handles, pool, lock, refs, bridge, bturns, events>>
        /\ keys' = [k \in Bridges |-> [r \in Refs |-> None]] /\ table' = [s \in Sessions |-> None]
    BY DEF recycle_after_live_auth_change
  <1>3. CTyped' /\ Grows
    BY <1>1, <1>2, HandlesStay, TurnsStay, PoolStays DEF IInv, CTyped, Grows
  <1>4. CallOK(c)'
    BY <1>1 DEF CallOK
  <1>5. Works'
    BY <1>1, <1>3, <1>4, WorksStep DEF IInv
  <1>6. ShuttingDown'
    BY <1>1 DEF ShuttingDown
  <1>7. TableOK' /\ EventsReachSession'
    BY <1>2, <1>6 DEF TableOK, EventsReachSession
  <1>8. KeysHeld'
    <2>1. ASSUME NEW d \in Calls, ccalls'[d].pc = "unkey"
          PROVE  /\ ccalls'[d] = ccalls[d] /\ ccalls[d].pc = "unkey" /\ ccalls[d].h \in Handles
                 /\ \A e \in Calls \ {d} : ccalls[e].pc = "unkey" => ccalls[e].h # ccalls[d].h
      BY <1>1, <2>1, Removal DEF CallsStay
    <2> QED
      BY <1>2, <1>6, <2>1, Distinct DEF KeysHeld
  <1> QED
    BY <1>3, <1>5, <1>7, <1>8 DEF IInv, Tables

LEMMA InsertStep ==
    ASSUME IInv, NEW c \in Calls, insert_session(c)
    PROVE  IInv'
  <1>1. CallOK(c) /\ ccalls[c].pc = "answered" /\ ccalls[c].how \in {"new", "resume"}
        /\ ccalls' = CReturn(c)
    BY DEF IInv, Works, insert_session
  <1>2. PICK s \in Sessions, k \in Bridges, r \in Refs :
           s = ccalls[c].s /\ k = ccalls[c].bridge /\ r = ccalls[c].ref /\ Serving(k)
    BY <1>1 DEF CallOK
  <1>3. CASE ~MayInsert(s, k, r)
    BY <1>1, <1>2, <1>3, ReturnStep DEF insert_session
  <1>4. CASE MayInsert(s, k, r)
    <2>1. table[s] = None /\ keys[k][r] = None
      BY <1>4 DEF MayInsert
    <2>2. PICK h \in Handles :
             /\ handles[h] = None
             /\ handles' = [handles EXCEPT ![h] = NewHandle(s, k, r)]
             /\ table' = [table EXCEPT ![s] = h]
             /\ keys' = [keys EXCEPT ![k][r] = h]
             /\ refs' = [refs EXCEPT ![s] = r]
      BY <1>2, <1>4 DEF insert_session
    <2>3. PICK g \in HandleType : g = NewHandle(s, k, r) /\ g.s = s /\ g.bridge = k /\ g.ref = r
      BY StartTypes DEF NewHandle
    <2>4. /\ handles' \in [Handles -> HandleType \cup {None}] /\ handles'[h] = g
          /\ \A i \in Handles \ {h} : handles'[i] = handles[i]
      BY <2>2, <2>3 DEF IInv, CTyped
    <2>5. /\ table' \in [Sessions -> Handles \cup {None}] /\ table'[s] = h
          /\ \A o \in Sessions \ {s} : table'[o] = table[o]
      BY <2>2 DEF IInv, CTyped
    <2>6. /\ keys' \in [Bridges -> [Refs -> Handles \cup {None}]] /\ keys'[k][r] = h
          /\ \A j \in Bridges, q \in Refs : <<j, q>> # <<k, r>> => keys'[j][q] = keys[j][q]
      BY <2>2 DEF IInv, CTyped
    <2>7. refs' \in [Sessions -> Refs \cup {None}]
          /\ UNCHANGED <<cscope, pool, lock, bridge, bturns, events>>
      BY <2>2 DEF IInv, CTyped, insert_session
    <2>8. /\ ccalls' \in [Calls -> CCallType] /\ ccalls'[c].pc = "idle" /\ CallOK(c)'
          /\ CallsStay({c})
      BY <1>1, Returns DEF IInv, CallsStay
    <2>9. CTyped'
      BY <2>4, <2>5, <2>6, <2>7, <2>8 DEF IInv, CTyped
    <2>10. HandlesGrow
      <3>1. HandleOK(h)'
        BY <1>2, <2>3, <2>4, <2>7 DEF HandleOK, Serving
      <3>2. ASSUME NEW i \in Handles \ {h}, handles[i] = None PROVE HandleOK(i)'
        BY <2>4, <3>2 DEF HandleOK
      <3> HIDE DEF HandleOK, Finds
      <3> QED
        BY <2>2, <2>4, <3>1, <3>2 DEF HandlesGrow
    <2>11. Grows
      BY <2>7, <2>10, TurnsStay, PoolStays DEF Grows, IInv
    <2>12. Works'
      BY <2>8, <2>9, <2>11, WorksStep DEF IInv
    <2>13. g # None /\ h # None
      BY Distinct
    <2>14. ASSUME NEW o \in Sessions \ {s}, table[o] # None
           PROVE  /\ table'[o] = table[o] /\ table[o] \in Handles \ {h} /\ handles[table[o]] # None
                  /\ handles'[table[o]] = handles[table[o]] /\ handles[table[o]].s = o
      BY <2>2, <2>4, <2>5, <2>14, InTable
    <2>15. TableOK'
      <3>1. ASSUME NEW o \in Sessions, table'[o] # None
            PROVE  Made(table[o])' /\ handles'[table'[o]].s = o
        BY <2>3, <2>4, <2>5, <2>13, <2>14, <3>1 DEF Made
      <3>2. ASSUME NEW j \in Bridges, NEW q \in Refs, keys'[j][q] # None PROVE Made(keys[j][q])'
        <4>1. CASE <<j, q>> = <<k, r>>
          BY <2>4, <2>6, <2>13, <4>1 DEF Made
        <4>2. CASE <<j, q>> # <<k, r>>
          <5>1. keys'[j][q] = keys[j][q] /\ keys[j][q] \in Handles /\ handles[keys[j][q]] # None
            BY <2>6, <3>2, <4>2 DEF IInv, Tables, TableOK, Made
          <5> QED
            BY <2>2, <2>4, <5>1 DEF Made
        <4> QED
          BY <4>1, <4>2
      <3> QED
        BY <3>1, <3>2 DEF TableOK
    <2>16. ShuttingDown' <=> ShuttingDown
      BY <1>1, <2>8 DEF ShuttingDown, CallsStay
    <2>17. EventsReachSession'
      <3> SUFFICES ASSUME NEW o \in Sessions, table'[o] # None,
                          IsOpen(handles[table[o]].bridge)', ~ShuttingDown
                   PROVE  keys'[handles'[table'[o]].bridge][handles'[table'[o]].ref] = table'[o]
        BY <2>16 DEF EventsReachSession
      <3>1. CASE o = s
        BY <2>3, <2>4, <2>5, <2>6, <3>1
      <3>2. CASE o # s
        <4>1. /\ table'[o] = table[o] /\ table[o] # None /\ table[o] \in Handles \ {h}
              /\ handles'[table[o]] = handles[table[o]]
          BY <2>5, <2>14, <3>2
        <4>2. PICK j \in Bridges, q \in Refs :
                 j = handles[table[o]].bridge /\ q = handles[table[o]].ref /\ keys[j][q] = table[o]
          BY <2>7, <4>1, InTable DEF IsOpen
        <4> QED
          BY <2>1, <2>6, <4>1, <4>2
      <3> QED
        BY <3>1, <3>2
    <2>18. KeysHeld'
      <3> SUFFICES ASSUME NEW d \in Calls, ccalls'[d].pc = "unkey"
                   PROVE  /\ \A o \in Sessions : table'[o] # ccalls'[d].h
                          /\ \A e \in Calls \ {d} : ccalls'[e].pc = "unkey" => ccalls'[e].h # ccalls'[d].h
                          /\ IsOpen(ccalls[d].bridge)' /\ ~ShuttingDown' =>
                                keys'[ccalls'[d].bridge][ccalls'[d].ref] = ccalls'[d].h
        BY DEF KeysHeld
      <3>1. ccalls'[d] = ccalls[d] /\ ccalls[d].pc = "unkey"
        BY <2>8 DEF CallsStay
      <3>2. PICK j \in Bridges, q \in Refs :
               /\ j = ccalls[d].bridge /\ q = ccalls[d].ref
               /\ ccalls[d].h \in Handles /\ handles[ccalls[d].h] # None
               /\ \A o \in Sessions : table[o] # ccalls[d].h
               /\ \A e \in Calls \ {d} : ccalls[e].pc = "unkey" => ccalls[e].h # ccalls[d].h
               /\ IsOpen(j) /\ ~ShuttingDown => keys[j][q] = ccalls[d].h
        BY <3>1, Removal
      <3>3. \A o \in Sessions : table'[o] # ccalls[d].h
        BY <2>2, <2>5, <3>2
      <3>4. IsOpen(j) /\ ~ShuttingDown => keys'[j][q] = ccalls[d].h
        BY <2>1, <2>6, <3>2, Distinct
      <3>5. \A e \in Calls \ {d} : ccalls'[e].pc = "unkey" => ccalls'[e].h # ccalls[d].h
        BY <2>8, <3>2 DEF CallsStay
      <3> QED
        BY <2>7, <2>16, <3>1, <3>2, <3>3, <3>4, <3>5 DEF IsOpen
    <2> QED
      BY <2>9, <2>12, <2>15, <2>17, <2>18 DEF IInv, Tables
  <1> QED
    BY <1>3, <1>4

-----------------------------------------------------------------------------
(* The theorems *)

LEMMA InitHolds == CInit => IInv
  <1> SUFFICES ASSUME CInit PROVE IInv
    OBVIOUS
  <1>1. CTyped
    <2>1. \A k \in Bridges : [state |-> "none", registered |-> FALSE, failing |-> FALSE] \in PoolType
      BY DEF PoolType
    <2>2. <<>> \in Seq(EventType)
      OBVIOUS
    <2> HIDE DEF PoolType, EventType
    <2> QED
      BY <2>1, <2>2, StartTypes DEF CInit, CTyped
  <1>2. Works
    <2>1. \A c \in Calls : CallOK(c)
      BY DEF CInit, CallOK, CIdle
    <2>2. \A h \in Handles : HandleOK(h)
      BY DEF CInit, HandleOK
    <2>3. \A t \in BTurns : TurnOK(t)
      BY DEF CInit, TurnOK, NewTurn
    <2> QED
      BY <2>1, <2>2, <2>3 DEF Works
  <1>3. Tables
    BY DEF CInit, Tables, TableOK, KeysHeld, EventsReachSession, CIdle
  <1> QED
    BY <1>1, <1>2, <1>3 DEF IInv

LEMMA StutterStep == IInv /\ UNCHANGED cvars => IInv'
  <1> SUFFICES ASSUME IInv, UNCHANGED cvars PROVE IInv'
    OBVIOUS
  <1>1. CTyped'
    BY DEF IInv, CTyped, cvars
  <1>2. Grows
    BY HandlesStay, TurnsStay, PoolStays DEF Grows, IInv, cvars
  <1>3. Calm
    BY DEF Calm, IsOpen, ShuttingDown, cvars
  <1> QED
    BY <1>1, <1>2, <1>3, SilentStep DEF cvars

LEMMA NextKeeps == IInv /\ CNext => IInv'
  <1> SUFFICES ASSUME IInv, CNext PROVE IInv'
    OBVIOUS
  <1>0. cscope.calls \subseteq Calls /\ cscope.sessions \subseteq Sessions
    BY ScopesAreSmall DEF IInv, CTyped
  <1>1. ASSUME NEW c \in cscope.calls, CRequest(c) PROVE IInv'
    BY <1>0, <1>1, RecycleStep, CreateStep, ResumeStep, RemoveStep, AskStep DEF CRequest
  <1>2. ASSUME NEW c \in cscope.calls, CStep(c) PROVE IInv'
    BY <1>0, <1>2, AcquireStep, SpawnStep, RegisterStep, ShutdownStep, RemoveKeyStep, UnansweredStep,
       InsertStep, MapStep, ActivateStep, StoreStep, CheckIdleStep, NameStep, DropStep DEF CStep
  <1>3. ASSUME NEW c \in cscope.calls, BridgeStep(c) PROVE IInv'
    BY <1>0, <1>3, OpenStep, SendInputStep, InterruptStep, WaitStep, CloseStep DEF BridgeStep
  <1>4. ASSUME NEW k \in Bridges, BridgeFails(k) \/ fail_bridge(k) PROVE IInv'
    BY <1>4, BridgeFailsStep, FailStep
  <1>5. ASSUME NEW k \in Bridges, NEW r \in Refs, handle_bridge_event(k, r) PROVE IInv'
    BY <1>5, EventStep
  <1>6. ASSUME NEW t \in BTurns, NEW status \in Results, NEW error \in BOOLEAN,
               completeTurn(t, status, error)
        PROVE  IInv'
    BY <1>6, CompleteStep
  <1> QED
    BY <1>1, <1>2, <1>3, <1>4, <1>5, <1>6 DEF CNext

(* The invariant that the others rest on holds in every reachable state of *)
(* the provider, its bridges and its callers.                              *)
THEOREM InductiveInvariant == CSpec => []IInv
  <1>1. CInit => IInv
    BY InitHolds
  <1>2. IInv /\ [CNext]_cvars => IInv'
    BY NextKeeps, StutterStep
  <1> QED
    BY <1>1, <1>2, PTL DEF CSpec

(* The tables, handles, pool and turns keep their shape. *)
THEOREM TypeCorrect == CSpec => []CTypeOK
  <1>1. IInv => CTypeOK
    <2> SUFFICES ASSUME IInv PROVE CTypeOK
      OBVIOUS
    <2>1. ASSUME NEW h \in Handles, handles[h] # None
          PROVE  /\ handles[h].mapped \subseteq BTurns
                 /\ handles[h].done \in [BTurns -> Results \cup {None}]
      <3>1. handles[h] \in HandleType
        BY <2>1, HandleTyped DEF IInv
      <3> QED
        BY <3>1 DEF HandleType
    <2>2. ASSUME NEW t \in BTurns PROVE bturns[t].result \in Results \cup {None}
      <3>1. bturns[t] \in TurnType
        BY DEF IInv, CTyped
      <3> QED
        BY <3>1 DEF TurnType
    <2> QED
      BY <2>1, <2>2 DEF IInv, CTyped, CTypeOK, PoolType
  <1> QED
    BY <1>1, InductiveInvariant, PTL

(* The events of a session's bridge session reach that session, for any    *)
(* number of callers that create, resume, close and recycle at once: a     *)
(* late removal of a key never takes the key of a session that came after, *)
(* except on a bridge that is about to be shut down.                       *)
THEOREM EventsArrive == CSpec => []EventsReachSession
  <1>1. IInv => EventsReachSession
    BY DEF IInv, Tables
  <1> QED
    BY <1>1, InductiveInvariant, PTL

(* A wait for an acknowledged turn goes to the bridge with the name of its *)
(* turn, in whatever order the answers and events of the bridge, its       *)
(* failure, and the waits of other callers change the handle; or else the  *)
(* result came between its two looks at the handle, or the session has     *)
(* another handle since the turn was sent.                                 *)
THEOREM WaitsFindTheirTurn == CSpec => []WaitFindsTurn
  <1>1. IInv => WaitFindsTurn
    BY DEF IInv, Works, CallOK, Waiting, Has, WaitFindsTurn
  <1> QED
    BY <1>1, InductiveInvariant, PTL
=============================================================================
