------------------------ MODULE ProcessManagerProofs ------------------------
(***************************************************************************)
(* Proofs about ProcessManager for every number of handlers, permits,      *)
(* processes, streams and restarts, any limit of the log and any faults.   *)
(***************************************************************************)
EXTENDS ProcessManager, FiniteSetTheorems, WellFoundedInduction, TLAPS

-----------------------------------------------------------------------------
(* The inductive invariant *)

(* Where a request, or a lifecycle task, holds the permit of its process. *)
Starting == {"store", "insert", "teardown"}
Alive == {"start", "waiting", "killing", "draining"}

Held == {p \in Ids : \/ life[p] \in Alive
                     \/ \E c \in Calls : calls[c].pc \in Starting /\ calls[c].id = p}
Queue == {c \in Calls : calls[c].pc = "permit"}

(* Permits are free or held, and whoever waits for one will get an id. *)
Permits ==
    /\ Cardinality(Held) + free = MaxConcurrent
    /\ next_process_id + Cardinality(Queue) <= MaxIds + 1

(* An id that was not handed out yet has left no trace. *)
FreshOK ==
    \A p \in Ids : p >= next_process_id =>
        /\ record[p] = None /\ disk[p] = None /\ life[p] = "none"
        /\ ~kill_requested[p] /\ ~timed_out[p] /\ ~signalled[p]

(* A request that holds a permit is the only one that knows its process,   *)
(* whose child is sent SIGKILL only if its record could not be stored; a   *)
(* request that kills has set the flag.                                    *)
CallsOK ==
    \A c \in Calls :
        /\ calls[c].pc \in Starting =>
              /\ calls[c].id \in Ids /\ calls[c].id < next_process_id
              /\ life[calls[c].id] = "none" /\ record[calls[c].id] = None
              /\ signalled[calls[c].id] <=> calls[c].pc = "teardown"
              /\ \A d \in Calls : calls[d].pc \in Starting /\ calls[d].id = calls[c].id => c = d
        /\ calls[c].pc = "kill" => /\ calls[c].id \in Ids /\ calls[c].id < next_process_id
                                   /\ kill_requested[calls[c].id]

(* What the record, the child, the signal and the pumps of a process are   *)
(* while its lifecycle task is at each of its steps.                       *)
LivesOK ==
    \A p \in Ids :
        /\ child[p] = "running" => p \in Held \/ signalled[p]
        /\ life[p] \in Alive => record[p] = "running"
        /\ life[p] \notin Alive => record[p] # "running"
        /\ life[p] = "draining" /\ ~wait_failed[p] => child[p] # "running"
        /\ slot[p] => life[p] = "start"
        /\ life[p] \in Alive /\ signalled[p] => kill_requested[p] \/ timed_out[p]
        /\ life[p] \in {"none", "start", "done"} => \A s \in Streams : ~out[p][s].open

(* What a pump counts, what it has given to its File, and what may be      *)
(* missing in the log: nothing, unless a write failed.                     *)
PumpOK(pump) ==
    /\ pump.used = Min({pump.seen, MaxBytes})
    /\ pump.truncated <=> pump.seen > MaxBytes
    /\ pump.log + pump.writing <= pump.used
    /\ ~pump.gap => pump.log + pump.writing = pump.used
    /\ pump.error => pump.gap

PumpsOK == \A p \in Ids, s \in Streams : PumpOK(out[p][s])

IInv == TypeOK /\ Permits /\ FreshOK /\ CallsOK /\ LivesOK /\ KilledIsReported /\ PumpsOK
-----------------------------------------------------------------------------
USE ProcessConstants
    DEF Ids, Terminal, Exited, Idle, NewPump, NewPumps, Starting, Alive, Goto, Return

(* The smaller of two numbers. *)
LEMMA MinFacts ==
    ASSUME NEW a \in Nat, NEW b \in Nat
    PROVE  Min({a, b}) = IF a <= b THEN a ELSE b
BY DEF Min

(* Sets of processes and of handlers can be counted. *)
LEMMA Counts ==
    /\ IsFiniteSet(Held) /\ Cardinality(Held) \in Nat
    /\ IsFiniteSet(Queue) /\ Cardinality(Queue) \in Nat
<1>1. IsFiniteSet(Ids)
  BY FS_Interval
<1>2. Held \in SUBSET Ids /\ Queue \in SUBSET Calls
  BY DEF Held, Queue
<1> QED
  BY <1>1, <1>2, FS_Subset, FS_CardinalityType

(* One more, one less. *)
LEMMA AddOne ==
    ASSUME NEW S, IsFiniteSet(S), NEW x, x \notin S
    PROVE  Cardinality(S \cup {x}) = Cardinality(S) + 1
BY FS_AddElement

LEMMA RemoveOne ==
    ASSUME NEW S, IsFiniteSet(S), NEW x \in S
    PROVE  /\ Cardinality(S \ {x}) = Cardinality(S) - 1
           /\ Cardinality(S \ {x}) \in Nat /\ Cardinality(S) \in Nat
BY FS_RemoveElement, FS_CardinalityType

(* A nonempty set of ids has a largest member. *)
LEMMA MaxFacts ==
    ASSUME NEW S \in SUBSET (0..MaxIds), S # {}
    PROVE  Max(S) \in S /\ \A y \in S : y <= Max(S)
<1> DEFINE T == {MaxIds - x : x \in S}
<1>1. T \subseteq Nat /\ T # {}
  <2>1. \A x \in S : x \in 0..MaxIds
    OBVIOUS
  <2>2. \A x \in 0..MaxIds : MaxIds - x \in Nat
    OBVIOUS
  <2> QED
    BY <2>1, <2>2
<1>2. PICK m \in T : \A y \in T : ~(<<y, m>> \in OpToRel(<, Nat))
  <2> HIDE DEF T
  <2> QED
    BY <1>1, NatLessThanWellFounded, WFMin
<1>3. \A y \in T : m <= y
  <2> HIDE DEF T
  <2> TAKE y \in T
  <2>1. y \in Nat /\ m \in Nat
    BY <1>1
  <2>2. ~(y < m)
    BY <1>2, <2>1 DEF OpToRel
  <2> QED
    BY <2>1, <2>2
<1>4. PICK x \in S : m = MaxIds - x
  OBVIOUS
<1>5. \A y \in S : x >= y
  <2> TAKE y \in S
  <2>1. MaxIds - y \in T
    OBVIOUS
  <2>2. m <= MaxIds - y
    BY <1>3, <2>1
  <2>3. x \in Nat /\ y \in Nat
    OBVIOUS
  <2> QED
    BY <1>4, <2>2, <2>3
<1>6. Max(S) \in S /\ \A y \in S : Max(S) >= y
  BY <1>5 DEF Max
<1> QED
  BY <1>6

(* A pump of the right type with the right contents. *)
GoodPump(pump) == pump \in PumpType /\ PumpOK(pump)

(* A pump starts with nothing read and nothing written. *)
LEMMA NewPumpIsOK ==
    ASSUME NEW b \in BOOLEAN
    PROVE  GoodPump([NewPump EXCEPT !.open = b]) /\ GoodPump(NewPump) /\ ~NewPump.open
<1>1. Min({0, MaxBytes}) = 0
  BY MinFacts
<1>2. /\ NewPump \in PumpType /\ NewPump.seen = 0 /\ NewPump.used = 0 /\ ~NewPump.truncated
      /\ NewPump.writing = 0 /\ NewPump.log = 0 /\ ~NewPump.error /\ ~NewPump.gap /\ ~NewPump.open
  BY DEF PumpType
<1> HIDE DEF NewPump
<1> DEFINE pump == [NewPump EXCEPT !.open = b]
<1>3. /\ pump \in PumpType /\ pump.seen = 0 /\ pump.used = 0 /\ ~pump.truncated
      /\ pump.writing = 0 /\ pump.log = 0 /\ ~pump.error /\ ~pump.gap
  BY <1>2 DEF PumpType
<1> HIDE DEF pump
<1>4. GoodPump(pump) /\ GoodPump(NewPump)
  BY <1>1, <1>2, <1>3 DEF GoodPump, PumpOK
<1> QED
  BY <1>2, <1>4 DEF pump

(* What a write of w bytes makes of a pump. *)
LEMMA WrittenFacts ==
    ASSUME NEW pump \in PumpType, NEW w \in 0..MaxBytes
    PROVE  LET new == written(pump, w)
           IN  /\ new \in PumpType
               /\ new.open = pump.open /\ new.seen = pump.seen /\ new.used = pump.used
               /\ new.truncated = pump.truncated /\ new.log = pump.log
               /\ new.writing = IF w = 0 THEN pump.writing ELSE IF pump.error THEN 0 ELSE w
               /\ new.error <=> pump.error /\ w = 0
               /\ new.gap <=> pump.gap \/ (pump.error /\ w # 0)
<1>1. written(pump, w) \in PumpType
  <2>1. CASE w = 0
    BY <2>1 DEF written
  <2>2. CASE w # 0
    <3>1. (pump.gap \/ pump.error) \in BOOLEAN /\ (IF pump.error THEN 0 ELSE w) \in 0..MaxBytes
      BY DEF PumpType
    <3> QED
      BY <2>2, <3>1 DEF written, PumpType
  <2> QED
    BY <2>1, <2>2
<1> QED
  BY <1>1 DEF written, PumpType

(* What is written of a chunk of n bytes when the log has room for MaxBytes. *)
LEMMA CutFacts ==
    ASSUME NEW seen \in Nat, NEW used \in Nat, NEW n \in Nat, NEW w \in Nat,
           used = IF seen <= MaxBytes THEN seen ELSE MaxBytes,
           w = IF MaxBytes - used <= n THEN MaxBytes - used ELSE n
    PROVE  /\ used + w = IF seen + n <= MaxBytes THEN seen + n ELSE MaxBytes
           /\ w < n <=> used + n > MaxBytes
           /\ used + w \in 0..MaxBytes
<1>1. CASE seen <= MaxBytes
  BY <1>1
<1>2. CASE ~(seen <= MaxBytes)
  BY <1>2
<1> QED
  BY <1>1, <1>2

(* One read keeps a pump right, whether the limit is met, crossed or       *)
(* reached exactly, and whether the write before it failed or not.         *)
LEMMA ReadIsOK ==
    ASSUME NEW pump, GoodPump(pump), NEW n \in Nat, pump.seen + n <= MaxOutput,
           pump.writing = 0 \/ pump.used = MaxBytes
    PROVE  GoodPump(pumped(pump, n)) /\ pumped(pump, n).open = pump.open
<1>1. /\ pump.used \in Nat /\ pump.seen \in Nat /\ pump.used <= MaxBytes /\ pump.truncated \in BOOLEAN
      /\ pump.open \in BOOLEAN /\ pump.writing \in 0..MaxBytes /\ pump.log \in 0..MaxBytes
      /\ pump.error \in BOOLEAN /\ pump.gap \in BOOLEAN
  BY DEF GoodPump, PumpType
<1>2. pump.used = IF pump.seen <= MaxBytes THEN pump.seen ELSE MaxBytes
  BY <1>1, MinFacts DEF GoodPump, PumpOK
<1>3. MaxBytes - pump.used \in Nat
  BY <1>1
<1> DEFINE w == Min({MaxBytes - pump.used, n})
<1>4. w = IF MaxBytes - pump.used <= n THEN MaxBytes - pump.used ELSE n
  BY <1>3, MinFacts
<1>5. Min({pump.seen + n, MaxBytes}) = IF pump.seen + n <= MaxBytes THEN pump.seen + n ELSE MaxBytes
  BY <1>1, MinFacts
<1>p. pumped(pump, n) = [written(pump, w) EXCEPT !.seen = @ + n, !.used = @ + w,
                                                 !.truncated = @ \/ w < n]
  BY DEF pumped
<1> HIDE DEF w
<1>6. w \in 0..MaxBytes
  BY <1>1, <1>3, <1>4
<1>7. /\ pump.used + w = IF pump.seen + n <= MaxBytes THEN pump.seen + n ELSE MaxBytes
      /\ w < n <=> pump.used + n > MaxBytes
      /\ pump.used + w \in 0..MaxBytes
  BY <1>1, <1>2, <1>4, <1>6, CutFacts
<1> DEFINE wr == written(pump, w)
           new == [wr EXCEPT !.seen = wr.seen + n, !.used = wr.used + w,
                             !.truncated = wr.truncated \/ w < n]
<1>8. /\ wr \in PumpType
      /\ wr.open = pump.open /\ wr.seen = pump.seen /\ wr.used = pump.used
      /\ wr.truncated = pump.truncated /\ wr.log = pump.log
      /\ wr.writing = IF w = 0 THEN pump.writing ELSE IF pump.error THEN 0 ELSE w
      /\ wr.error <=> pump.error /\ w = 0
      /\ wr.gap <=> pump.gap \/ (pump.error /\ w # 0)
  BY <1>6, WrittenFacts DEF GoodPump
<1>9. pumped(pump, n) = new
  BY <1>p
<1> HIDE DEF wr
<1>10. /\ wr.seen + n \in 0..MaxOutput /\ wr.used + w \in 0..MaxBytes
       /\ (wr.truncated \/ w < n) \in BOOLEAN
  BY <1>1, <1>7, <1>8
<1>11. /\ new \in PumpType /\ new.open = pump.open /\ new.seen = pump.seen + n
       /\ new.used = pump.used + w /\ new.truncated = (pump.truncated \/ w < n)
       /\ new.log = wr.log /\ new.writing = wr.writing /\ new.error = wr.error /\ new.gap = wr.gap
  BY <1>8, <1>10 DEF PumpType
<1> HIDE DEF new
<1>12. (pump.truncated \/ w < n) <=> pump.seen + n > MaxBytes
  BY <1>1, <1>2, <1>7 DEF GoodPump, PumpOK
<1>13. /\ pump.log + pump.writing <= pump.used
       /\ ~pump.gap => pump.log + pump.writing = pump.used
       /\ pump.error => pump.gap
       /\ w # 0 => pump.writing = 0
  BY <1>1, <1>3, <1>4 DEF GoodPump, PumpOK
<1>14. /\ wr.log + wr.writing <= pump.used + w
       /\ ~wr.gap => wr.log + wr.writing = pump.used + w
       /\ wr.error => wr.gap
  BY <1>1, <1>6, <1>8, <1>13
<1>15. PumpOK(new)
  BY <1>5, <1>7, <1>11, <1>12, <1>14 DEF PumpOK
<1> QED
  BY <1>9, <1>11, <1>15 DEF GoodPump

(* The pumps of all processes, as TypeOK and PumpsOK say together. *)
OutOK == out \in [Ids -> [Streams -> PumpType]] /\ \A p \in Ids, s \in Streams : GoodPump(out[p][s])

LEMMA OutFacts == TypeOK /\ PumpsOK => OutOK
BY DEF TypeOK, PumpsOK, OutOK, GoodPump

LEMMA OutFactsNext == OutOK' => PumpsOK'
BY DEF PumpsOK, OutOK, GoodPump

(* A kill is asked for. *)
LEMMA KillProcess ==
    ASSUME IInv, NEW c \in Calls, NEW q \in Ids, kill_process(c, q)
    PROVE  IInv'
<1> USE DEF IInv, kill_process
<1>a. Held' = Held /\ Queue' = Queue
  BY DEF TypeOK, CallsOK, LivesOK, Held, Queue
<1>1. TypeOK'
  BY DEF TypeOK
<1>2. Permits'
  BY <1>a DEF Permits
<1>3. FreshOK'
  BY DEF TypeOK, FreshOK, CallsOK, LivesOK
<1>4. CallsOK'
  BY DEF TypeOK, CallsOK, LivesOK, FreshOK
<1>5. LivesOK'
  BY <1>a DEF TypeOK, CallsOK, LivesOK
<1>6. KilledIsReported'
  BY DEF TypeOK, CallsOK, LivesOK, KilledIsReported
<1>7. PumpsOK'
  BY DEF PumpsOK
<1> QED
  BY <1>1, <1>2, <1>3, <1>4, <1>5, <1>6, <1>7

(* The child is killed, if the lifecycle task has not taken it. *)
LEMMA KillChildren ==
    ASSUME IInv, NEW c \in Calls, KillChild(c)
    PROVE  IInv'
<1> USE DEF IInv, KillChild
<1>a. Held' = Held /\ Queue' = Queue
  BY DEF TypeOK, CallsOK, LivesOK, Held, Queue
<1>1. TypeOK'
  BY DEF TypeOK
<1>2. Permits'
  BY <1>a DEF Permits
<1>3. FreshOK'
  BY DEF TypeOK, FreshOK, CallsOK, LivesOK
<1>4. CallsOK'
  BY DEF TypeOK, CallsOK, LivesOK, FreshOK
<1>5. LivesOK'
  BY <1>a DEF TypeOK, CallsOK, LivesOK
<1>6. KilledIsReported'
  BY DEF TypeOK, CallsOK, LivesOK, KilledIsReported
<1>7. PumpsOK'
  BY DEF PumpsOK
<1> QED
  BY <1>1, <1>2, <1>3, <1>4, <1>5, <1>6, <1>7

(* A record is dropped. *)
LEMMA Cleanup ==
    ASSUME IInv, NEW q \in Ids, cleanup_expired_terminal(q)
    PROVE  IInv'
<1> USE DEF IInv, cleanup_expired_terminal
<1>a. Held' = Held /\ Queue' = Queue
  BY DEF TypeOK, CallsOK, LivesOK, Held, Queue
<1>1. TypeOK'
  BY DEF TypeOK
<1>2. Permits'
  BY <1>a DEF Permits
<1>3. FreshOK'
  BY DEF TypeOK, FreshOK, CallsOK, LivesOK
<1>4. CallsOK'
  BY DEF TypeOK, CallsOK, LivesOK, FreshOK
<1>5. LivesOK'
  BY <1>a DEF TypeOK, CallsOK, LivesOK
<1>6. KilledIsReported'
  BY DEF TypeOK, CallsOK, LivesOK, KilledIsReported
<1>7. PumpsOK'
  BY DEF PumpsOK
<1> QED
  BY <1>1, <1>2, <1>3, <1>4, <1>5, <1>6, <1>7

(* The lifecycle task takes the child. *)
LEMMA LifecycleStarts ==
    ASSUME IInv, NEW q \in Ids, run_lifecycle(q)
    PROVE  IInv'
<1> USE DEF IInv, run_lifecycle
<1>a. Held' = Held /\ Queue' = Queue
  BY DEF TypeOK, CallsOK, LivesOK, Held, Queue
<1>b. OutOK'
  <2>1. PICK S \in SUBSET Streams :
           out' = [out EXCEPT ![q] = [s \in Streams |-> [NewPump EXCEPT !.open = s \in S]]]
    OBVIOUS
  <2>2. \A s \in Streams : GoodPump([NewPump EXCEPT !.open = s \in S])
    <3> TAKE s \in Streams
    <3>1. (s \in S) \in BOOLEAN
      OBVIOUS
    <3> HIDE DEF NewPump
    <3> QED
      BY <3>1, NewPumpIsOK
  <2>3. \A s \in Streams : [NewPump EXCEPT !.open = s \in S] \in PumpType
    BY <2>2 DEF GoodPump
  <2> HIDE DEF NewPump
  <2>4. OutOK
    BY OutFacts
  <2>5. \A p \in Ids : out'[p] = IF p = q THEN [s \in Streams |-> [NewPump EXCEPT !.open = s \in S]] ELSE out[p]
    BY <2>1, <2>4 DEF OutOK
  <2>6. out' \in [Ids -> [Streams -> PumpType]]
    BY <2>1, <2>3, <2>4 DEF OutOK
  <2>7. \A p \in Ids, s \in Streams : GoodPump(out'[p][s])
    BY <2>2, <2>4, <2>5 DEF OutOK
  <2> QED
    BY <2>6, <2>7 DEF OutOK
<1>1. TypeOK'
  BY <1>b DEF TypeOK, OutOK
<1>2. Permits'
  BY <1>a DEF Permits
<1>3. FreshOK'
  BY DEF TypeOK, FreshOK, CallsOK, LivesOK
<1>4. CallsOK'
  BY DEF TypeOK, CallsOK, LivesOK, FreshOK
<1>5. LivesOK'
  BY <1>a DEF TypeOK, CallsOK, LivesOK
<1>6. KilledIsReported'
  BY DEF TypeOK, CallsOK, LivesOK, KilledIsReported
<1>7. PumpsOK'
  BY <1>b, OutFactsNext
<1> QED
  BY <1>1, <1>2, <1>3, <1>4, <1>5, <1>6, <1>7

(* A child ends. *)
LEMMA Exits ==
    ASSUME IInv, NEW q \in Ids, ChildExits(q)
    PROVE  IInv'
<1> USE DEF IInv, ChildExits
<1>a. Held' = Held /\ Queue' = Queue
  BY DEF TypeOK, CallsOK, LivesOK, Held, Queue
<1>1. TypeOK'
  BY DEF TypeOK
<1>2. Permits'
  BY <1>a DEF Permits
<1>3. FreshOK'
  BY DEF TypeOK, FreshOK, CallsOK, LivesOK
<1>4. CallsOK'
  BY DEF TypeOK, CallsOK, LivesOK, FreshOK
<1>5. LivesOK'
  BY <1>a DEF TypeOK, CallsOK, LivesOK
<1>6. KilledIsReported'
  BY DEF TypeOK, CallsOK, LivesOK, KilledIsReported
<1>7. PumpsOK'
  BY DEF PumpsOK
<1> QED
  BY <1>1, <1>2, <1>3, <1>4, <1>5, <1>6, <1>7

(* The timer of a process fires. *)
LEMMA Timeout ==
    ASSUME IInv, NEW q \in Ids, TimeoutFires(q)
    PROVE  IInv'
<1> USE DEF IInv, TimeoutFires
<1>a. Held' = Held /\ Queue' = Queue
  BY DEF TypeOK, CallsOK, LivesOK, Held, Queue
<1>1. TypeOK'
  BY DEF TypeOK
<1>2. Permits'
  BY <1>a DEF Permits
<1>3. FreshOK'
  BY DEF TypeOK, FreshOK, CallsOK, LivesOK
<1>4. CallsOK'
  BY DEF TypeOK, CallsOK, LivesOK, FreshOK
<1>5. LivesOK'
  BY <1>a DEF TypeOK, CallsOK, LivesOK
<1>6. KilledIsReported'
  BY DEF TypeOK, CallsOK, LivesOK, KilledIsReported
<1>7. PumpsOK'
  BY DEF PumpsOK
<1> QED
  BY <1>1, <1>2, <1>3, <1>4, <1>5, <1>6, <1>7

(* The wait for a child returns. *)
LEMMA Waited ==
    ASSUME IInv, NEW q \in Ids, WaitReturns(q)
    PROVE  IInv'
<1> USE DEF IInv, WaitReturns
<1>a. Held' = Held /\ Queue' = Queue
  BY DEF TypeOK, CallsOK, LivesOK, Held, Queue
<1>1. TypeOK'
  BY DEF TypeOK
<1>2. Permits'
  BY <1>a DEF Permits
<1>3. FreshOK'
  BY DEF TypeOK, FreshOK, CallsOK, LivesOK
<1>4. CallsOK'
  BY DEF TypeOK, CallsOK, LivesOK, FreshOK
<1>5. LivesOK'
  BY <1>a DEF TypeOK, CallsOK, LivesOK
<1>6. KilledIsReported'
  BY DEF TypeOK, CallsOK, LivesOK, KilledIsReported
<1>7. PumpsOK'
  BY DEF PumpsOK
<1> QED
  BY <1>1, <1>2, <1>3, <1>4, <1>5, <1>6, <1>7

(* The wait for a child fails. *)
LEMMA WaitIsOver ==
    ASSUME IInv, NEW q \in Ids, WaitFails(q)
    PROVE  IInv'
<1> USE DEF IInv, WaitFails
<1>a. Held' = Held /\ Queue' = Queue
  BY DEF TypeOK, CallsOK, LivesOK, Held, Queue
<1>1. TypeOK'
  BY DEF TypeOK
<1>2. Permits'
  BY <1>a DEF Permits
<1>3. FreshOK'
  BY DEF TypeOK, FreshOK, CallsOK, LivesOK
<1>4. CallsOK'
  BY DEF TypeOK, CallsOK, LivesOK, FreshOK
<1>5. LivesOK'
  BY <1>a DEF TypeOK, CallsOK, LivesOK
<1>6. KilledIsReported'
  BY DEF TypeOK, CallsOK, LivesOK, KilledIsReported
<1>7. PumpsOK'
  BY DEF PumpsOK
<1> QED
  BY <1>1, <1>2, <1>3, <1>4, <1>5, <1>6, <1>7

(* A pump copies what it has read. *)
LEMMA Pumps ==
    ASSUME IInv, NEW q \in Ids, NEW s \in Streams, NEW n \in 1..MaxChunk, pump_stream(q, s, n)
    PROVE  IInv'
<1> USE DEF IInv, pump_stream
<1>a. Held' = Held /\ Queue' = Queue
  BY DEF TypeOK, CallsOK, LivesOK, Held, Queue
<1>b. OutOK' /\ \A p \in Ids, t \in Streams : out'[p][t].open = out[p][t].open
  <2>1. GoodPump(pumped(out[q][s], n)) /\ pumped(out[q][s], n).open = out[q][s].open
    <3>1. /\ GoodPump(out[q][s]) /\ out[q][s].seen + n <= MaxOutput /\ n \in Nat
          /\ out[q][s].writing = 0 \/ out[q][s].used = MaxBytes
      BY OutFacts DEF OutOK
    <3> QED
      BY <3>1, ReadIsOK
  <2> QED
    BY <2>1, OutFacts DEF OutOK, GoodPump
<1>1. TypeOK'
  BY <1>b DEF TypeOK, OutOK
<1>2. Permits'
  BY <1>a DEF Permits
<1>3. FreshOK'
  BY DEF TypeOK, FreshOK, CallsOK, LivesOK
<1>4. CallsOK'
  BY DEF TypeOK, CallsOK, LivesOK, FreshOK
<1>5. LivesOK'
  BY <1>a, <1>b DEF TypeOK, CallsOK, LivesOK
<1>6. KilledIsReported'
  BY DEF TypeOK, CallsOK, LivesOK, KilledIsReported
<1>7. PumpsOK'
  BY <1>b, OutFactsNext
<1> QED
  BY <1>1, <1>2, <1>3, <1>4, <1>5, <1>6, <1>7

(* A pump ends. *)
LEMMA PumpIsDone ==
    ASSUME IInv, NEW q \in Ids, NEW s \in Streams, PumpEnds(q, s)
    PROVE  IInv'
<1> USE DEF IInv, PumpEnds
<1>a. Held' = Held /\ Queue' = Queue
  BY DEF TypeOK, CallsOK, LivesOK, Held, Queue
<1>b. OutOK' /\ \A p \in Ids, t \in Streams : out'[p][t].open => out[p][t].open
  <2>1. GoodPump([out[q][s] EXCEPT !.open = FALSE])
    BY OutFacts DEF OutOK, GoodPump, PumpOK, PumpType
  <2>2. OutOK
    BY OutFacts
  <2>3. \A p \in Ids, t \in Streams :
           out'[p][t] = IF p = q /\ t = s THEN [out[q][s] EXCEPT !.open = FALSE] ELSE out[p][t]
    BY <2>2 DEF OutOK
  <2>4. [out[q][s] EXCEPT !.open = FALSE] \in PumpType /\ ~[out[q][s] EXCEPT !.open = FALSE].open
    <3>1. out[q][s] \in PumpType
      BY <2>2 DEF OutOK
    <3> QED
      BY <3>1 DEF PumpType
  <2>5. out' \in [Ids -> [Streams -> PumpType]]
    BY <2>2, <2>4 DEF OutOK
  <2> QED
    BY <2>1, <2>2, <2>3, <2>4, <2>5 DEF OutOK
<1>1. TypeOK'
  BY <1>b DEF TypeOK, OutOK
<1>2. Permits'
  BY <1>a DEF Permits
<1>3. FreshOK'
  BY DEF TypeOK, FreshOK, CallsOK, LivesOK
<1>4. CallsOK'
  BY DEF TypeOK, CallsOK, LivesOK, FreshOK
<1>5. LivesOK'
  BY <1>a, <1>b DEF TypeOK, CallsOK, LivesOK
<1>6. KilledIsReported'
  BY DEF TypeOK, CallsOK, LivesOK, KilledIsReported
<1>7. PumpsOK'
  BY <1>b, OutFactsNext
<1> QED
  BY <1>1, <1>2, <1>3, <1>4, <1>5, <1>6, <1>7

(* What the thread behind a File has done is in the log. *)
LEMMA WriteIsDone ==
    ASSUME IInv, NEW q \in Ids, NEW s \in Streams, WriteEnds(q, s)
    PROVE  /\ IInv'
           /\ \A p \in Ids, t \in Streams :
                 /\ out'[p][t].seen = out[p][t].seen /\ out'[p][t].used = out[p][t].used
                 /\ out'[p][t].truncated = out[p][t].truncated
                 /\ out'[p][t].log + out'[p][t].writing <= out[p][t].log + out[p][t].writing
<1> USE DEF IInv, WriteEnds
<1>u. UNCHANGED <<record, disk, next_process_id, free, calls, child, slot, life, kill_requested,
                   timed_out, wait_failed, signalled, crashes>>
  OBVIOUS
<1>a. Held' = Held /\ Queue' = Queue
  BY DEF TypeOK, CallsOK, LivesOK, Held, Queue
<1>c. OutOK
  BY OutFacts
<1> DEFINE old == out[q][s]
<1>d. PICK n \in 0..old.writing :
         out' = [out EXCEPT ![q][s] = [old EXCEPT !.log = old.log + n, !.writing = 0,
                                                  !.error = n < old.writing,
                                                  !.gap = old.gap \/ n < old.writing]]
  OBVIOUS
<1> HIDE DEF WriteEnds
<1> DEFINE new == [old EXCEPT !.log = old.log + n, !.writing = 0, !.error = n < old.writing,
                              !.gap = old.gap \/ n < old.writing]
<1>e. /\ GoodPump(new) /\ new.open = old.open /\ new.seen = old.seen /\ new.used = old.used
      /\ new.truncated = old.truncated /\ new.log + new.writing <= old.log + old.writing
  <2>1. GoodPump(old)
    BY <1>c DEF OutOK
  <2> HIDE DEF old
  <2>2. /\ old.used \in 0..MaxBytes /\ old.writing \in 0..MaxBytes /\ old.log \in 0..MaxBytes
        /\ old.seen \in 0..MaxOutput /\ old.open \in BOOLEAN /\ old.truncated \in BOOLEAN
        /\ old.gap \in BOOLEAN /\ n \in 0..old.writing
    BY <2>1 DEF GoodPump, PumpType
  <2>3. /\ old.log + n <= old.log + old.writing /\ old.log + n + 0 <= old.used
        /\ old.log + n \in 0..MaxBytes
        /\ ~(old.gap \/ n < old.writing) => old.log + n + 0 = old.used
    BY <2>1, <2>2 DEF GoodPump, PumpOK
  <2>4. /\ new \in PumpType /\ new.open = old.open /\ new.seen = old.seen /\ new.used = old.used
        /\ new.truncated = old.truncated /\ new.log = old.log + n /\ new.writing = 0
        /\ new.error <=> n < old.writing
        /\ new.gap <=> old.gap \/ n < old.writing
    <3>1. (n < old.writing) \in BOOLEAN /\ (old.gap \/ n < old.writing) \in BOOLEAN
      OBVIOUS
    <3>2. old \in PumpType
      BY <2>1 DEF GoodPump
    <3> DEFINE l == old.log + n
               e == n < old.writing
               g == old.gap \/ n < old.writing
    <3>3. l \in 0..MaxBytes /\ e \in BOOLEAN /\ g \in BOOLEAN /\ 0 \in 0..MaxBytes
      BY <2>3, <3>1
    <3>4. new = [old EXCEPT !.log = l, !.writing = 0, !.error = e, !.gap = g]
      OBVIOUS
    <3> HIDE DEF l, e, g, old, new
    <3>5. new \in PumpType
      BY <3>2, <3>3, <3>4, Zenon DEF PumpType
    <3>6. /\ new.open = old.open /\ new.seen = old.seen /\ new.used = old.used
          /\ new.truncated = old.truncated
      BY <3>2, <3>4 DEF PumpType
    <3>7. new.log = l /\ new.writing = 0 /\ new.error = e /\ new.gap = g
      BY <3>2, <3>4 DEF PumpType
    <3> QED
      BY <3>5, <3>6, <3>7 DEF l, e, g
  <2> HIDE DEF new
  <2>5. PumpOK(new)
    BY <2>1, <2>2, <2>3, <2>4 DEF GoodPump, PumpOK
  <2> QED
    BY <2>2, <2>3, <2>4, <2>5 DEF GoodPump
<1>h. out' = [out EXCEPT ![q][s] = new]
  BY <1>d, Zenon
<1>i. new \in PumpType /\ out \in [Ids -> [Streams -> PumpType]]
  BY <1>c, <1>e DEF OutOK, GoodPump
<1> HIDE DEF new
<1>f. \A p \in Ids, t \in Streams : out'[p][t] = IF p = q /\ t = s THEN new ELSE out[p][t]
  BY <1>h, <1>i
<1>g. out' \in [Ids -> [Streams -> PumpType]]
  BY <1>h, <1>i
<1>b. OutOK' /\ \A p \in Ids, t \in Streams : out'[p][t].open = out[p][t].open
  BY <1>c, <1>e, <1>f, <1>g DEF OutOK
<1>1. TypeOK'
  BY <1>b, <1>u DEF TypeOK, OutOK
<1>2. Permits'
  BY <1>a, <1>u DEF Permits
<1>3. FreshOK'
  BY <1>u DEF FreshOK
<1>4. CallsOK'
  BY <1>u DEF CallsOK
<1>5. LivesOK'
  BY <1>a, <1>b, <1>u DEF LivesOK
<1>6. KilledIsReported'
  BY <1>u DEF KilledIsReported
<1>7. PumpsOK'
  BY <1>b, OutFactsNext
<1>8. \A p \in Ids, t \in Streams :
         /\ out'[p][t].seen = out[p][t].seen /\ out'[p][t].used = out[p][t].used
         /\ out'[p][t].truncated = out[p][t].truncated
         /\ out'[p][t].log + out'[p][t].writing <= out[p][t].log + out[p][t].writing
  <2> SUFFICES ASSUME NEW p \in Ids, NEW t \in Streams
               PROVE  /\ out'[p][t].seen = out[p][t].seen /\ out'[p][t].used = out[p][t].used
                      /\ out'[p][t].truncated = out[p][t].truncated
                      /\ out'[p][t].log + out'[p][t].writing <= out[p][t].log + out[p][t].writing
    OBVIOUS
  <2>1. CASE p = q /\ t = s
    BY <1>e, <1>f, <2>1
  <2>2. CASE ~(p = q /\ t = s)
    <3>1. out'[p][t] = out[p][t]
      BY <1>f, <2>2
    <3>2. out[p][t] \in PumpType
      BY <1>c DEF OutOK
    <3>3. out[p][t].log \in Nat /\ out[p][t].writing \in Nat
      BY <3>2 DEF PumpType
    <3> QED
      BY <3>1, <3>3
  <2> QED
    BY <2>1, <2>2
<1> QED
  BY <1>1, <1>2, <1>3, <1>4, <1>5, <1>6, <1>7, <1>8

(* The record of a child is stored, or not. *)
LEMMA StoresProcess ==
    ASSUME IInv, NEW c \in Calls, StoreProcess(c)
    PROVE  IInv'
<1> USE DEF IInv, StoreProcess
<1>b. PICK pc \in {"insert", "teardown"} : calls' = [calls EXCEPT ![c].pc = pc]
  OBVIOUS
<1>c. \A d \in Calls : calls'[d].id = calls[d].id /\ calls'[d].pc = IF d = c THEN pc ELSE calls[d].pc
  BY <1>b DEF TypeOK
<1>d. /\ disk' \in [Ids -> Terminal \cup {"running", None}]
      /\ calls[c].pc = "store"
      /\ UNCHANGED <<record, next_process_id, free, child, slot, life, kill_requested, timed_out,
                     wait_failed, out, crashes>>
  BY DEF TypeOK, CallsOK
<1>f. /\ signalled' \in [Ids -> BOOLEAN]
      /\ \A p \in Ids : signalled'[p] <=> signalled[p] \/ (p = calls[c].id /\ pc = "teardown")
  <2>1. calls'[c].pc = pc
    BY <1>c
  <2>2. CASE calls' = [calls EXCEPT ![c].pc = "insert"] /\ UNCHANGED signalled
    BY <1>c, <2>1, <2>2 DEF TypeOK
  <2>3. CASE /\ calls' = [calls EXCEPT ![c].pc = "teardown"]
             /\ signalled' = [signalled EXCEPT ![calls[c].id] = TRUE]
    BY <1>c, <2>1, <2>3 DEF TypeOK, CallsOK
  <2> QED
    BY <2>2, <2>3
<1>e. \A p \in Ids : p # calls[c].id => disk'[p] = disk[p]
  BY DEF TypeOK, CallsOK
<1> HIDE DEF StoreProcess
<1>a. Held' = Held /\ Queue' = Queue
  BY <1>c, <1>d DEF Held, Queue
<1>1. TypeOK'
  <2>1. calls' \in [Calls -> [pc : {"idle", "permit", "store", "insert", "teardown", "kill"},
                              id : Ids \cup {None}]]
    <3> DEFINE PC == {"idle", "permit", "store", "insert", "teardown", "kill"}
    <3>1. pc \in PC /\ calls \in [Calls -> [pc : PC, id : Ids \cup {None}]]
      BY DEF TypeOK
    <3> HIDE DEF PC, IInv
    <3>2. [calls[c] EXCEPT !.pc = pc] \in [pc : PC, id : Ids \cup {None}]
      BY <3>1
    <3>3. calls' \in [Calls -> [pc : PC, id : Ids \cup {None}]]
      BY <1>b, <3>1, <3>2
    <3> QED
      BY <3>3 DEF PC
  <2> QED
    BY <1>d, <1>f, <2>1 DEF TypeOK
<1>2. Permits'
  BY <1>a, <1>d DEF Permits
<1>3. FreshOK'
  BY <1>d, <1>e, <1>f DEF TypeOK, FreshOK, CallsOK
<1>4. CallsOK'
  BY <1>b, <1>c, <1>d, <1>f DEF TypeOK, CallsOK
<1>5. LivesOK'
  BY <1>a, <1>d, <1>f DEF TypeOK, CallsOK, LivesOK
<1>6. KilledIsReported'
  BY <1>d, <1>f DEF TypeOK, CallsOK, KilledIsReported
<1>7. PumpsOK'
  BY <1>d DEF PumpsOK
<1> QED
  BY <1>1, <1>2, <1>3, <1>4, <1>5, <1>6, <1>7

(* A process is published. *)
LEMMA InsertsProcess ==
    ASSUME IInv, NEW c \in Calls, InsertProcess(c)
    PROVE  IInv'
<1> USE DEF IInv, InsertProcess
<1>a. Held' = Held /\ Queue' = Queue
  BY DEF TypeOK, CallsOK, LivesOK, Held, Queue
<1>1. TypeOK'
  BY DEF TypeOK
<1>2. Permits'
  BY <1>a DEF Permits
<1>3. FreshOK'
  BY DEF TypeOK, FreshOK, CallsOK, LivesOK
<1>4. CallsOK'
  BY DEF TypeOK, CallsOK, LivesOK, FreshOK
<1>5. LivesOK'
  BY <1>a DEF TypeOK, CallsOK, LivesOK
<1>6. KilledIsReported'
  BY DEF TypeOK, CallsOK, LivesOK, KilledIsReported
<1>7. PumpsOK'
  BY DEF PumpsOK
<1> QED
  BY <1>1, <1>2, <1>3, <1>4, <1>5, <1>6, <1>7

(* A request waits for a permit. *)
LEMMA RunProcess ==
    ASSUME IInv, NEW c \in Calls, run_process(c)
    PROVE  IInv'
<1> USE DEF IInv, run_process
<1>a. Held' = Held /\ Queue' = Queue \cup {c} /\ c \notin Queue
  BY DEF TypeOK, CallsOK, LivesOK, Held, Queue
<1>b. next_process_id + Cardinality(Queue) <= MaxIds
  BY DEF Queue
<1>1. TypeOK'
  BY DEF TypeOK
<1>2. Permits'
  <2>1. Cardinality(Queue') = Cardinality(Queue) + 1
    BY <1>a, Counts, AddOne
  <2>2. Cardinality(Held') = Cardinality(Held)
    BY <1>a
  <2> QED
    BY <1>b, <2>1, <2>2, Counts DEF Permits, TypeOK
<1>3. FreshOK'
  BY DEF TypeOK, FreshOK, CallsOK, LivesOK
<1>4. CallsOK'
  BY DEF TypeOK, CallsOK, LivesOK, FreshOK
<1>5. LivesOK'
  BY <1>a DEF TypeOK, CallsOK, LivesOK
<1>6. KilledIsReported'
  BY DEF TypeOK, CallsOK, LivesOK, KilledIsReported
<1>7. PumpsOK'
  BY DEF PumpsOK
<1> QED
  BY <1>1, <1>2, <1>3, <1>4, <1>5, <1>6, <1>7

(* A child without a record is killed. *)
LEMMA TeardownChild ==
    ASSUME IInv, NEW c \in Calls, teardown_untracked_child(c)
    PROVE  IInv'
<1> USE DEF IInv, teardown_untracked_child
<1>g. calls[c].id < next_process_id
  BY DEF CallsOK
<1>c. calls[c].id \in Ids /\ calls[c].id \in Held
  BY DEF CallsOK, Held
<1>b. Held' = Held \ {calls[c].id}
  BY DEF TypeOK, CallsOK, Held
<1>q. Queue' = Queue /\ calls[c].id \in Held
  BY <1>c DEF TypeOK, Queue
<1>h. Cardinality(Held') = Cardinality(Held) - 1 /\ Cardinality(Held') \in Nat /\ Cardinality(Held) \in Nat
  BY <1>b, <1>c, Counts, RemoveOne
<1>f. free + 1 \in 0..MaxConcurrent
  BY <1>h DEF Permits, TypeOK
<1>1. TypeOK'
  BY <1>f DEF TypeOK
<1>2. Permits'
  BY <1>h, <1>q DEF Permits, TypeOK
<1>3. FreshOK'
  BY <1>c, <1>g DEF TypeOK, FreshOK
<1>4. CallsOK'
  BY DEF TypeOK, CallsOK, LivesOK, FreshOK
<1>5. LivesOK'
  BY <1>b, <1>c DEF TypeOK, CallsOK, LivesOK
<1>6. KilledIsReported'
  BY DEF TypeOK, CallsOK, LivesOK, KilledIsReported
<1>7. PumpsOK'
  BY DEF PumpsOK
<1> QED
  BY <1>1, <1>2, <1>3, <1>4, <1>5, <1>6, <1>7

(* The lifecycle task publishes the status. *)
LEMMA FinishesLifecycle ==
    ASSUME IInv, NEW q \in Ids, FinishLifecycle(q)
    PROVE  IInv'
<1> USE DEF IInv, FinishLifecycle
<1>b. Held' = Held \ {q} /\ q \in Held /\ Queue' = Queue
  BY DEF TypeOK, CallsOK, Held, Queue
<1>e. /\ FinalStatus(q) \in Terminal
      /\ FinalStatus(q) = "completed" => ~wait_failed[q] /\ ~timed_out[q] /\ ~kill_requested[q]
      /\ FinalStatus(q) = "failed" /\ ~wait_failed[q] => ~timed_out[q] /\ ~kill_requested[q]
  BY DEF FinalStatus, TypeOK
<1>h. Cardinality(Held') = Cardinality(Held) - 1 /\ Cardinality(Held') \in Nat /\ Cardinality(Held) \in Nat
  BY <1>b, Counts, RemoveOne
<1>f. free + 1 \in 0..MaxConcurrent
  BY <1>h DEF Permits, TypeOK
<1>g. \A p \in Ids : record'[p] = IF p = q THEN FinalStatus(q) ELSE record[p]
  BY DEF TypeOK
<1>1. TypeOK'
  BY <1>e, <1>f DEF TypeOK
<1>2. Permits'
  BY <1>b, <1>h DEF Permits, TypeOK
<1>3. FreshOK'
  BY DEF TypeOK, FreshOK, LivesOK
<1>4. CallsOK'
  BY DEF TypeOK, CallsOK, LivesOK, FreshOK
<1>5. LivesOK'
  BY <1>b, <1>e DEF TypeOK, CallsOK, LivesOK, PumpsEnded
<1>6. KilledIsReported'
  BY <1>e, <1>g DEF TypeOK, LivesOK, KilledIsReported
<1>7. PumpsOK'
  BY DEF PumpsOK
<1> QED
  BY <1>1, <1>2, <1>3, <1>4, <1>5, <1>6, <1>7

(* A request that has a permit starts its child. *)
LEMMA SpawnsChild ==
    ASSUME IInv, NEW c \in Calls, SpawnChild(c), free' = free - 1
    PROVE  IInv'
<1> USE DEF IInv, SpawnChild
<1>q. Queue' = Queue \ {c} /\ c \in Queue
  BY DEF TypeOK, Queue
<1>h. Cardinality(Queue') = Cardinality(Queue) - 1 /\ Cardinality(Queue') \in Nat /\ Cardinality(Queue) \in Nat
  BY <1>q, Counts, RemoveOne
<1>n. next_process_id \in Ids /\ next_process_id' = next_process_id + 1
  BY <1>h DEF Permits, TypeOK
<1>e. /\ calls[c].pc = "permit" /\ free > 0 /\ free' = free - 1
      /\ child' = [child EXCEPT ![next_process_id] = "running"]
      /\ calls' = [calls EXCEPT ![c] = [pc |-> "store", id |-> next_process_id]]
      /\ UNCHANGED <<record, disk, slot, life, kill_requested, timed_out, wait_failed, signalled, out,
                     crashes>>
  BY DEF TypeOK
<1> HIDE DEF SpawnChild
<1>k. \A d \in Calls : calls'[d] = IF d = c THEN [pc |-> "store", id |-> next_process_id] ELSE calls[d]
  BY <1>e DEF TypeOK
<1>b. Held' = Held \cup {next_process_id} /\ next_process_id \notin Held
  BY <1>e, <1>n, <1>k DEF TypeOK, CallsOK, FreshOK, Held
<1>g. Cardinality(Held') = Cardinality(Held) + 1
  BY <1>b, Counts, AddOne
<1>1. TypeOK'
  BY <1>n, <1>e DEF TypeOK
<1>2. Permits'
  <2>1. free \in Nat /\ next_process_id \in Nat
    BY DEF TypeOK
  <2>2. Cardinality(Held') + free' = MaxConcurrent
    BY <1>e, <1>g, <2>1, Counts DEF Permits
  <2>3. next_process_id' + Cardinality(Queue') <= MaxIds + 1
    BY <1>h, <1>n, <2>1 DEF Permits
  <2> QED
    BY <2>2, <2>3 DEF Permits
<1>3. FreshOK'
  BY <1>e, <1>n DEF TypeOK, FreshOK
<1>4. CallsOK'
  BY <1>e, <1>n, <1>k DEF TypeOK, CallsOK, FreshOK
<1>5. LivesOK'
  BY <1>e, <1>n, <1>b DEF TypeOK, LivesOK, FreshOK
<1>6. KilledIsReported'
  BY <1>e DEF KilledIsReported
<1>7. PumpsOK'
  BY <1>e DEF PumpsOK
<1> QED
  BY <1>1, <1>2, <1>3, <1>4, <1>5, <1>6, <1>7

(* The child of a request cannot be started. *)
LEMMA SpawnFails ==
    ASSUME IInv, NEW c \in Calls, SpawnChild(c), free' # free - 1
    PROVE  IInv'
<1> USE DEF IInv, SpawnChild
<1>q. Queue' = Queue \ {c} /\ c \in Queue
  BY DEF TypeOK, Queue
<1>h. Cardinality(Queue') = Cardinality(Queue) - 1 /\ Cardinality(Queue') \in Nat /\ Cardinality(Queue) \in Nat
  BY <1>q, Counts, RemoveOne
<1>n. next_process_id \in Ids /\ next_process_id' = next_process_id + 1
  BY <1>h DEF Permits, TypeOK
<1>e. /\ calls[c].pc = "permit" /\ calls' = [calls EXCEPT ![c] = Idle]
      /\ UNCHANGED <<free, child, record, disk, slot, life, kill_requested, timed_out, wait_failed,
                     signalled, out, crashes>>
  OBVIOUS
<1> HIDE DEF SpawnChild
<1>k. \A d \in Calls : calls'[d] = IF d = c THEN Idle ELSE calls[d]
  BY <1>e DEF TypeOK
<1>b. Held' = Held
  BY <1>e, <1>k DEF Held
<1>1. TypeOK'
  BY <1>n, <1>e DEF TypeOK
<1>2. Permits'
  BY <1>n, <1>h, <1>b, <1>e, Counts DEF Permits, TypeOK
<1>3. FreshOK'
  BY <1>e, <1>n DEF TypeOK, FreshOK
<1>4. CallsOK'
  BY <1>e, <1>n, <1>k DEF TypeOK, CallsOK
<1>5. LivesOK'
  BY <1>e, <1>n, <1>b DEF TypeOK, LivesOK
<1>6. KilledIsReported'
  BY <1>e DEF KilledIsReported
<1>7. PumpsOK'
  BY <1>e DEF PumpsOK
<1> QED
  BY <1>1, <1>2, <1>3, <1>4, <1>5, <1>6, <1>7

(* A request is dropped while it waits for a permit, or kills. *)
LEMMA DropsWaiting ==
    ASSUME IInv, NEW c \in Calls, DropCall(c), calls[c].pc \notin {"insert", "teardown"}
    PROVE  IInv'
<1> USE DEF IInv, DropCall
<1>a. Held' = Held /\ Queue' = Queue \ {c}
  BY DEF TypeOK, CallsOK, LivesOK, Held, Queue
<1>h. Cardinality(Queue') <= Cardinality(Queue) /\ Cardinality(Queue') \in Nat
  <2>1. Queue' \in SUBSET Queue
    BY <1>a
  <2> QED
    BY <2>1, Counts, FS_Subset, FS_CardinalityType
<1>1. TypeOK'
  BY DEF TypeOK
<1>2. Permits'
  BY <1>a, <1>h, Counts DEF Permits, TypeOK
<1>3. FreshOK'
  BY DEF TypeOK, FreshOK, CallsOK, LivesOK
<1>4. CallsOK'
  BY DEF TypeOK, CallsOK, LivesOK, FreshOK
<1>5. LivesOK'
  BY <1>a DEF TypeOK, CallsOK, LivesOK
<1>6. KilledIsReported'
  BY DEF TypeOK, CallsOK, LivesOK, KilledIsReported
<1>7. PumpsOK'
  BY DEF PumpsOK
<1> QED
  BY <1>1, <1>2, <1>3, <1>4, <1>5, <1>6, <1>7

(* A request is dropped before it publishes its process, or kills it. *)
LEMMA DropsInsert ==
    ASSUME IInv, NEW c \in Calls, DropCall(c), calls[c].pc \in {"insert", "teardown"}
    PROVE  IInv'
<1> USE DEF IInv, DropCall
<1>c. calls[c].id \in Ids /\ calls[c].id \in Held
  BY DEF CallsOK, Held
<1>b. Held' = Held \ {calls[c].id}
  BY DEF TypeOK, CallsOK, Held
<1>q. Queue' = Queue /\ calls[c].id \in Held
  BY <1>c DEF TypeOK, Queue
<1>h. Cardinality(Held') = Cardinality(Held) - 1 /\ Cardinality(Held') \in Nat /\ Cardinality(Held) \in Nat
  BY <1>b, <1>c, Counts, RemoveOne
<1>f. free + 1 \in 0..MaxConcurrent
  BY <1>h DEF Permits, TypeOK
<1>e. /\ signalled' = [signalled EXCEPT ![calls[c].id] = TRUE]
      /\ free' = free + 1 /\ calls' = [calls EXCEPT ![c] = Idle]
      /\ UNCHANGED <<record, disk, next_process_id, child, slot, life, kill_requested, timed_out,
                     wait_failed, out, crashes>>
  OBVIOUS
<1> HIDE DEF DropCall
<1>1. TypeOK'
  BY <1>e, <1>f DEF TypeOK
<1>2. Permits'
  BY <1>e, <1>h, <1>q DEF Permits, TypeOK
<1>3. FreshOK'
  BY <1>c, <1>e DEF TypeOK, FreshOK, CallsOK
<1>4. CallsOK'
  BY <1>c, <1>e DEF TypeOK, CallsOK
<1>5. LivesOK'
  BY <1>b, <1>c, <1>e DEF TypeOK, CallsOK, LivesOK
<1>6. KilledIsReported'
  BY <1>c, <1>e DEF TypeOK, CallsOK, KilledIsReported
<1>7. PumpsOK'
  BY <1>e DEF PumpsOK
<1> QED
  BY <1>1, <1>2, <1>3, <1>4, <1>5, <1>6, <1>7

(* The id after a restart is above every id in the store. *)
LEMMA HydratedFacts ==
    ASSUME TypeOK
    PROVE  HydratedId \in 1..MaxIds + 1 /\ \A p \in Ids : p >= HydratedId => disk[p] = None
<1> DEFINE S == {p \in Ids : disk[p] # None} \cup {0}
<1>1. S \in SUBSET (0..MaxIds) /\ S # {}
  OBVIOUS
<1>2. Max(S) \in S /\ \A y \in S : y <= Max(S)
  <2> HIDE DEF S
  <2> QED
    BY <1>1, MaxFacts
<1>3. HydratedId = Max(S) + 1
  BY DEF HydratedId
<1>4. Max(S) \in 0..MaxIds
  BY <1>1, <1>2
<1>5. \A p \in Ids : disk[p] # None => p <= Max(S)
  BY <1>2
<1> HIDE DEF S
<1> QED
  BY <1>3, <1>4, <1>5

(* The server dies and starts again. *)
LEMMA Crashes ==
    ASSUME IInv, Crash
    PROVE  IInv'
<1> USE DEF IInv, Crash
<1> HIDE DEF NewPump
<1>a. Held' = {} /\ Queue' = {}
  BY DEF Held, Queue
<1>b. OutOK' /\ \A p \in Ids, t \in Streams : ~out'[p][t].open
  <2>1. GoodPump(NewPump) /\ ~NewPump.open /\ NewPump \in PumpType
    BY NewPumpIsOK DEF GoodPump
  <2> QED
    BY <2>1 DEF OutOK
<1>1. TypeOK'
  <2>1. disk' \in [Ids -> Terminal \cup {"running", None}] /\ record' = disk'
    BY DEF TypeOK, Recovered
  <2>2. next_process_id' \in 1..MaxIds + 1 /\ free' \in 0..MaxConcurrent
    BY HydratedFacts
  <2>3. child' \in [Ids -> Exited \cup {"none", "running", "gone"}]
    BY DEF TypeOK
  <2>4. calls' \in [Calls -> [pc : {"idle", "permit", "store", "insert", "teardown", "kill"},
                             id : Ids \cup {None}]]
    OBVIOUS
  <2>5. crashes' \in Nat
    BY DEF TypeOK
  <2>6. out' \in [Ids -> [Streams -> PumpType]]
    BY <1>b DEF OutOK
  <2> QED
    BY <2>1, <2>2, <2>3, <2>4, <2>5, <2>6 DEF TypeOK
<1>2. Permits'
  BY <1>a, FS_EmptySet, HydratedFacts DEF Permits, TypeOK
<1>3. FreshOK'
  BY HydratedFacts DEF TypeOK, FreshOK, Recovered
<1>4. CallsOK'
  BY DEF CallsOK
<1>5. LivesOK'
  BY <1>a, <1>b DEF TypeOK, LivesOK, Recovered
<1>6. KilledIsReported'
  BY DEF KilledIsReported
<1>7. PumpsOK'
  BY <1>b, OutFactsNext
<1> QED
  BY <1>1, <1>2, <1>3, <1>4, <1>5, <1>6, <1>7

(* The initial state. *)
LEMMA Initially == ASSUME Init PROVE IInv
<1> USE DEF Init
<1> HIDE DEF NewPump
<1>a. Held = {} /\ Queue = {}
  BY DEF Held, Queue
<1>b. OutOK /\ \A p \in Ids, t \in Streams : ~out[p][t].open
  <2>1. GoodPump(NewPump) /\ ~NewPump.open /\ NewPump \in PumpType
    BY NewPumpIsOK DEF GoodPump
  <2> QED
    BY <2>1 DEF OutOK
<1>1. TypeOK
  <2>1. out \in [Ids -> [Streams -> PumpType]]
    BY <1>b DEF OutOK
  <2>2. /\ record \in [Ids -> Terminal \cup {"running", None}] /\ disk = record
        /\ child \in [Ids -> Exited \cup {"none", "running", "gone"}]
        /\ life \in [Ids -> {"none", "start", "waiting", "killing", "draining", "done"}]
    OBVIOUS
  <2>3. /\ slot \in [Ids -> BOOLEAN] /\ kill_requested \in [Ids -> BOOLEAN]
        /\ timed_out = kill_requested /\ wait_failed = kill_requested /\ signalled = kill_requested
    OBVIOUS
  <2>4. calls \in [Calls -> [pc : {"idle", "permit", "store", "insert", "teardown", "kill"},
                             id : Ids \cup {None}]]
    OBVIOUS
  <2>5. next_process_id \in 1..MaxIds + 1 /\ free \in 0..MaxConcurrent /\ crashes \in Nat
    OBVIOUS
  <2> HIDE DEF Init
  <2> QED
    BY <2>1, <2>2, <2>3, <2>4, <2>5 DEF TypeOK
<1>2. Permits
  BY <1>a, FS_EmptySet DEF Permits
<1>3. FreshOK
  BY DEF FreshOK
<1>4. CallsOK
  BY DEF CallsOK
<1>5. LivesOK
  BY <1>b DEF LivesOK
<1>6. KilledIsReported
  BY DEF KilledIsReported
<1>7. PumpsOK
  BY <1>b DEF PumpsOK, OutOK, GoodPump
<1> QED
  BY <1>1, <1>2, <1>3, <1>4, <1>5, <1>6, <1>7 DEF IInv

-----------------------------------------------------------------------------
(* Every step keeps the invariant. *)
LEMMA Inductive == ASSUME IInv, [Next]_vars PROVE IInv'
<1>1. CASE \E c \in Calls : run_process(c) \/ RunStep(c) \/ DropCall(c) \/ \E p \in Ids : kill_process(c, p)
  BY <1>1, RunProcess, SpawnsChild, SpawnFails, StoresProcess, TeardownChild, InsertsProcess,
     KillChildren, DropsWaiting, DropsInsert, KillProcess DEF RunStep
<1>2. CASE \E p \in Ids : Lifecycle(p) \/ TimeoutFires(p) \/ ChildExits(p) \/ cleanup_expired_terminal(p)
  BY <1>2, LifecycleStarts, Waited, WaitIsOver, FinishesLifecycle, Timeout, Exits, Cleanup DEF Lifecycle
<1>3. CASE \E p \in Ids, s \in Streams : Pump(p, s)
  BY <1>3, Pumps, PumpIsDone, WriteIsDone DEF Pump
<1>4. CASE Crash
  BY <1>4, Crashes
<1>5. CASE UNCHANGED vars
  <2> USE <1>5 DEF vars
  <2>1. Held' = Held /\ Queue' = Queue
    BY DEF Held, Queue
  <2>2. TypeOK' /\ Permits' /\ FreshOK'
    BY <2>1 DEF IInv, TypeOK, Permits, FreshOK
  <2>3. CallsOK' /\ LivesOK'
    BY <2>1 DEF IInv, CallsOK, LivesOK
  <2>4. KilledIsReported' /\ PumpsOK'
    BY DEF IInv, KilledIsReported, PumpsOK
  <2> QED
    BY <2>2, <2>3, <2>4 DEF IInv
<1> QED
  BY <1>1, <1>2, <1>3, <1>4, <1>5 DEF Next

(* The invariant of the process manager, over all crashes and faults. *)
THEOREM InductiveInvariant == Spec => []IInv
BY Initially, Inductive, PTL DEF Spec

(* Every variable keeps its type. *)
THEOREM TypeCorrect == Spec => []TypeOK
<1>1. IInv => TypeOK
  BY DEF IInv
<1> QED
  BY <1>1, InductiveInvariant, PTL

(***************************************************************************)
(* A running child has a permit of its own until it is sent SIGKILL.  The  *)
(* permit comes back exactly once: on a failed start, store or wait, a     *)
(* dropped request, a kill, a timeout or an exit; max_concurrent bounds    *)
(* the children that are not being killed.                                 *)
(***************************************************************************)
THEOREM PermitsBoundChildren == Spec => []ChildrenHavePermits
<1>1. IInv => ChildrenHavePermits
  <2> SUFFICES ASSUME IInv PROVE ChildrenHavePermits
    OBVIOUS
  <2> DEFINE R == {p \in Ids : child[p] = "running" /\ ~signalled[p]}
  <2>1. R \in SUBSET Held
    BY DEF IInv, LivesOK
  <2>2. Cardinality(R) <= Cardinality(Held) /\ Cardinality(R) \in Nat
    <3> HIDE DEF R
    <3> QED
      BY <2>1, Counts, FS_Subset, FS_CardinalityType
  <2>3. free \in Nat /\ Cardinality(Held) + free = MaxConcurrent /\ Cardinality(Held) \in Nat
    BY Counts DEF IInv, TypeOK, Permits
  <2>4. Cardinality(R) + free <= MaxConcurrent
    <3> HIDE DEF R
    <3> QED
      BY <2>2, <2>3
  <2> QED
    BY <2>4 DEF ChildrenHavePermits
<1> QED
  BY <1>1, InductiveInvariant, PTL

(* A child that the server killed is never reported as having completed,   *)
(* and as failed only if its wait failed.                                  *)
THEOREM KillsAreReported == Spec => []KilledIsReported
<1>1. IInv => KilledIsReported
  BY DEF IInv
<1> QED
  BY <1>1, InductiveInvariant, PTL

(***************************************************************************)
(* Whatever the size of the chunks and however slow the writes, the log    *)
(* with the write under way is the longest prefix of the output that fits, *)
(* less the bytes whose writing failed, and the truncation flag says       *)
(* whether more was read.                                                  *)
(***************************************************************************)
THEOREM LogsArePrefixes == Spec => []LogIsPrefix
<1>1. IInv => LogIsPrefix
  BY DEF IInv, PumpsOK, PumpOK, LogIsPrefix
<1> QED
  BY <1>1, InductiveInvariant, PTL

(* What may still become of the output of a pump that has ended. *)
Final(old, new) ==
    /\ new.seen = old.seen /\ new.used = old.used /\ new.truncated = old.truncated
    /\ new.log + new.writing <= old.log + old.writing

(* The pumps of a process are awaited before its status is published. *)
LEMMA EndedIsQuiet ==
    ASSUME IInv, [Next]_vars, NEW q \in Ids, record[q] \in Terminal, crashes' = crashes,
           NEW t \in Streams
    PROVE  Final(out[q][t], out'[q][t])
<1>1. life[q] \notin Alive /\ \A s \in Streams : ~out[q][s].open
  BY DEF IInv, TypeOK, LivesOK
<1>s. SUFFICES ASSUME ~\E p \in Ids, s \in Streams : WriteEnds(p, s)
               PROVE  out'[q] = out[q]
  <2>1. CASE \E p \in Ids, s \in Streams : WriteEnds(p, s)
    BY <2>1, WriteIsDone DEF Final
  <2>2. out[q][t].log \in Nat /\ out[q][t].writing \in Nat
    BY DEF IInv, TypeOK, PumpType
  <2>3. CASE out'[q] = out[q]
    BY <2>2, <2>3 DEF Final
  <2> QED
    BY <2>1, <2>3
<1>2. CASE \E c \in Calls : run_process(c) \/ RunStep(c) \/ DropCall(c) \/ \E p \in Ids : kill_process(c, p)
  BY <1>2 DEF RunStep, run_process, SpawnChild, StoreProcess, teardown_untracked_child, InsertProcess,
     KillChild, DropCall, kill_process
<1>3. ASSUME NEW p \in Ids,
             Lifecycle(p) \/ TimeoutFires(p) \/ ChildExits(p) \/ cleanup_expired_terminal(p)
      PROVE  out'[q] = out[q]
  <2>1. CASE run_lifecycle(p)
    <3>1. p # q
      BY <1>1, <2>1 DEF run_lifecycle
    <3> QED
      BY <2>1, <3>1 DEF run_lifecycle, IInv, TypeOK
  <2>2. CASE ~run_lifecycle(p)
    BY <1>3, <2>2 DEF Lifecycle, TimeoutFires, ChildExits, cleanup_expired_terminal, WaitReturns,
       WaitFails, FinishLifecycle
  <2> QED
    BY <2>1, <2>2
<1>4. ASSUME NEW p \in Ids, NEW s \in Streams, Pump(p, s)
      PROVE  out'[q] = out[q]
  <2>1. out[p][s].open /\ (p # q => out'[q] = out[q])
    BY <1>4, <1>s DEF Pump, pump_stream, PumpEnds, IInv, TypeOK
  <2> QED
    BY <1>1, <2>1
<1>5. CASE Crash
  BY <1>5 DEF Crash, IInv, TypeOK
<1>6. CASE UNCHANGED vars
  BY <1>6 DEF vars
<1> QED
  BY <1>2, <1>3, <1>4, <1>5, <1>6 DEF Next

(***************************************************************************)
(* Once a process has its final status nothing more of its output is read  *)
(* or counted, and only the write that a pump left behind may reach the    *)
(* log.                                                                    *)
(***************************************************************************)
THEOREM EndedLogsAreFinal == Spec => NothingAfterEnd
<1>1. ASSUME IInv, [Next]_vars
      PROVE  [\A p \in Ids, s \in Streams : record[p] \in Terminal /\ crashes' = crashes =>
                 LET old == out[p][s]
                     new == out'[p][s]
                 IN  /\ new.seen = old.seen /\ new.used = old.used /\ new.truncated = old.truncated
                     /\ new.log + new.writing <= old.log + old.writing]_vars
  BY <1>1, EndedIsQuiet DEF Final
<1> QED
  BY <1>1, InductiveInvariant, PTL DEF Spec, NothingAfterEnd
=============================================================================
