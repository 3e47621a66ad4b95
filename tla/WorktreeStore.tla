--------------------------- MODULE WorktreeStore ---------------------------
(***************************************************************************)
(* The rows that the worktree service keeps in the store, the transaction  *)
(* that writes one of them, and the repair of what an earlier run left     *)
(* (runtime-tools/src/worktree/mod.rs).  A worktree is identified by its   *)
(* repository, path and branch, here a name of Names; the same identity    *)
(* written with blanks around it is another key to the store.              *)
(***************************************************************************)
EXTENDS Naturals, FiniteSets

CONSTANTS Names,       \* identities of worktrees
          Sessions,    \* session ids
          None,
          MaxIds       \* bound on the rows of managed_worktrees

Ids == 1..MaxIds
Policies == {"delete_on_last_claim", "retain_on_last_claim"}
ClaimStates == {None, "active", "released"}

(* A row of managed_worktrees: a record with an empty field is "blank", and *)
(* every tombstone has an identity of its own.                              *)
Row == [identity : Names \cup {"blank", "tombstone"}, padded : BOOLEAN, policy : Policies,
        created_at : Nat]

ASSUME StoreConstants ==
    /\ MaxIds \in Nat \ {0} /\ {None, "blank", "tombstone"} \cap Names = {}
    /\ None \notin Row /\ None \notin Ids /\ None \notin {"active", "released"}

Rows == [Ids -> Row \cup {None}]
Claims == [Ids -> [Sessions -> ClaimStates]]

Known(rows) == {i \in Ids : rows[i] # None}
is_record_tombstoned(row) == row.identity = "tombstone"
tombstone_record(row) ==
    [row EXCEPT !.identity = "tombstone", !.padded = FALSE, !.policy = "retain_on_last_claim"]

(* A row of the same identity is updated in place and keeps its id. *)
upsert_managed_worktree(rows, id, row) ==
    LET same == {i \in Known(rows) : /\ ~is_record_tombstoned(row)
                                     /\ rows[i].identity = row.identity
                                     /\ rows[i].padded = row.padded}
    IN  [rows EXCEPT ![IF same = {} THEN id ELSE CHOOSE i \in same : TRUE] = row]

-----------------------------------------------------------------------------
(* Startup repair *)

merge_deletion_policy(policies) ==
    IF "delete_on_last_claim" \in policies THEN "delete_on_last_claim" ELSE "retain_on_last_claim"

(* Mutant: a claim that is still held anywhere stays held. *)
merge_released_at_if_all(states) ==
    IF states = {} THEN None ELSE IF "active" \in states THEN "active" ELSE "released"

(* A claim that was released under one of its keys is released. *)
merge_released_at(states) ==
    IF states = {} THEN None ELSE IF "released" \in states THEN "released" ELSE "active"

(* The oldest of a non-empty set of rows; ids break the tie. *)
Oldest(rows, S) ==
    CHOOSE i \in S : \A j \in S : \/ rows[i].created_at < rows[j].created_at
                                  \/ rows[i].created_at = rows[j].created_at /\ i <= j

Malformed(rows) == {i \in Known(rows) : rows[i].identity = "blank"}

(* The rows that are the same worktree once their fields are trimmed. *)
Duplicates(rows, i) ==
    IF is_record_tombstoned(rows[i]) THEN {i}
    ELSE {j \in Known(rows) : rows[j].identity = rows[i].identity}

Winners(rows) == {i \in Known(rows) \ Malformed(rows) : i = Oldest(rows, Duplicates(rows, i))}
Losers(rows) == Known(rows) \ (Malformed(rows) \cup Winners(rows))

MergedWinner(rows, i) ==
    [rows[i] EXCEPT !.padded = FALSE,
                    !.policy = merge_deletion_policy({rows[j].policy : j \in Duplicates(rows, i)})]

(* What becomes of the claim of s on w, a winner or a malformed row, before *)
(* and after only the one on the oldest worktree is kept for each session.  *)
MergedClaim(rows, claims, w, s) ==
    IF w \in Malformed(rows)
    THEN IF claims[w][s] = None THEN None ELSE "released"
    ELSE merge_released_at({claims[j][s] : j \in Duplicates(rows, w)} \ {None})

(* Mutant: the claims of one session are not compared. *)
RepairedClaimOnly(rows, claims, w, s) == MergedClaim(rows, claims, w, s)

RepairedClaim(rows, claims, w, s) ==
    LET held == {v \in Winners(rows) : MergedClaim(rows, claims, v, s) = "active"}
    IN  IF w \in held /\ w # Oldest(rows, held) THEN "released" ELSE MergedClaim(rows, claims, w, s)

(* The writes of repair_startup_state on what it read: merged and dropped  *)
(* rows, then claims.  Those of one phase go by their ids, which are names *)
(* without an order here.                                                  *)
repair_startup_state(rows, claims) ==
    LET row(phase, i, r) == [phase |-> phase, id |-> i, row |-> r]
        claim(phase, k, v) == [phase |-> phase, id |-> k[1], session |-> k[2], state |-> v]
        merged == {k \in (Winners(rows) \cup Malformed(rows)) \X Sessions :
                      MergedClaim(rows, claims, k[1], k[2]) # None}
        dropped == {k \in Losers(rows) \X Sessions : claims[k[1]][k[2]] # None}
    IN  {row(1, i, MergedWinner(rows, i)) : i \in Winners(rows)}
        \cup {row(2, i, tombstone_record(rows[i])) : i \in Losers(rows)}
        \cup {row(3, i, tombstone_record(rows[i])) : i \in Malformed(rows)}
        \cup {claim(4, k, RepairedClaim(rows, claims, k[1], k[2])) : k \in merged}
        \cup {claim(5, k, "released") : k \in dropped}
=============================================================================
