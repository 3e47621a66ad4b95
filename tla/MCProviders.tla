---------------------------- MODULE MCProviders ----------------------------
(* Instances of the provider modules for TLC.  Providers share no state:   *)
(* in a behaviour one of them has requests and the other has none.         *)
EXTENDS AcpProvider, ClaudeProvider, TLC

(* Callers and sessions are only compared. *)
Symmetry == Permutations(Calls) \cup Permutations(Sessions)

Scope(requests, faults, S, T, C) ==
    [requests |-> requests, faults |-> faults, sessions |-> S, turns |-> T, calls |-> C]

Idle == Scope({}, {}, {}, {}, {})

(* Two callers suffice, but for a recycle between two that resume. *)
Pairs == {C \in SUBSET Calls : Cardinality(C) = 2}

(* ACP.  One session: a turn that is interrupted, waited for and closed    *)
(* while the agent exits; approvals, and requests that are dropped; two    *)
(* turns after each other; a connection that breaks; resuming.  Two        *)
(* sessions, room for one, and every fault.                                *)
AcpScopes ==
    {Idle} \cup {Scope({"new", "close"}, AllFaults, Sessions, {}, C) : C \in Pairs} \cup
    UNION {{Scope({"new", "send", "interrupt", "wait", "close"}, {"exit"}, {s}, {1}, C),
            Scope({"new", "approve", "wait", "close"}, {"drop"}, {s}, {1}, C),
            Scope({"new", "approve", "send", "interrupt"}, {}, {s}, Turns, C),
            Scope({"new", "resume", "send", "wait"}, {"garbage", "request"}, {s}, {1}, C)} :
           s \in Sessions, C \in Pairs} \cup
    {Scope({"new", "send", "close"}, {"spawn", "garbage"}, {s}, {1}, {c}) : s \in Sessions, c \in Calls}

(* Claude.  One session: turns that are waited for and interrupted; a turn *)
(* whose session is resumed or closed meanwhile; new credentials.  Two     *)
(* sessions that share the pool while bridges do not answer and requests   *)
(* are dropped.  One caller and two sessions on bridges that fail.         *)
ClaudeScopes ==
    {Idle} \cup {Scope({"new", "resume"}, {"ping", "timeout", "drop"}, Sessions, {}, C) : C \in Pairs} \cup
    UNION {{Scope({"new", "send", "wait", "interrupt"}, {"exit", "timeout"}, {s}, {1}, C),
            Scope({"new", "send", "wait"}, {}, {s}, BTurns, C),
            Scope({"new", "resume", "send", "wait"}, {}, {s}, {1}, C),
            Scope({"new", "send", "close"}, {"drop"}, {s}, {1}, C),
            Scope({"new", "resume", "recycle"}, {}, {s}, {}, Calls)} : s \in Sessions, C \in Pairs} \cup
    {Scope({"new", "resume", "close", "recycle"}, {"exit", "drop"}, Sessions, {}, {c}) : c \in Calls}

MCInit == AInit /\ CInit /\ (scope = Idle) # (cscope = Idle)
MCNext == (ANext /\ UNCHANGED cvars) \/ (CNext /\ UNCHANGED avars)
MCSpec == MCInit /\ [][MCNext]_<<avars, cvars>>
=============================================================================
