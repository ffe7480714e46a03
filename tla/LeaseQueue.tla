----------------------------- MODULE LeaseQueue -----------------------------
(***************************************************************************)
(* What the ingestion queue promises its workers.  A submitted job is      *)
(* queued, leased to one worker, or settled (done or failed) for good.     *)
(* Only the holder of a lease can settle its job or put it back.           *)
(***************************************************************************)
CONSTANTS Jobs, Workers

VARIABLES queued, leases, done, failed

vars == <<queued, leases, done, failed>>

Leased == UNION {leases[w] : w \in Workers}

Init ==
    /\ queued = {}
    /\ leases = [w \in Workers |-> {}]
    /\ done = {}
    /\ failed = {}

\* Jobs seen before are not submitted again.
Submit(P) ==
    /\ P \cap (queued \cup Leased \cup done \cup failed) = {}
    /\ queued' = queued \cup P
    /\ UNCHANGED <<leases, done, failed>>

Lease(w, S) ==
    /\ leases[w] = {}
    /\ S \subseteq queued
    /\ queued' = queued \ S
    /\ leases' = [leases EXCEPT ![w] = S]
    /\ UNCHANGED <<done, failed>>

\* The holder gives up the jobs of S: those of D are done, those of F
\* failed, the others are queued again.
Release(w, S, D, F) ==
    /\ D \cap F = {}
    /\ D \cup F \subseteq S
    /\ leases' = [leases EXCEPT ![w] = @ \ S]
    /\ queued' = queued \cup (S \ (D \cup F))
    /\ done' = done \cup D
    /\ failed' = failed \cup F

Next ==
    \/ \E P \in SUBSET Jobs : Submit(P)
    \/ \E w \in Workers :
          \/ \E S \in SUBSET queued : Lease(w, S)
          \/ \E S \in SUBSET leases[w] :
                \E D, F \in SUBSET S : Release(w, S, D, F)

Spec == Init /\ [][Next]_vars
=============================================================================
