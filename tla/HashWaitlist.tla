---------------------------- MODULE HashWaitlist ----------------------------
(***************************************************************************)
(* What the hash layer promises the request state engine (spec section 6, *)
(* HSH_Lookup, HSH_Unbusy, HSH_Drop, HSH_Deref): per key, at most one      *)
(* fetch is in progress ("busy"), and only when nothing is cached; a       *)
(* lookup that finds the fetch parks on the key's waiting list; the fetch  *)
(* ends (object inserted or given up) in one step with the whole waiting   *)
(* list rescheduled; nothing else empties a waiting list.  A child panic   *)
(* loses everything at once.                                               *)
(***************************************************************************)
EXTENDS Naturals

CONSTANTS Sess, Keys

VARIABLES
    fetches,     \* fetches[k]: busy objcores for k
    cached,      \* cached[k]: a valid object for k can be found
    waiting      \* waiting[k]: sessions parked on k's waiting list

Parked == UNION {waiting[k] : k \in Keys}

Init ==
    /\ fetches = [k \in Keys |-> 0]
    /\ cached = [k \in Keys |-> FALSE]
    /\ waiting = [k \in Keys |-> {}]

\* A lookup misses: a new busy objcore.
Begin(k) ==
    /\ ~cached[k] /\ fetches[k] = 0
    /\ fetches' = [fetches EXCEPT ![k] = 1]
    /\ UNCHANGED <<cached, waiting>>

\* A lookup finds only the busy objcore and parks.
Park(s, k) ==
    /\ ~cached[k] /\ fetches[k] = 1 /\ s \notin Parked
    /\ waiting' = [waiting EXCEPT ![k] = @ \cup {s}]
    /\ UNCHANGED <<fetches, cached>>

\* The fetch ends, the object cached or not, and the waiting list is rushed.
Finish(k, c) ==
    /\ fetches[k] = 1
    /\ fetches' = [fetches EXCEPT ![k] = 0]
    /\ cached' = [cached EXCEPT ![k] = c]
    /\ waiting' = [waiting EXCEPT ![k] = {}]

\* The expiry thread removes the cached object.
Evict(k) ==
    /\ cached[k]
    /\ cached' = [cached EXCEPT ![k] = FALSE]
    /\ UNCHANGED <<fetches, waiting>>

Crash ==
    /\ fetches' = [k \in Keys |-> 0]
    /\ cached' = [k \in Keys |-> FALSE]
    /\ waiting' = [k \in Keys |-> {}]

Next ==
    \/ \E k \in Keys : Begin(k) \/ Evict(k) \/ \E c \in BOOLEAN : Finish(k, c)
    \/ \E s \in Sess, k \in Keys : Park(s, k)
    \/ Crash

Spec == Init /\ [][Next]_<<fetches, cached, waiting>>

\* The promise behind parking: a fetch that has begun is eventually ended,
\* with the object cached or given up.  Evictions and crashes are not fair.
FetchFairness ==
    \A k \in Keys : WF_<<fetches, cached, waiting>>(\E c \in BOOLEAN : Finish(k, c))

LiveSpec == Spec /\ FetchFairness

=============================================================================
