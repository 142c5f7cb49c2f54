------------------------------ MODULE XidAlloc ------------------------------
(***************************************************************************)
(* What the request counter promises (spec section 3: every request gets  *)
(* the next transaction id, and xid is 0 outside a request): the counter  *)
(* and the session's xid move together in one indivisible step, modulo     *)
(* the counter's width.  Clearing the xid at the end of a request and      *)
(* setting the counter from the CLI are the only other changes.            *)
(***************************************************************************)
EXTENDS Naturals

CONSTANTS Sess, XidBits

VARIABLES xids, xid

Modulus == 2^XidBits

\* A request begins: the counter is incremented and its new value is the
\* request's xid, as one step.
Assign(s) ==
    /\ xid[s] = 0
    /\ xids' = (xids + 1) % Modulus
    /\ xid' = [xid EXCEPT ![s] = (xids + 1) % Modulus]

\* The request is over.
Clear(s) ==
    /\ xid' = [xid EXCEPT ![s] = 0]
    /\ UNCHANGED xids

\* The counter is set to an arbitrary value.
Set(v) ==
    /\ xids' = v
    /\ UNCHANGED xid

Init ==
    /\ xids \in 0..(Modulus - 1)
    /\ xid = [s \in Sess |-> 0]

Next ==
    \/ \E s \in Sess : Assign(s) \/ Clear(s)
    \/ \E v \in 0..(Modulus - 1) : Set(v)

Spec == Init /\ [][Next]_<<xids, xid>>

=============================================================================
