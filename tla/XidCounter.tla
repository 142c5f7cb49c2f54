----------------------------- MODULE XidCounter -----------------------------
(***************************************************************************)
(* The transaction-id counter of cache_center.c: the global `xids`,        *)
(* seeded by CNT_Init, incremented by cnt_start with `sp->xid = ++xids`    *)
(* (commented "XXX not locked"), cleared per session by cnt_done, and set  *)
(* by the debug.xid CLI command.                                           *)
(*                                                                         *)
(* The unlocked pre-increment compiles to a load of xids into a register,  *)
(* then stores of register + 1 into xids and sp->xid: it is split into the *)
(* actions cnt_start_load and cnt_start_store, and other workers and the   *)
(* CLI thread may run in between.  xids is an unsigned int: XidBits wide.  *)
(* The request between cnt_start and cnt_done is one abstract step `req`;  *)
(* it may park on a hash waiting list, giving up its worker.              *)
(***************************************************************************)
EXTENDS Naturals, FiniteSets

CONSTANTS
    Sess,        \* client sessions
    NWorkers,    \* worker threads: sessions running at the same time
    XidBits,     \* width of `unsigned xids`
    CliWrites,   \* whether debug.xid is used with an argument
    NoLoad       \* no ++xids in progress

VARIABLES
    xids,        \* the global counter
    xid,         \* sp->xid
    loaded,      \* the register holding xids between load and store
    step,        \* first, wait, start, req (recv .. deliver), done
    spark,       \* closed, ready, run, waiter, waitlist
    fdopen       \* sp->fd >= 0 and no doclose

vars == <<xids, xid, loaded, step, spark, fdopen>>

Modulus == 2^XidBits
XidVals == 0..(Modulus - 1)

TypeOK ==
    /\ xids \in XidVals
    /\ xid \in [Sess -> XidVals]
    /\ loaded \in [Sess -> XidVals \cup {NoLoad}]
    /\ step \in [Sess -> {"first", "wait", "start", "req", "done"}]
    /\ spark \in [Sess -> {"closed", "ready", "run", "waiter", "waitlist"}]
    /\ fdopen \in [Sess -> BOOLEAN]

\* CNT_Init: xids = random(), a non-negative long: the top bit is clear.
Init ==
    /\ xids \in 0..(Modulus \div 2 - 1)
    /\ xid = [s \in Sess |-> 0]
    /\ loaded = [s \in Sess |-> NoLoad]
    /\ step = [s \in Sess |-> "first"]
    /\ spark = [s \in Sess |-> "closed"]
    /\ fdopen = [s \in Sess |-> FALSE]

At(s, x) == spark[s] = "run" /\ step[s] = x
Goto(s, x) == step' = [step EXCEPT ![s] = x]
Park(s, p) == spark' = [spark EXCEPT ![s] = p]

\* The acceptor hands over a new connection (SES_New, Pool_Schedule).
Accept(s) ==
    /\ spark[s] = "closed"
    /\ Park(s, "ready")
    /\ Goto(s, "first")
    /\ fdopen' = [fdopen EXCEPT ![s] = TRUE]
    /\ UNCHANGED <<xids, xid, loaded>>

\* CNT_Session on a free worker; from first or start VTCP_blocking may fail.
CNT_Session(s) ==
    /\ spark[s] = "ready"
    /\ Cardinality({x \in Sess : spark[x] = "run"}) < NWorkers
    /\ Park(s, "run")
    /\ \/ UNCHANGED <<step, fdopen>>
       \/ /\ step[s] \in {"first", "start"}
          /\ Goto(s, "done")
          /\ fdopen' = [fdopen EXCEPT ![s] = FALSE]
    /\ UNCHANGED <<xids, xid, loaded>>

cnt_first(s) ==
    /\ At(s, "first")
    /\ Goto(s, "wait")
    /\ UNCHANGED <<xids, xid, loaded, spark, fdopen>>

\* A complete request, herding to the waiter, or a receive error.
cnt_wait(s) ==
    /\ At(s, "wait")
    /\ \/ Goto(s, "start") /\ UNCHANGED <<spark, fdopen>>
       \/ Park(s, "waiter") /\ UNCHANGED <<step, fdopen>>
       \/ /\ Goto(s, "done")
          /\ fdopen' = [fdopen EXCEPT ![s] = FALSE]
          /\ UNCHANGED spark
    /\ UNCHANGED <<xids, xid, loaded>>

\* sp->xid = ++xids, first half: the load.
cnt_start_load(s) ==
    /\ At(s, "start")
    /\ loaded[s] = NoLoad
    /\ loaded' = [loaded EXCEPT ![s] = xids]
    /\ UNCHANGED <<xids, xid, step, spark, fdopen>>

\* Second half: store register + 1 (unsigned, wrapping) into xids and
\* sp->xid; then dissect the request: junk closes, anything else is a
\* request (recv, or error for a bad request or Expect).
cnt_start_store(s) ==
    /\ At(s, "start")
    /\ loaded[s] # NoLoad
    /\ xids' = (loaded[s] + 1) % Modulus
    /\ xid' = [xid EXCEPT ![s] = (loaded[s] + 1) % Modulus]
    /\ loaded' = [loaded EXCEPT ![s] = NoLoad]
    /\ \/ Goto(s, "req") /\ UNCHANGED fdopen
       \/ Goto(s, "done") /\ fdopen' = [fdopen EXCEPT ![s] = FALSE]
    /\ UNCHANGED spark

\* HSH_Lookup parks the request on a waiting list; hsh_rush requeues it.
cnt_req_park(s) ==
    /\ At(s, "req")
    /\ Park(s, "waitlist")
    /\ UNCHANGED <<xids, xid, loaded, step, fdopen>>

Rush(s) ==
    /\ spark[s] = "waitlist"
    /\ Park(s, "ready")
    /\ UNCHANGED <<xids, xid, loaded, step, fdopen>>

\* recv .. deliver: the request ends in done, with doclose set or not.
cnt_req(s) ==
    /\ At(s, "req")
    /\ Goto(s, "done")
    /\ \E c \in BOOLEAN : fdopen' = [fdopen EXCEPT ![s] = fdopen[s] /\ c]
    /\ UNCHANGED <<xids, xid, loaded, spark>>

\* sp->xid = 0; close and delete, or keep the connection: a pipelined
\* request, read-ahead or linger, or park on the waiter.
cnt_done(s) ==
    /\ At(s, "done")
    /\ xid' = [xid EXCEPT ![s] = 0]
    /\ \/ /\ ~fdopen[s]
          /\ Park(s, "closed") /\ UNCHANGED step
       \/ /\ fdopen[s]
          /\ \/ \E x \in {"start", "wait"} : Goto(s, x) /\ UNCHANGED spark
             \/ Park(s, "waiter") /\ UNCHANGED step
    /\ UNCHANGED <<xids, loaded, fdopen>>

WaiterReadable(s) ==
    /\ spark[s] = "waiter"
    /\ Park(s, "ready")
    /\ Goto(s, "start")
    /\ UNCHANGED <<xids, xid, loaded, fdopen>>

WaiterTimeout(s) ==
    /\ spark[s] = "waiter"
    /\ Park(s, "closed")
    /\ fdopen' = [fdopen EXCEPT ![s] = FALSE]
    /\ UNCHANGED <<xids, xid, loaded, step>>

\* debug.xid <n>: xids = strtoul(n), truncated to unsigned.
cli_debug_xid(v) ==
    /\ CliWrites
    /\ xids' = v
    /\ UNCHANGED <<xid, loaded, step, spark, fdopen>>

Next ==
    \/ \E s \in Sess :
          \/ Accept(s) \/ CNT_Session(s) \/ cnt_first(s) \/ cnt_wait(s)
          \/ cnt_start_load(s) \/ cnt_start_store(s) \/ cnt_req_park(s)
          \/ Rush(s) \/ cnt_req(s) \/ cnt_done(s)
          \/ WaiterReadable(s) \/ WaiterTimeout(s)
    \/ \E v \in XidVals : cli_debug_xid(v)

Spec == Init /\ [][Next]_vars

-----------------------------------------------------------------------------
(***************************************************************************)
(* Properties.                                                             *)
(***************************************************************************)

\* The counter implements the atomic allocator of XidAlloc: every request
\* takes the value after the counter's current one, the counter moves with
\* it (cnt_start's ++xids), and debug.xid sets the counter (spec section 6,
\* CLI).  Broken by a worker or the CLI writing xids between another
\* worker's load and store: a debug.xid there is overwritten and lost.
Abs == INSTANCE XidAlloc
XidAtomic == Abs!Spec

\* A request in progress has a non-zero xid (spec: xid == 0 exactly in
\* first and wait; cnt_done treats xid 0 as "no request"): broken when
\* ++xids wraps around to 0.
RequestHasXid ==
    \A s \in Sess : step[s] = "req" => xid[s] # 0

\* Two requests in progress never share an xid (ReqStart/ReqEnd log
\* records are told apart by it): broken by two workers in ++xids at once.
XidUnique ==
    \A s, t \in Sess : s # t /\ step[s] = "req" /\ step[t] = "req" => xid[s] # xid[t]

=============================================================================
