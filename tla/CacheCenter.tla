---------------------------- MODULE CacheCenter ----------------------------
(***************************************************************************)
(* The request state engine of varnishd (cache_center.c): sessions driven  *)
(* through the step handlers cnt_* by a pool of worker threads, sharing    *)
(* the hash table's objcores and their waiting lists.                      *)
(*                                                                         *)
(* Per session (struct sess): the step tag, whether it runs on a worker,   *)
(* is queued, parked on a waiting list or on the waiter, the restart       *)
(* counter, the digest, fd open, doclose and director.                     *)
(* Per worker (struct worker, scratch that is NOT reset between sessions): *)
(* wrk->obj, wrk->objcore, wrk->busyobj (only its do_stream flag) and      *)
(* wrk->vbc.                                                               *)
(* Hash layer (hash_slinger, not in this file; modelled from its contract  *)
(* in the spec): objcore slots with state, key, OC_F_PASS and refcount,    *)
(* and a waiting list per key.                                             *)
(*                                                                         *)
(* VCL hook results, backend and storage outcomes and request properties   *)
(* are nondeterministic inputs. A failed assertion or NULL dereference     *)
(* panics the child: the manager restarts it with an empty cache and no    *)
(* sessions (ChildPanic); the site is recorded in `panics`.                *)
(***************************************************************************)
EXTENDS Naturals, FiniteSets

CONSTANTS
    Sess,            \* client sessions (model values)
    Workers,         \* worker threads (model values)
    Keys,            \* hash digests
    Objs,            \* objcore slots of the hash/storage layer
    MaxRestarts,     \* cache_param->max_restarts
    StorageCanFail,  \* whether STV_NewObject may return NULL (both tries)
    NoWorker, NoObj, Priv, NoBusy  \* NULL pointers; Priv = object without objcore

VARIABLES
    step, spark, swrk, restarts, digest, fdopen, doclose, director,
    wobj, wobjcore, wbo, wvbc,
    ocstate, ockey, ocpass, ocref, waiting,
    panics

sessVars == <<step, spark, swrk, restarts, digest, fdopen, doclose, director>>
wrkVars  == <<wobj, wobjcore, wbo, wvbc>>
hashVars == <<ocstate, ockey, ocpass, ocref, waiting>>
vars     == <<sessVars, wrkVars, hashVars, panics>>

Steps == {"first", "wait", "start", "recv", "lookup", "hit", "miss", "pass",
          "pipe", "fetch", "fetchbody", "streambody", "prepresp", "deliver",
          "error", "done"}
\* closed: no session / deleted; ready: queued for a worker (Pool_Schedule);
\* run: driven by swrk[s]; waitlist: on an objhead waiting list;
\* waiter: parked on the waiter for an idle keep-alive connection.
Parking == {"closed", "ready", "run", "waitlist", "waiter"}
OcStates == {"free", "busy", "valid", "dead"}
BusyObjs == {NoBusy} \cup [stream : BOOLEAN]
PanicSites == {"deliver_restart_null_busyobj", "prepresp_stream_not_busy",
               "exit_with_objcore"}

TypeOK ==
    /\ step \in [Sess -> Steps]
    /\ spark \in [Sess -> Parking]
    /\ swrk \in [Sess -> Workers \cup {NoWorker}]
    /\ restarts \in [Sess -> Nat]
    /\ digest \in [Sess -> Keys]
    /\ fdopen \in [Sess -> BOOLEAN]
    /\ doclose \in [Sess -> BOOLEAN]
    /\ director \in [Sess -> BOOLEAN]
    /\ wobj \in [Workers -> Objs \cup {NoObj, Priv}]
    /\ wobjcore \in [Workers -> Objs \cup {NoObj}]
    /\ wbo \in [Workers -> BusyObjs]
    /\ wvbc \in [Workers -> BOOLEAN]
    /\ ocstate \in [Objs -> OcStates]
    /\ ockey \in [Objs -> Keys]
    /\ ocpass \in [Objs -> BOOLEAN]
    /\ ocref \in [Objs -> Nat]
    /\ waiting \in [Keys -> SUBSET Sess]
    /\ panics \subseteq PanicSites

AnyKey == CHOOSE k \in Keys : TRUE

\* A child with no sessions and an empty cache (CNT_Init and the rest of
\* child startup); also the state the manager restarts a panicked child in.
ChildStart ==
    /\ step = [s \in Sess |-> "first"]
    /\ spark = [s \in Sess |-> "closed"]
    /\ swrk = [s \in Sess |-> NoWorker]
    /\ restarts = [s \in Sess |-> 0]
    /\ digest = [s \in Sess |-> AnyKey]
    /\ fdopen = [s \in Sess |-> FALSE]
    /\ doclose = [s \in Sess |-> FALSE]
    /\ director = [s \in Sess |-> FALSE]
    /\ wobj = [w \in Workers |-> NoObj]
    /\ wobjcore = [w \in Workers |-> NoObj]
    /\ wbo = [w \in Workers |-> NoBusy]
    /\ wvbc = [w \in Workers |-> FALSE]
    /\ ocstate = [o \in Objs |-> "free"]
    /\ ockey = [o \in Objs |-> AnyKey]
    /\ ocpass = [o \in Objs |-> FALSE]
    /\ ocref = [o \in Objs |-> 0]
    /\ waiting = [k \in Keys |-> {}]

\* The same as the next state (TLC cannot prime a definition).
ChildRestart ==
    /\ step' = [s \in Sess |-> "first"]
    /\ spark' = [s \in Sess |-> "closed"]
    /\ swrk' = [s \in Sess |-> NoWorker]
    /\ restarts' = [s \in Sess |-> 0]
    /\ digest' = [s \in Sess |-> AnyKey]
    /\ fdopen' = [s \in Sess |-> FALSE]
    /\ doclose' = [s \in Sess |-> FALSE]
    /\ director' = [s \in Sess |-> FALSE]
    /\ wobj' = [w \in Workers |-> NoObj]
    /\ wobjcore' = [w \in Workers |-> NoObj]
    /\ wbo' = [w \in Workers |-> NoBusy]
    /\ wvbc' = [w \in Workers |-> FALSE]
    /\ ocstate' = [o \in Objs |-> "free"]
    /\ ockey' = [o \in Objs |-> AnyKey]
    /\ ocpass' = [o \in Objs |-> FALSE]
    /\ ocref' = [o \in Objs |-> 0]
    /\ waiting' = [k \in Keys |-> {}]

Init == ChildStart /\ panics = {}

\* The child panics at `site`; the manager starts a fresh child.
ChildPanic(site) == ChildRestart /\ panics' = panics \cup {site}

Running(s) == spark[s] = "run"
Idle(w) == \A s \in Sess : swrk[s] # w
At(s, x) == Running(s) /\ step[s] = x
Goto(s, x) == step' = [step EXCEPT ![s] = x]

-----------------------------------------------------------------------------
(***************************************************************************)
(* Hash layer contract (hash_slinger.h; spec section 6).                  *)
(***************************************************************************)

\* hsh_rush: every session on k's waiting list is rescheduled in STP_LOOKUP.
Rush(k) ==
    /\ spark' = [x \in Sess |-> IF x \in waiting[k] THEN "ready" ELSE spark[x]]
    /\ waiting' = [waiting EXCEPT ![k] = {}]

\* HSH_Deref: drop one reference; the last one frees the objcore.  A busy
\* objcore is only referenced by its fetcher, so its deref clears the busy
\* marker and wakes the waiting list.
HSH_Deref(o) ==
    /\ ocref' = [ocref EXCEPT ![o] = @ - 1]
    /\ ocstate' = [ocstate EXCEPT ![o] = IF ocref[o] = 1 THEN "free" ELSE @]
    /\ IF ocstate[o] = "busy" THEN Rush(ockey[o]) ELSE UNCHANGED <<spark, waiting>>
    /\ UNCHANGED <<ockey, ocpass>>

\* HSH_Drop: ttl = -1, unbusy, deref: the object can no longer be found.
HSH_Drop(o) ==
    /\ ocref' = [ocref EXCEPT ![o] = @ - 1]
    /\ ocstate' = [ocstate EXCEPT ![o] = IF ocref[o] = 1 THEN "free" ELSE "dead"]
    /\ IF ocstate[o] = "busy" THEN Rush(ockey[o]) ELSE UNCHANGED <<spark, waiting>>
    /\ UNCHANGED <<ockey, ocpass>>

\* EXP_Insert + HSH_Unbusy: the object enters the cache, which holds a
\* reference of its own, and the waiting list is woken.
HSH_Unbusy(o) ==
    /\ ocstate' = [ocstate EXCEPT ![o] = "valid"]
    /\ ocref' = [ocref EXCEPT ![o] = @ + 1]
    /\ Rush(ockey[o])
    /\ UNCHANGED <<ockey, ocpass>>

\* The same on an object without objcore (pass, synthetic error) touches
\* no shared state.
DerefObj(x) == IF x = Priv THEN UNCHANGED <<hashVars, spark>> ELSE HSH_Deref(x)
DropObj(x)  == IF x = Priv THEN UNCHANGED <<hashVars, spark>> ELSE HSH_Drop(x)

\* STV_NewObject consumes wrk->objcore: the new object is the busy objcore,
\* or a private object when there is none.
NewObj(w) == IF wobjcore[w] = NoObj THEN Priv ELSE wobjcore[w]

AllocResults == IF StorageCanFail THEN BOOLEAN ELSE {TRUE}

\* AssertObjCorePassOrBusy(obj->objcore)
PassOrBusy(x) == IF x = Priv THEN TRUE ELSE ocstate[x] = "busy" \/ ocpass[x]

-----------------------------------------------------------------------------
(***************************************************************************)
(* Step handlers.                                                          *)
(***************************************************************************)

cnt_first(s) ==
    /\ At(s, "first")
    /\ Goto(s, "wait")
    /\ UNCHANGED <<spark, swrk, restarts, digest, fdopen, doclose, director,
                   wrkVars, hashVars, panics>>

\* HTC_Complete / poll / HTC_Rx: complete request, timeout, or an error.
cnt_wait(s) ==
    /\ At(s, "wait")
    /\ \/ /\ Goto(s, "start")
          /\ UNCHANGED <<spark, swrk, fdopen>>
       \/ /\ spark' = [spark EXCEPT ![s] = "waiter"]        \* Pool_Wait
          /\ swrk' = [swrk EXCEPT ![s] = NoWorker]
          /\ UNCHANGED <<step, fdopen>>
       \/ /\ fdopen' = [fdopen EXCEPT ![s] = FALSE]        \* overflow, EOF, error
          /\ Goto(s, "done")
          /\ UNCHANGED <<spark, swrk>>
    /\ UNCHANGED <<restarts, digest, doclose, director, wrkVars, hashVars, panics>>

\* Dissect the request: junk closes, other parse errors go to error;
\* otherwise doclose follows the Connection: header, then a bad Expect:
\* goes to error (417) and anything else to recv.
cnt_start(s) ==
    /\ At(s, "start")
    /\ \/ /\ Goto(s, "done")
          /\ fdopen' = [fdopen EXCEPT ![s] = FALSE]
          /\ UNCHANGED doclose
       \/ /\ Goto(s, "error")                           \* parse error
          /\ UNCHANGED <<fdopen, doclose>>
       \/ /\ \E c \in BOOLEAN : doclose' = [doclose EXCEPT ![s] = c]
          /\ \E h \in {"error", "recv"} : Goto(s, h)      \* Expect 417, or recv
          /\ UNCHANGED fdopen
    /\ UNCHANGED <<spark, swrk, restarts, digest, director, wrkVars, hashVars, panics>>

\* Mutant: the max_restarts check is off by one (> instead of >=).
cnt_recv_off_by_one(s) ==
    /\ At(s, "recv")
    /\ director' = [director EXCEPT ![s] = TRUE]
    /\ \/ /\ restarts[s] > MaxRestarts
          /\ Goto(s, "error")
          /\ UNCHANGED digest
       \/ /\ restarts[s] <= MaxRestarts
          /\ \E h \in {"lookup", "pipe", "pass", "error"}, k \in Keys :
                /\ digest' = [digest EXCEPT ![s] = k]
                /\ Goto(s, h)
    /\ UNCHANGED <<spark, swrk, restarts, fdopen, doclose, wrkVars, hashVars, panics>>

\* vcl_recv, the max_restarts check, vcl_hash, dispatch on recv's result.
cnt_recv(s) ==
    /\ At(s, "recv")
    /\ director' = [director EXCEPT ![s] = TRUE]
    /\ \/ /\ restarts[s] >= MaxRestarts
          /\ Goto(s, "error")
          /\ UNCHANGED digest
       \/ /\ restarts[s] < MaxRestarts
          /\ \E h \in {"lookup", "pipe", "pass", "error"}, k \in Keys :
                /\ digest' = [digest EXCEPT ![s] = k]
                /\ Goto(s, h)
    /\ UNCHANGED <<spark, swrk, restarts, fdopen, doclose, wrkVars, hashVars, panics>>

Valid(k) == {o \in Objs : ocstate[o] = "valid" /\ ockey[o] = k}
Busy(k)  == {o \in Objs : ocstate[o] = "busy" /\ ockey[o] = k}

\* HSH_Lookup found a cached object: a hit, or a hit-for-pass which is
\* dereferenced at once.
cnt_lookup_hit(s) ==
    /\ At(s, "lookup")
    /\ \E o \in Valid(digest[s]) :
         \/ /\ ~ocpass[o]
            /\ ocref' = [ocref EXCEPT ![o] = @ + 1]
            /\ wobj' = [wobj EXCEPT ![swrk[s]] = o]
            /\ Goto(s, "hit")
         \/ /\ ocpass[o]
            /\ UNCHANGED <<ocref, wobj>>
            /\ Goto(s, "pass")
    /\ UNCHANGED <<spark, swrk, restarts, digest, fdopen, doclose, director,
                   wobjcore, wbo, wvbc, ocstate, ockey, ocpass, waiting, panics>>

\* HSH_Lookup returned NULL: the session is on the waiting list of a busy
\* objcore and the worker lets go of it.
cnt_lookup_wait(s) ==
    /\ At(s, "lookup")
    /\ Valid(digest[s]) = {}
    /\ Busy(digest[s]) # {}
    /\ waiting' = [waiting EXCEPT ![digest[s]] = @ \cup {s}]
    /\ spark' = [spark EXCEPT ![s] = "waitlist"]
    /\ swrk' = [swrk EXCEPT ![s] = NoWorker]
    /\ UNCHANGED <<step, restarts, digest, fdopen, doclose, director,
                   wrkVars, ocstate, ockey, ocpass, ocref, panics>>

\* Mutant: a miss does not look for a busy objcore (no collapsing).
cnt_lookup_miss_ignore_busy(s) ==
    /\ At(s, "lookup")
    /\ Valid(digest[s]) = {}
    /\ \E o \in Objs :
         /\ ocstate[o] = "free"
         /\ ocstate' = [ocstate EXCEPT ![o] = "busy"]
         /\ ockey' = [ockey EXCEPT ![o] = digest[s]]
         /\ ocpass' = [ocpass EXCEPT ![o] = FALSE]
         /\ ocref' = [ocref EXCEPT ![o] = 1]
         /\ wobjcore' = [wobjcore EXCEPT ![swrk[s]] = o]
    /\ wbo' = [wbo EXCEPT ![swrk[s]] = [stream |-> FALSE]]
    /\ Goto(s, "miss")
    /\ UNCHANGED <<spark, swrk, restarts, digest, fdopen, doclose, director,
                   wobj, wvbc, waiting, panics>>

\* HSH_Lookup inserted a new busy objcore (refcount 1) and a busyobj: miss.
cnt_lookup_miss(s) ==
    /\ At(s, "lookup")
    /\ Valid(digest[s]) = {}
    /\ Busy(digest[s]) = {}
    /\ \E o \in Objs :
         /\ ocstate[o] = "free"
         /\ ocstate' = [ocstate EXCEPT ![o] = "busy"]
         /\ ockey' = [ockey EXCEPT ![o] = digest[s]]
         /\ ocpass' = [ocpass EXCEPT ![o] = FALSE]
         /\ ocref' = [ocref EXCEPT ![o] = 1]
         /\ wobjcore' = [wobjcore EXCEPT ![swrk[s]] = o]
    /\ wbo' = [wbo EXCEPT ![swrk[s]] = [stream |-> FALSE]]
    /\ Goto(s, "miss")
    /\ UNCHANGED <<spark, swrk, restarts, digest, fdopen, doclose, director,
                   wobj, wvbc, waiting, panics>>

\* vcl_hit returned deliver.
cnt_hit_deliver(s) ==
    /\ At(s, "hit")
    /\ Goto(s, "prepresp")
    /\ UNCHANGED <<spark, swrk, restarts, digest, fdopen, doclose, director,
                   wrkVars, hashVars, panics>>

\* Mutant: vcl_hit's non-deliver paths forget HSH_Deref of wrk->obj.
cnt_hit_drop_leak(s) ==
    /\ At(s, "hit")
    /\ LET w == swrk[s] IN
         /\ wobj' = [wobj EXCEPT ![w] = NoObj]
         /\ wobjcore' = [wobjcore EXCEPT ![w] = NoObj]
         /\ wbo' = [wbo EXCEPT ![w] = NoBusy]
    /\ \/ /\ \E h \in {"pass", "error"} : Goto(s, h)
          /\ UNCHANGED <<restarts, director>>
       \/ /\ director' = [director EXCEPT ![s] = FALSE]
          /\ restarts' = [restarts EXCEPT ![s] = @ + 1]
          /\ Goto(s, "recv")
    /\ UNCHANGED <<spark, swrk, digest, fdopen, doclose, wvbc, hashVars, panics>>

\* vcl_hit returned pass, error or restart: drop the object first.
cnt_hit_drop(s) ==
    /\ At(s, "hit")
    /\ LET w == swrk[s] IN
         /\ DerefObj(wobj[w])
         /\ wobj' = [wobj EXCEPT ![w] = NoObj]
         /\ wobjcore' = [wobjcore EXCEPT ![w] = NoObj]
         /\ wbo' = [wbo EXCEPT ![w] = NoBusy]
    /\ \/ /\ \E h \in {"pass", "error"} : Goto(s, h)
          /\ UNCHANGED <<restarts, director>>
       \/ /\ director' = [director EXCEPT ![s] = FALSE]
          /\ restarts' = [restarts EXCEPT ![s] = @ + 1]
          /\ Goto(s, "recv")
    /\ UNCHANGED <<swrk, digest, fdopen, doclose, wvbc, panics>>

\* Mutant: vcl_miss's error and pass paths forget HSH_Deref.
cnt_miss_no_deref(s) ==
    /\ At(s, "miss")
    /\ LET w == swrk[s] IN
         \/ /\ Goto(s, "fetch")
            /\ UNCHANGED wobjcore
         \/ /\ wobjcore' = [wobjcore EXCEPT ![w] = NoObj]
            /\ \E h \in {"error", "pass"} : Goto(s, h)
    /\ UNCHANGED <<spark, hashVars, swrk, restarts, digest, fdopen, doclose,
                   director, wobj, wbo, wvbc, panics>>

\* vcl_miss: fetch, or error / pass which give the busy objcore back.
cnt_miss(s) ==
    /\ At(s, "miss")
    /\ LET w == swrk[s] IN
         \/ /\ Goto(s, "fetch")
            /\ UNCHANGED <<spark, hashVars, wobjcore>>
         \/ /\ HSH_Deref(wobjcore[w])
            /\ wobjcore' = [wobjcore EXCEPT ![w] = NoObj]
            /\ \E h \in {"error", "pass"} : Goto(s, h)
    /\ UNCHANGED <<swrk, restarts, digest, fdopen, doclose, director,
                   wobj, wbo, wvbc, panics>>

\* vcl_pass: error, or pass with a fresh busyobj (New_BusyObj).
cnt_pass(s) ==
    /\ At(s, "pass")
    /\ \/ /\ Goto(s, "error")
          /\ UNCHANGED wbo
       \/ /\ wbo' = [wbo EXCEPT ![swrk[s]] = [stream |-> FALSE]]
          /\ Goto(s, "fetch")
    /\ UNCHANGED <<spark, swrk, restarts, digest, fdopen, doclose, director,
                   wobj, wobjcore, wvbc, hashVars, panics>>

\* vcl_pipe, then PipeSession shuttles bytes until one end closes and
\* closes the client connection.
cnt_pipe(s) ==
    /\ At(s, "pipe")
    /\ fdopen' = [fdopen EXCEPT ![s] = FALSE]
    /\ Goto(s, "done")
    /\ UNCHANGED <<spark, swrk, restarts, digest, doclose, director,
                   wrkVars, hashVars, panics>>

\* Mutant: the busy objcore is dereferenced but wrk->objcore not cleared.
FetchCleanup_keep_objcore(s, w) ==
    /\ IF wobjcore[w] = NoObj THEN UNCHANGED <<hashVars, spark>>
                              ELSE HSH_Deref(wobjcore[w])
    /\ UNCHANGED wobjcore
    /\ director' = [director EXCEPT ![s] = FALSE]

\* Clean up partial fetch: give back the busy objcore and the director.
FetchCleanup(s, w) ==
    /\ IF wobjcore[w] = NoObj THEN UNCHANGED <<hashVars, spark>>
                              ELSE HSH_Deref(wobjcore[w])
    /\ wobjcore' = [wobjcore EXCEPT ![w] = NoObj]
    /\ director' = [director EXCEPT ![s] = FALSE]

\* FetchHdr failed (after the single retry on a recycled connection).
cnt_fetch_fail(s) ==
    /\ At(s, "fetch")
    /\ FetchCleanup(s, swrk[s])
    /\ Goto(s, "error")
    /\ UNCHANGED <<swrk, restarts, digest, fdopen, doclose, wobj, wbo, wvbc, panics>>

\* Mutant: vcl_fetch's restart skips VDI_CloseFd.
cnt_fetch_no_closefd(s) ==
    /\ At(s, "fetch")
    /\ LET w == swrk[s] IN
       \E ds \in BOOLEAN :
         /\ wbo' = [wbo EXCEPT ![w] = [stream |-> ds]]
         /\ \/ /\ wvbc' = [wvbc EXCEPT ![w] = TRUE]
               /\ ocpass' = IF wobjcore[w] = NoObj THEN ocpass
                            ELSE [ocpass EXCEPT ![wobjcore[w]] = TRUE]
               /\ Goto(s, "fetchbody")
               /\ UNCHANGED <<restarts, director, wobjcore, spark,
                              ocstate, ockey, ocref, waiting>>
            \/ /\ wvbc' = [wvbc EXCEPT ![w] = TRUE]
               /\ Goto(s, "fetchbody")
               /\ UNCHANGED <<restarts, director, wobjcore, spark, hashVars>>
            \/ /\ FetchCleanup(s, w)
               /\ Goto(s, "error")
               /\ UNCHANGED <<restarts, wvbc>>
            \/ /\ FetchCleanup(s, w)
               /\ restarts' = [restarts EXCEPT ![s] = @ + 1]
               /\ Goto(s, "recv")
               /\ wvbc' = [wvbc EXCEPT ![w] = TRUE]
    /\ UNCHANGED <<swrk, digest, fdopen, doclose, wobj, panics>>

\* FetchHdr succeeded; vcl_fetch sets beresp.do_stream and returns.
cnt_fetch(s) ==
    /\ At(s, "fetch")
    /\ LET w == swrk[s] IN
       \E ds \in BOOLEAN :
         /\ wbo' = [wbo EXCEPT ![w] = [stream |-> ds]]
         /\ \/ /\ wvbc' = [wvbc EXCEPT ![w] = TRUE]       \* hit_for_pass
               /\ ocpass' = IF wobjcore[w] = NoObj THEN ocpass
                            ELSE [ocpass EXCEPT ![wobjcore[w]] = TRUE]
               /\ Goto(s, "fetchbody")
               /\ UNCHANGED <<restarts, director, wobjcore, spark,
                              ocstate, ockey, ocref, waiting>>
            \/ /\ wvbc' = [wvbc EXCEPT ![w] = TRUE]       \* deliver
               /\ Goto(s, "fetchbody")
               /\ UNCHANGED <<restarts, director, wobjcore, spark, hashVars>>
            \/ /\ FetchCleanup(s, w)                      \* error: VDI_CloseFd
               /\ Goto(s, "error")
               /\ UNCHANGED <<restarts, wvbc>>
            \/ /\ FetchCleanup(s, w)                      \* restart: VDI_CloseFd
               /\ restarts' = [restarts EXCEPT ![s] = @ + 1]
               /\ Goto(s, "recv")
               /\ UNCHANGED wvbc
    /\ UNCHANGED <<swrk, digest, fdopen, doclose, wobj, panics>>

\* Encoding negotiation and do_stream (cleared for ESI, HEAD or a possible
\* 304), then STV_NewObject with the Transient fallback.
cnt_fetchbody_nomem(s) ==
    /\ At(s, "fetchbody")
    /\ FALSE \in AllocResults
    /\ LET w == swrk[s] IN
         /\ \E keep \in BOOLEAN :
              wbo' = [wbo EXCEPT ![w] = [stream |-> wbo[w].stream /\ keep]]
         /\ wvbc' = [wvbc EXCEPT ![w] = FALSE]          \* VDI_CloseFd
    /\ Goto(s, "error")
    /\ UNCHANGED <<spark, swrk, restarts, digest, fdopen, doclose, director,
                   wobj, wobjcore, hashVars, panics>>

\* Streaming: the body is fetched while it is delivered (cnt_streambody).
cnt_fetchbody_stream(s) ==
    /\ At(s, "fetchbody")
    /\ TRUE \in AllocResults
    /\ LET w == swrk[s] IN
         /\ wbo[w].stream
         /\ wobj' = [wobj EXCEPT ![w] = NewObj(w)]
         /\ wobjcore' = [wobjcore EXCEPT ![w] = NoObj]
    /\ Goto(s, "prepresp")
    /\ UNCHANGED <<spark, swrk, restarts, digest, fdopen, doclose, director,
                   wbo, wvbc, hashVars, panics>>

\* Not streaming: FetchBody to completion, then HSH_Unbusy, or HSH_Drop
\* and 503 on failure.
cnt_fetchbody(s) ==
    /\ At(s, "fetchbody")
    /\ TRUE \in AllocResults
    /\ LET w == swrk[s]
           o == NewObj(w) IN
         /\ wbo' = [wbo EXCEPT ![w] = [stream |-> FALSE]]
         /\ wvbc' = [wvbc EXCEPT ![w] = FALSE]
         /\ wobjcore' = [wobjcore EXCEPT ![w] = NoObj]
         /\ \/ /\ DropObj(o)
               /\ wobj' = [wobj EXCEPT ![w] = NoObj]
               /\ Goto(s, "error")
            \/ /\ IF o = Priv THEN UNCHANGED <<hashVars, spark>> ELSE HSH_Unbusy(o)
               /\ wobj' = [wobj EXCEPT ![w] = o]
               /\ Goto(s, "prepresp")
    /\ UNCHANGED <<swrk, restarts, digest, fdopen, doclose, director, panics>>

\* Every outcome of cnt_streambody ends the same way: no backend
\* connection, the object released, director and restarts reset, done.
StreamEnd(s, w) ==
    /\ wvbc' = [wvbc EXCEPT ![w] = FALSE]
    /\ wobj' = [wobj EXCEPT ![w] = NoObj]
    /\ director' = [director EXCEPT ![s] = FALSE]
    /\ restarts' = [restarts EXCEPT ![s] = 0]
    /\ Goto(s, "done")
    /\ UNCHANGED <<swrk, digest, fdopen, wobjcore, wbo, panics>>

\* Mutant: a failed stream lets go of wrk->obj without HSH_Deref.
cnt_streambody_no_deref(s) ==
    /\ At(s, "streambody")
    /\ doclose' = [doclose EXCEPT ![s] = TRUE]
    /\ UNCHANGED <<hashVars, spark>>
    /\ StreamEnd(s, swrk[s])

\* RES_StreamStart, then FetchBody fails: doclose = "Stream error" and
\* HSH_Deref of the object (which frees a busy objcore and rushes).
cnt_streambody_failed(s) ==
    /\ At(s, "streambody")
    /\ doclose' = [doclose EXCEPT ![s] = TRUE]
    /\ DerefObj(wobj[swrk[s]])
    /\ StreamEnd(s, swrk[s])

\* FetchBody succeeded.  `if (!i && wrk->obj->objcore != NULL)`: an
\* object with an objcore is EXP_Insert-ed and HSH_Unbusy-ed (the cache's
\* reference replaces ours, dropped by the final HSH_Deref); a pass object
\* has none and takes the else branch, doclose = "Stream error".
cnt_streambody_fetched(s) ==
    /\ At(s, "streambody")
    /\ LET o == wobj[swrk[s]] IN
         IF o # Priv
         THEN /\ ocstate' = [ocstate EXCEPT ![o] = "valid"]
              /\ Rush(ockey[o])
              /\ UNCHANGED <<ockey, ocpass, ocref, doclose>>
         ELSE /\ doclose' = [doclose EXCEPT ![s] = TRUE]
              /\ UNCHANGED <<hashVars, spark>>
    /\ StreamEnd(s, swrk[s])

\* The response mode and "EOF mode" doclose (an HTTP/1.0 client and an
\* unknown length), then vcl_deliver.  Line 182 asserts that a streaming
\* busyobj goes with an object still being fetched.
cnt_prepresp_stream_panic(s) ==
    /\ At(s, "prepresp")
    /\ LET w == swrk[s] IN
         /\ wbo[w] # NoBusy
         /\ wbo[w].stream
         /\ ~PassOrBusy(wobj[w])
    /\ ChildPanic("prepresp_stream_not_busy")

PrepRespOK(s) ==
    /\ At(s, "prepresp")
    /\ LET w == swrk[s] IN
         wbo[w] # NoBusy /\ wbo[w].stream => PassOrBusy(wobj[w])

\* vcl_deliver returned deliver (or restart past max_restarts).
cnt_prepresp(s) ==
    /\ PrepRespOK(s)
    /\ \E eof \in BOOLEAN : doclose' = [doclose EXCEPT ![s] = @ \/ eof]
    /\ LET w == swrk[s] IN
         Goto(s, IF wbo[w] # NoBusy /\ wbo[w].stream THEN "streambody"
                                                     ELSE "deliver")
    /\ UNCHANGED <<spark, swrk, restarts, digest, fdopen, director,
                   wrkVars, hashVars, panics>>

\* vcl_deliver returned restart: wrk->busyobj->do_stream is read without
\* a NULL check; a hit has no busyobj.
cnt_prepresp_restart_panic(s) ==
    /\ PrepRespOK(s)
    /\ restarts[s] < MaxRestarts
    /\ wbo[swrk[s]] = NoBusy
    /\ ChildPanic("deliver_restart_null_busyobj")

\* Mutant: vcl_deliver's restart forgets sp->director = NULL.
cnt_prepresp_restart_keep_director(s) ==
    /\ PrepRespOK(s)
    /\ restarts[s] < MaxRestarts
    /\ LET w == swrk[s] IN
         /\ wbo[w] # NoBusy
         /\ IF wbo[w].stream THEN DropObj(wobj[w]) ELSE DerefObj(wobj[w])
         /\ wvbc' = [wvbc EXCEPT ![w] = IF wbo[w].stream THEN FALSE ELSE @]
         /\ wobj' = [wobj EXCEPT ![w] = NoObj]
    /\ \E eof \in BOOLEAN : doclose' = [doclose EXCEPT ![s] = @ \/ eof]
    /\ restarts' = [restarts EXCEPT ![s] = @ + 1]
    /\ Goto(s, "recv")
    /\ UNCHANGED <<swrk, digest, fdopen, wobjcore, wbo, director, panics>>

\* Mutant: vcl_deliver's restart forgets sp->restarts++.
cnt_prepresp_restart_no_count(s) ==
    /\ PrepRespOK(s)
    /\ restarts[s] < MaxRestarts
    /\ LET w == swrk[s] IN
         /\ wbo[w] # NoBusy
         /\ IF wbo[w].stream THEN DropObj(wobj[w]) ELSE DerefObj(wobj[w])
         /\ wvbc' = [wvbc EXCEPT ![w] = IF wbo[w].stream THEN FALSE ELSE @]
         /\ wobj' = [wobj EXCEPT ![w] = NoObj]
    /\ \E eof \in BOOLEAN : doclose' = [doclose EXCEPT ![s] = @ \/ eof]
    /\ director' = [director EXCEPT ![s] = FALSE]
    /\ Goto(s, "recv")
    /\ UNCHANGED <<swrk, digest, fdopen, wobjcore, wbo, restarts, panics>>

\* vcl_deliver returned restart: drop a streaming object (and close the
\* backend connection), deref a stored one, go back to recv.
cnt_prepresp_restart(s) ==
    /\ PrepRespOK(s)
    /\ restarts[s] < MaxRestarts
    /\ LET w == swrk[s] IN
         /\ wbo[w] # NoBusy
         /\ IF wbo[w].stream THEN DropObj(wobj[w]) ELSE DerefObj(wobj[w])
         /\ wvbc' = [wvbc EXCEPT ![w] = IF wbo[w].stream THEN FALSE ELSE @]
         /\ wobj' = [wobj EXCEPT ![w] = NoObj]
    /\ \E eof \in BOOLEAN : doclose' = [doclose EXCEPT ![s] = @ \/ eof]
    /\ restarts' = [restarts EXCEPT ![s] = @ + 1]
    /\ director' = [director EXCEPT ![s] = FALSE]
    /\ Goto(s, "recv")
    /\ UNCHANGED <<swrk, digest, fdopen, wobjcore, wbo, panics>>

\* RES_WriteObj, then release the object.
cnt_deliver(s) ==
    /\ At(s, "deliver")
    /\ LET w == swrk[s] IN
         /\ DerefObj(wobj[w])
         /\ wobj' = [wobj EXCEPT ![w] = NoObj]
    /\ director' = [director EXCEPT ![s] = FALSE]
    /\ restarts' = [restarts EXCEPT ![s] = 0]
    /\ Goto(s, "done")
    /\ UNCHANGED <<swrk, digest, fdopen, doclose, wobjcore, wbo, wvbc, panics>>

\* No object could be allocated for the synthetic response: close with
\* "Out of objects".  wrk->objcore, if any, is left as it is.
cnt_error_nomem(s) ==
    /\ At(s, "error")
    /\ FALSE \in AllocResults
    /\ wbo' = [wbo EXCEPT ![swrk[s]] = [stream |-> FALSE]]   \* New_BusyObj
    /\ doclose' = [doclose EXCEPT ![s] = TRUE]
    /\ director' = [director EXCEPT ![s] = FALSE]
    /\ Goto(s, "done")
    /\ UNCHANGED <<spark, swrk, restarts, digest, fdopen,
                   wobj, wobjcore, wvbc, hashVars, panics>>

\* Build the error object (it takes over wrk->objcore), run vcl_error:
\* restart within max_restarts drops it, otherwise deliver and close.
cnt_error(s) ==
    /\ At(s, "error")
    /\ TRUE \in AllocResults
    /\ LET w == swrk[s]
           o == NewObj(w) IN
         /\ wbo' = [wbo EXCEPT ![w] = [stream |-> FALSE]]
         /\ wobjcore' = [wobjcore EXCEPT ![w] = NoObj]
         /\ \/ /\ restarts[s] < MaxRestarts
               /\ DropObj(o)
               /\ wobj' = [wobj EXCEPT ![w] = NoObj]
               /\ director' = [director EXCEPT ![s] = FALSE]
               /\ restarts' = [restarts EXCEPT ![s] = @ + 1]
               /\ Goto(s, "recv")
               /\ UNCHANGED doclose
            \/ /\ wobj' = [wobj EXCEPT ![w] = o]
               /\ doclose' = [doclose EXCEPT ![s] = TRUE]
               /\ Goto(s, "prepresp")
               /\ UNCHANGED <<restarts, director, spark, hashVars>>
    /\ UNCHANGED <<swrk, digest, fdopen, wvbc, panics>>

\* The request is over: reset per-request state, close on doclose, and
\* either delete the session or keep the connection (pipelined request,
\* read-ahead or session_linger, or park it on the waiter).
DoneReset(s) ==
    /\ director' = [director EXCEPT ![s] = FALSE]
    /\ restarts' = [restarts EXCEPT ![s] = 0]
    /\ wbo' = [wbo EXCEPT ![swrk[s]] = NoBusy]

cnt_done_close(s) ==
    /\ At(s, "done")
    /\ ~fdopen[s] \/ doclose[s]
    /\ wobjcore[swrk[s]] = NoObj
    /\ DoneReset(s)
    /\ fdopen' = [fdopen EXCEPT ![s] = FALSE]
    /\ spark' = [spark EXCEPT ![s] = "closed"]          \* SES_Delete
    /\ swrk' = [swrk EXCEPT ![s] = NoWorker]
    /\ UNCHANGED <<step, digest, doclose, wobj, wobjcore, wvbc, hashVars, panics>>

\* CNT_Session asserts AZ(wrk->objcore) when the loop ends.
cnt_done_close_panic(s) ==
    /\ At(s, "done")
    /\ ~fdopen[s] \/ doclose[s]
    /\ wobjcore[swrk[s]] # NoObj
    /\ ChildPanic("exit_with_objcore")

cnt_done_keep(s) ==
    /\ At(s, "done")
    /\ fdopen[s] /\ ~doclose[s]
    /\ DoneReset(s)
    /\ \/ /\ Goto(s, "start")                          \* HTC_Reinit == 1
          /\ UNCHANGED <<spark, swrk>>
       \/ /\ Goto(s, "wait")                           \* read-ahead or linger
          /\ UNCHANGED <<spark, swrk>>
       \/ /\ spark' = [spark EXCEPT ![s] = "waiter"]    \* Pool_Wait
          /\ swrk' = [swrk EXCEPT ![s] = NoWorker]
          /\ UNCHANGED step
    /\ UNCHANGED <<digest, fdopen, doclose, wobj, wobjcore, wvbc, hashVars, panics>>

\* CNT_Session: a worker picks up a scheduled session.  From the acceptor
\* or the waiter the socket is set blocking, which may fail and close.
\* Nothing of the worker's scratch state is reset.
CNT_Session(s, w) ==
    /\ spark[s] = "ready"
    /\ Idle(w)
    /\ spark' = [spark EXCEPT ![s] = "run"]
    /\ swrk' = [swrk EXCEPT ![s] = w]
    /\ \/ UNCHANGED <<step, fdopen>>
       \/ /\ step[s] \in {"first", "start"}
          /\ fdopen' = [fdopen EXCEPT ![s] = FALSE]
          /\ Goto(s, "done")
    /\ UNCHANGED <<restarts, digest, doclose, director, wrkVars, hashVars, panics>>

-----------------------------------------------------------------------------
(***************************************************************************)
(* Environment: acceptor, waiter, expiry thread.                           *)
(***************************************************************************)

\* The acceptor hands a new connection to the pool (SES_New, Pool_Schedule).
Accept(s) ==
    /\ spark[s] = "closed"
    /\ spark' = [spark EXCEPT ![s] = "ready"]
    /\ step' = [step EXCEPT ![s] = "first"]
    /\ fdopen' = [fdopen EXCEPT ![s] = TRUE]
    /\ doclose' = [doclose EXCEPT ![s] = FALSE]
    /\ UNCHANGED <<swrk, restarts, digest, director, wrkVars, hashVars, panics>>

\* The waiter sees data on a parked connection and reschedules it in START.
WaiterReadable(s) ==
    /\ spark[s] = "waiter"
    /\ spark' = [spark EXCEPT ![s] = "ready"]
    /\ Goto(s, "start")
    /\ UNCHANGED <<swrk, restarts, digest, fdopen, doclose, director,
                   wrkVars, hashVars, panics>>

\* The waiter times the idle connection out and deletes the session.
WaiterTimeout(s) ==
    /\ spark[s] = "waiter"
    /\ spark' = [spark EXCEPT ![s] = "closed"]
    /\ fdopen' = [fdopen EXCEPT ![s] = FALSE]
    /\ UNCHANGED <<step, swrk, restarts, digest, doclose, director,
                   wrkVars, hashVars, panics>>

\* The expiry thread removes an object from the cache and drops its ref.
Expire(o) ==
    /\ ocstate[o] = "valid"
    /\ ocref' = [ocref EXCEPT ![o] = @ - 1]
    /\ ocstate' = [ocstate EXCEPT ![o] = IF ocref[o] = 1 THEN "free" ELSE "dead"]
    /\ UNCHANGED <<sessVars, wrkVars, ockey, ocpass, waiting, panics>>

-----------------------------------------------------------------------------

Step(s) ==
    \/ cnt_first(s) \/ cnt_wait(s) \/ cnt_start(s) \/ cnt_recv(s)
    \/ cnt_lookup_hit(s) \/ cnt_lookup_wait(s) \/ cnt_lookup_miss(s)
    \/ cnt_hit_deliver(s) \/ cnt_hit_drop(s) \/ cnt_miss(s) \/ cnt_pass(s)
    \/ cnt_pipe(s) \/ cnt_fetch_fail(s) \/ cnt_fetch(s)
    \/ cnt_fetchbody_nomem(s) \/ cnt_fetchbody_stream(s) \/ cnt_fetchbody(s)
    \/ cnt_streambody_fetched(s) \/ cnt_streambody_failed(s)
    \/ cnt_prepresp(s) \/ cnt_prepresp_restart(s)
    \/ cnt_prepresp_stream_panic(s) \/ cnt_prepresp_restart_panic(s)
    \/ cnt_deliver(s) \/ cnt_error_nomem(s) \/ cnt_error(s)
    \/ cnt_done_close(s) \/ cnt_done_close_panic(s) \/ cnt_done_keep(s)

Schedule(s) == \E w \in Workers : CNT_Session(s, w)

Environment ==
    \/ \E s \in Sess : Accept(s) \/ WaiterReadable(s) \/ WaiterTimeout(s)
    \/ \E o \in Objs : Expire(o)

Next ==
    \/ \E s \in Sess : Schedule(s) \/ Step(s)
    \/ Environment

\* Workers run a handler to its next transition and the pool schedules
\* queued sessions; clients, the waiter and the expiry thread are not fair.
\* A running session's handler is always enabled in the code (HSH_Lookup
\* allocates its objcore); only the model's bound on objcore slots can
\* disable cnt_lookup for a while, so handler steps are strongly fair.
Fairness == \A s \in Sess : SF_vars(Step(s)) /\ WF_vars(Schedule(s))

Spec == Init /\ [][Next]_vars
FairSpec == Spec /\ Fairness

-----------------------------------------------------------------------------
(***************************************************************************)
(* Properties.                                                             *)
(***************************************************************************)

Holders(o) == Cardinality({w \in Workers : wobj[w] = o})
              + Cardinality({w \in Workers : wobjcore[w] = o})

\* Every objcore reference taken by HSH_Lookup or kept by the cache is
\* given back exactly once: its refcount is the number of workers pointing
\* at it (wrk->obj, wrk->objcore) plus one while it is in the cache, and
\* it is freed exactly when that reaches zero.  Broken by a handler path
\* that forgets HSH_Deref/HSH_Drop or does it twice.
RefcountConsistent ==
    \A o \in Objs :
        /\ ocref[o] = Holders(o) + (IF ocstate[o] = "valid" THEN 1 ELSE 0)
        /\ (ocstate[o] = "free") = (ocref[o] = 0)

\* The restart counter never exceeds max_restarts, whichever of vcl_hit,
\* vcl_fetch, vcl_deliver and vcl_error asks for the restarts.
RestartBound == \A s \in Sess : restarts[s] <= MaxRestarts

\* cnt_recv's entry assertions AZ(sp->director) and AZ(wrk->obj): every
\* path into recv (start and the four restart paths) has cleared them.
RecvEntryClean ==
    \A s \in Sess : At(s, "recv") => ~director[s] /\ wobj[swrk[s]] = NoObj

\* The held resources match the step (the spec's resource discipline): a
\* backend connection only from fetch until the body is read, an object
\* reference only from hit/fetchbody/error until delivered, and a busy
\* objcore only between miss and fetchbody (or the error it fails into);
\* a worker with no session holds nothing.
ResourceDiscipline ==
    \A w \in Workers :
        LET st == {step[s] : s \in {x \in Sess : swrk[x] = w}} IN
        /\ wvbc[w] => st \cap {"fetchbody", "prepresp", "streambody"} # {}
        /\ wobj[w] # NoObj => st \cap {"hit", "prepresp", "deliver", "streambody"} # {}
        /\ wobjcore[w] # NoObj =>
              /\ st \cap {"miss", "fetch", "fetchbody", "error", "done"} # {}
              /\ ocstate[wobjcore[w]] = "busy"

\* A session parked behind a busy objcore is eventually rescheduled.
WaitlistProgress ==
    \A s \in Sess : spark[s] = "waitlist" ~> spark[s] # "waitlist"

\* Spec scenario 3: a session parked behind a busy peer is re-dispatched
\* in lookup when the peer's fetch ends, "and either hits A's object or
\* proceeds to miss".  So a parked session eventually gets past
\* cnt_lookup.  The rushed session runs HSH_Lookup again (1150), and it
\* parks again if another session has meanwhile inserted a new busy
\* objcore for the key.
WaitlistServed ==
    \A s \in Sess : spark[s] = "waitlist" ~> step[s] # "lookup"

\* Every request that reaches cnt_recv eventually is done, is closed (or
\* the child dies) or parks on a waiting list, which WaitlistProgress then
\* resumes: restarts are bounded and no chain of handlers loops.  Broken
\* by a restart path that does not count.  (Completion itself is not
\* promised: a resumed lookup can lose the key to a newer miss again.)
RequestCompletes ==
    \A s \in Sess :
        step[s] = "recv" ~> step[s] = "done" \/ spark[s] \in {"closed", "waitlist"}

\* vcl_deliver may return restart after a cache hit without the child
\* dereferencing a NULL wrk->busyobj (cnt_prepresp, line 250).
NullBusyobjNeverRead == "deliver_restart_null_busyobj" \notin panics

\* cnt_prepresp's AssertObjCorePassOrBusy for a streaming busyobj holds:
\* do_stream is only seen with the object being fetched (line 182).
StreamAssertHolds == "prepresp_stream_not_busy" \notin panics

\* A session never ends with a busy objcore left on its worker
\* (CNT_Session's AZ(wrk->objcore), line 1698).
ObjcoreReleasedAtExit == "exit_with_objcore" \notin panics

\* A stream whose body was fetched completely leaves the client connection
\* open (spec, streambody: doclose = "Stream error" only on a failure).
\* cnt_streambody tests obj->objcore rather than FetchBody's result alone.
StreamCloseOnlyOnError ==
    [][\A s \in Sess : cnt_streambody_fetched(s) => doclose'[s] = doclose[s]]_vars


\* The engine uses the hash layer as HashWaitlist describes it: a key has
\* a fetch in progress while it has a busy objcore and something cached
\* while it has a valid one.  Every handler step is a step of the promise
\* or leaves it unchanged: a miss starts the only fetch of its key, a busy
\* lookup parks, and the paths that end a fetch (Unbusy, Drop, the Deref of
\* a busy objcore, streambody) rush the whole waiting list as they do.
Hash == INSTANCE HashWaitlist
    WITH fetches <- [k \in Keys |-> Cardinality(Busy(k))],
         cached <- [k \in Keys |-> Valid(k) # {}]
HashRefinement == Hash!Spec

\* Every fetch the engine starts ends: under the workers' fairness a busy
\* objcore is eventually made valid (HSH_Unbusy, streambody), dropped or
\* dereferenced, on every path from vcl_miss to the end of the body,
\* including vcl_miss error/pass and the vcl_fetch and vcl_deliver
\* restarts.  Broken by a path that leaves a busy objcore behind, which
\* would park every later lookup of its key for good.
HashLiveness == Hash!LiveSpec

=============================================================================
