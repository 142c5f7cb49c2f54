# TLA+ models of the varnishd request state engine

The code modelled is `src/bin/varnishd/cache/cache_center.c`, the per-request state machine
of varnishd. A worker thread takes a client session and drives it through
step handlers (`cnt_first` … `cnt_done`) until the session is parked or deleted.
The sessions share the hash table's objcores and their waiting lists.

## 1. Inventory

### Parts and how they interact

| Part | State | Operations | Interacts with |
|---|---|---|---|
| Step dispatcher `CNT_Session` (1627-1703) | `sp->step`, `sp->wrk` | blocking-mode setup on entry from the acceptor or waiter; the handler loop; the exit assertions `AZ(wrk->obj)` and `AZ(wrk->objcore)` | worker pool, handlers |
| Handlers `cnt_*` (96-1604) | per session: `restarts`, `director`, `doclose`, fd, `xid`; per worker (scratch, **not reset between sessions**): `wrk->obj`, `wrk->objcore`, `wrk->busyobj` (`do_stream`), `wrk->vbc` | one handler per step; every VCL hook result is a branch | hash layer, storage (`STV_NewObject`), backend (`FetchHdr`/`FetchBody`/`VDI_CloseFd`), waiter (`Pool_Wait`) |
| Hash layer contract (not under src/) | objcores: busy/valid, `OC_F_PASS`, refcount; a waiting list per objhead | `HSH_Lookup` (hit, miss with a new busy objcore, or park), `HSH_Deref`, `HSH_Drop`, `HSH_Unbusy` with `hsh_rush` | handlers; the expiry thread |
| xid counter (`xids`, 78; `cnt_start` 1549; `cli_debug_xid` 1713; `CNT_Init` 1751) | a global 32-bit unsigned counter; `sp->xid` per session | `++xids` with no lock; cleared per session in `cnt_done` (379); set from the CLI; seeded with `random()` | all workers, the CLI thread |
| Encoding and framing (`cnt_fetchbody` 689-782, `cnt_prepresp` 185-230) | busyobj `do_gzip/do_gunzip/is_gzip/...`, `res_mode` | pure decision tables | storage, delivery |
| Environment | acceptor, waiter, expiry thread | accept, wake or time out a parked connection, expire an object | dispatcher, hash layer |

### Hard behaviours

- **Interleaving.** Sessions run on different workers at the same time and meet only in the hash layer. A lookup
  behind a busy objcore parks the session (1150). The fetcher must then rush the
  waiting list on every path that clears the busy marker.
- **Stale scratch state.** `wrk->busyobj` survives restarts and is carried from session to session
  on the same worker. Only `cnt_done` (345) and `cnt_hit` (1076) clear it.
- **Partial failure.** Either storage allocation (fetchbody 808-825, error 462-477) can fail,
  and the backend can fail (587).
- **Protocol sequences.** There are four restart paths (hit, fetch, deliver, error), and only
  recv (1459) and error (504) check the bound. Object references are released on more than ten paths.
- **xid race and wrap (1549).** `sp->xid = ++xids` is a load and a store with no lock, on an unsigned counter that wraps.
- **Liveness.** A parked session must eventually be rescheduled.

### Properties per part

- Dispatcher and handlers: `RefcountConsistent`, `RestartBound`, `RecvEntryClean`,
  `ResourceDiscipline`, `NullBusyobjNeverRead`, `StreamAssertHolds`, `ObjcoreReleasedAtExit`.
- Hash waiting lists: `HashRefinement` (safety), `WaitlistProgress` and `HashLiveness` (liveness), and
  `WaitlistServed` (spec scenario 3, violated).
- Handler chains: `RequestCompletes` (liveness). A request in `recv` reaches `done`, is closed, or parks.
- xid counter: `XidAtomic` (refinement of `XidAlloc`), `XidUnique`, `RequestHasXid`. All three are violated.
- Streaming: `StreamCloseOnlyOnError`.
- Encoding and framing: `FilterMatchesTable`, `ObjectDescribesBody`, `LengthTrue`, `FramingSound`.

## 2. Module `CacheCenter` (the core)

**State.**
- Per session:
  - `step`: the step tag;
  - `spark`: closed / ready (queued for a worker) / run / waitlist / waiter;
  - `swrk`: the worker driving it;
  - `restarts`, `digest`, `fdopen` (`sp->fd >= 0`), `doclose` and `director`.
- Per worker, the scratch fields, which are never reset by scheduling:
  - `wobj`, `wobjcore`;
  - `wbo`: `NoBusy` or `[stream |-> do_stream]`;
  - `wvbc`.
- Hash layer: objcore slots with `ocstate` (free/busy/valid/dead), `ockey`, `ocpass`, `ocref`, and `waiting[k]`.
- `panics`: the set of assertion or NULL-dereference sites that were hit. A panic
  restarts the child in the empty state (`ChildPanic`), as the manager does.

**Actions.** There is one action per handler outcome, named after the handler
(`cnt_lookup_hit`, `cnt_lookup_wait`, `cnt_lookup_miss`, `cnt_fetchbody_nomem`, …).
`CNT_Session` schedules a queued session on an idle worker. Each action contains the whole
handler, including its calls into the hash layer (`HSH_Deref`, `HSH_Drop`, `HSH_Unbusy` with `Rush`),
which are modelled from the spec's contract and marked `spec_modelled` in PROJECT.json.
VCL return values, backend and storage outcomes, and the request's `Connection:` header
are chosen with `\E`. Actions whose guard is a failed assertion
(`cnt_prepresp_stream_panic`, `cnt_prepresp_restart_panic`, `cnt_done_close_panic`)
record the site and restart the child.
The environment actions are `Accept`, `WaiterReadable`, `WaiterTimeout` and `Expire`.

`cnt_streambody` is split by the outcome of `FetchBody` and the object's objcore: `cnt_streambody_fetched` (no error) and
`cnt_streambody_failed`; both end in `StreamEnd`, the common tail (961-984).

**Refinement of the hash layer's promise.** `HashWaitlist` states what the handlers rely on from the hash layer, as an
abstract specification with per key:
- `fetches`: the busy objcores;
- `cached`: whether a valid object can be found;
- `waiting`: the waiting list.

Its actions:
- `Begin`: a miss, allowed only with nothing cached and no fetch in progress;
- `Park`: a lookup that finds only the fetch;
- `Finish`: the fetch ends and the whole list is rushed, in one step;
- `Evict` and `Crash`.

`CacheCenter` instantiates it with
`fetches <- [k |-> Cardinality(Busy(k))]`, `cached <- [k |-> Valid(k) # {}]` and its own `waiting`, and the
safety run checks `HashRefinement == Hash!Spec`. The rush itself is in the hash helpers, which are modelled from the spec.
What the refinement checks of the handlers is that they use the helpers in a legal order:
- it fails if a second busy objcore is inserted for a key;
- it fails if a list is rushed while the fetch goes on;
- it fails if a busy marker is cleared without the rush.

`HashWaitlist` also states the contract's liveness half. `FetchFairness` is weak fairness on `Finish` for each key, and
`LiveSpec` is `Spec /\ FetchFairness`. `Evict` and `Crash` get no fairness. The liveness run checks
`HashLiveness == Hash!LiveSpec` under `FairSpec`: every busy objcore that the engine creates is eventually made valid,
dropped or dereferenced. This is checked on every path from `vcl_miss` to the end of the body, the restarts included.
`WaitlistProgress` speaks only for sessions that are parked. `HashLiveness` also fails when a busy objcore is left
behind with nobody waiting yet, which would park every later lookup of the key. The mutant `cnt_miss_no_deref` makes
`vcl_miss`'s error and pass paths forget `HSH_Deref`, and TLC finds the lasso in seconds.

`MC_CacheCenter` adds the symmetry set (sessions, workers and slots are interchangeable).

## 3. Modules `XidCounter` and `XidAlloc` (the transaction ids)

`XidCounter` models the counter with the session life cycle it depends on, and nothing else of a request.
- **State.** `xids` (modulo `2^XidBits`, the width of `unsigned`), per session `xid`, `loaded` (the
  register holding `xids` between the two halves of `++xids`), `step` (first, wait, start, req, done),
  `spark` and `fdopen`.
- **Actions.** `cnt_start_load` and `cnt_start_store` are the halves of line 1549: other workers
  and the CLI may run between them. `cnt_req` is the request from recv to deliver as one step; `cnt_req_park` and
  `Rush` are its wait on a hash waiting list. `cnt_done` clears `sp->xid` (379) and closes or keeps the connection.
  `cli_debug_xid` writes any value (1717). `Init` seeds `xids` with `random()`, whose top bit is clear.
  `CNT_Session` lets at most `NWorkers` sessions run at once.
- **Refinement.** `XidAlloc` is the promise: the counter and the session's xid move together in one step
  (`Assign`); `Clear` and `Set` are the other changes. `XidCounter` instantiates it with the identity mapping
  on `xids` and `xid` (`Abs == INSTANCE XidAlloc`) and checks `XidAtomic == Abs!Spec` as a property.
  The refinement fails even with a single worker once `debug.xid` writes. The run `xid_cli` shows it:
  a worker loads 0, the CLI sets 1, and the worker stores 1, so the setting is lost. Every XidCounter run
  is a violation: the unlocked counter breaks each promise the spec makes for it.

## 4. Module `Negotiation` (encoding and framing of one response)

`Negotiation` follows one response from `cnt_fetchbody` to the end of `cnt_prepresp`. A response served
from the cache starts in `cnt_prepresp` with no busyobj.
- **Inputs** are fixed in `Init` and never change:
  - `req`: gzip support, ESI child, HEAD, client accepts gzip, HTTP/1.1, `disable_esi`, a possible 304;
  - `hint`: vcl_fetch's `do_gzip`, `do_gunzip`, `do_esi` and `do_stream`;
  - `beresp_ce`: the backend's Content-Encoding (gzip, absent, other);
  - `hcl`: whether FetchHdr saw a Content-Length.
- **`cnt_fetchbody`** is the encoding part of the handler. It is built from one operator per decision,
  each a code block:
  - `NegotiateGunzip` and `NegotiateGzip`: the hint negotiation (735-758);
  - `StoredCE`: the header change (750-762);
  - `ChooseVfp`: the filter (766-777);
  - `ObjGziped`: `obj->gziped` (830);
  - `DoStream`: the conditions that turn streaming off (778-782, 866-871).

  `FilterOut` is what the filters (not under src/) store.
  Allocation failure and the body fetch are in `CacheCenter`.
- **`cnt_prepresp`** computes `res_mode` with `ResMode`, bit by bit in the code's order (185-214), and
  `FinalFraming` (215-232). A streamed object still has `obj->len == 0` at this point.

## 5. Runs

| Run | cfg | Bounds | Checks |
|---|---|---|---|
| safety | `CacheCenter_safety.cfg` | 2 sessions, 2 workers, 1 key, 3 slots, max_restarts 1, storage can fail | TypeOK, RefcountConsistent, RestartBound, RecvEntryClean, ResourceDiscipline, HashRefinement |
| restarts | `CacheCenter_restarts.cfg` | 1 session, 1 worker, 2 keys, 3 slots, max_restarts 2 | TypeOK, RefcountConsistent, RestartBound, RecvEntryClean |
| liveness | `CacheCenter_liveness.cfg` | 2 sessions, 2 workers, 1 key, 1 slot, max_restarts 1, no storage failure, no symmetry | WaitlistProgress, RequestCompletes, HashLiveness under `FairSpec` |
| null_busyobj | `CacheCenter_nullbusyobj.cfg` | 1 session | NullBusyobjNeverRead: **violated** |
| stream_assert | `CacheCenter_streamassert.cfg` | 1 session, 2 keys, max_restarts 2 | StreamAssertHolds: **violated** |
| objcore_exit | `CacheCenter_objcore.cfg` | 1 session, storage can fail | ObjcoreReleasedAtExit: **violated** |
| stream_close | `CacheCenter_streamclose.cfg` | 1 session, 1 slot, max_restarts 1 | StreamCloseOnlyOnError: **violated** |
| starvation | `CacheCenter_starvation.cfg` | the liveness bounds, under `FairSpec` | WaitlistServed: **violated** |
| xid_cli | `XidCounter_cli.cfg` | 2 sessions, 1 worker, 2-bit counter, CLI writes | XidAtomic (refinement of XidAlloc): **violated** |
| xid_race | `XidCounter_race.cfg` | 2 sessions, 2 workers, 3-bit counter | XidUnique: **violated** |
| xid_wrap | `XidCounter_wrap.cfg` | 1 session, 1 worker, 2-bit counter | RequestHasXid: **violated** |
| negotiation | `Negotiation.cfg` | every combination of inputs (13,824 initial states) | FilterMatchesTable, ObjectDescribesBody, LengthTrue, FramingSound |

**Why these bounds.**
- Two sessions on two workers with one key is the smallest setting where one
  session parks behind the other's busy objcore. The third slot lets a valid object, a busy one and a
  dead (dropped but still referenced) one exist together.
- Two restarts on two keys are needed for a restarted request to hit an object left by an earlier one.
  That is how the stale `do_stream` reaches `cnt_prepresp`.
- The two-session run with max_restarts 2 exceeds the time budget, so it is split into the first two runs.
  Between them, every action and every disjunct fires.
- A 2-bit counter wraps after at most four requests, which is within reach of one session. The race needs
  only two sessions on two workers. The CLI race needs only one worker, so `xid_cli` uses one. That shows the
  lost `debug.xid` is not the two-worker race. Wider counters add states and no new behaviour: the code never compares xids.
- `Negotiation` has no bound: it enumerates every input. It stops after one response,
  so its run sets `CHECK_DEADLOCK FALSE`. The session around the response is in `CacheCenter`.
- Deadlock is checked in every other run. The acceptor can always accept a closed session, so
  the system never has to stop.

**Fairness.**
- Each session's handler steps are strongly fair, and its scheduling is weakly fair. A worker runs a handler to its
  next transition, and the pool eventually gives a queued session a worker.
- Why strong fairness for handlers: in the code a running session's handler is always enabled, because `HSH_Lookup` allocates
  its objcore. In the model only the bound on objcore slots can disable `cnt_lookup`, for example while the single slot is
  expired but still referenced. Weak fairness would then let that session wait forever for a reason the code does not have.
- Clients, the waiter and the expiry thread are not fair: a client may never send another request.
- The liveness run has no symmetry, because symmetry is unsound for temporal properties.
- `RequestCompletes` counts parking on a waiting list as progress, because completion is not guaranteed. A rushed
  session can find a newer request's busy objcore and park again, for as long as fetches of that key end
  without caching anything. The spec's scenario 3 promises more: the rushed session hits or misses. The
  `starvation` run checks that as `WaitlistServed` under the same fairness, and TLC finds a lasso. Session B parks
  behind A's streamed fetch. The body fetch fails, which rushes B, and A's connection is closed. A reconnects and misses
  again before B's lookup runs, so B parks again, for ever. Every handler step stays strongly fair, and the
  single-slot bound plays no part. `WaitlistProgress` checks the re-dispatch, which the code does guarantee.

**Findings** (PROJECT.json `findings`):
1. A restart from `vcl_deliver` after a cache hit dereferences the NULL `wrk->busyobj` (250).
2. A stale streaming busyobj left by a `vcl_fetch` restart fails `AssertObjCorePassOrBusy` at 182
   when the next object served by that worker is a hit.
3. When both storage allocations fail, the busy objcore kept by `cnt_fetchbody` trips
   `AZ(wrk->objcore)` at 1698.
4. Two workers in the unlocked `++xids` give two live requests the same xid (1549).
5. `++xids` wraps to 0, and that request runs with xid 0, which `cnt_done` (364) takes for "no request".
6. A streamed pass that was fetched without error still sets `doclose = "Stream error"` (961-967), because a
   pass object has no objcore.
7. A `debug.xid` between a worker's load and store of `++xids` is overwritten (1717, 1549), even with one worker.
8. A session rushed off a waiting list can park again for ever (1150), against spec scenario 3.

## 6. Plan for later sittings

1. Larger instances of `CacheCenter`. Two keys are out of reach of the current encoding: with 2 or 3 objcore slots,
   the safety configuration passes 0.8 to 1.3 million states without finishing in 3 minutes. Another
   option was `MaxRestarts = 2` with 2 objcore slots. It takes 4 minutes and leaves too little margin under the 5-minute
   limit. Permuting sessions, workers and slots as a product group gives the same 187,648 distinct states as the
   present union of permutation groups, so symmetry offers nothing more. These instances need a cheaper encoding
   of the worker scratch state (`wobj`, `wobjcore`, `wbo`, `wvbc`).
2. With `max_restarts = 0`, every request goes to `error` before any lookup (`>=` at 1459). The spec says a request
   fails only when the cap is exceeded. TLC confirms that with `MaxRestarts = 0` no lookup, miss, pass, pipe or fetch
   action fires. This is recorded as a hazard and has no run yet.

## 7. Not modelled

- ESI sub-requests (`esi_level > 0`) in `CacheCenter`. `Negotiation` has the ESI child's effect on framing.
- `hash_ignore_busy` and `hash_always_miss`. `cnt_recv` and `cnt_done` only reset them (389-390, 1450-1451).
  They act inside `HSH_Lookup`, whose code is not under src/, and the spec gives them no semantics.
- The `INCOMPL()` branches: restart from `vcl_miss` (1288), error from `vcl_pipe` (1401),
  and pipe from an ESI sub-request (1497). They abort the child on purpose, as unimplemented
  features. The model assumes VCL does not return them, so `cnt_miss` has no restart outcome and `cnt_pipe`
  has no error outcome.
- Bodies, headers, workspaces, statistics, logging and `cnt_diag`. The workspace reservation that a parked session
  keeps until it is rushed (`AN(sp->ws->r)`, 1143) is listed as a hazard without a property. `cnt_diag`'s `else`
  branch (1620-1624) would dereference `sp->wrk` while it is NULL. The branch is dead: the step loop asserts
  `sp->wrk == wrk` before every handler.
- Backend I/O beyond its outcome. This includes the retry of `FetchHdr` on a recycled connection (584). The comment at
  576-579 assumes that a failure on a recycled connection means the backend closed it before it saw the request.
  `FetchHdr` is not under src/, so the model cannot tell that case from a backend that acted on the request and then
  closed. Its second try is part of `cnt_fetch_fail`'s single outcome.
- Timestamps: `obj->last_use` (239) and the LRU time. They are written without a lock, but nothing in this file
  reads them.
- `cli_debug_srandom`, which only reseeds `random(3)`.
- The code of the hash layer, storage, acceptor and waiter, which is not under src/.
  They enter only through the contracts listed above.
