# TLA+ models of go-spacemesh (hare3, eligibility oracle, txs cache, dbsync pool and server, hashsync)

This directory holds TLA+ models of the concurrent and stateful parts of the
repository. It is checked with TLC.

- Each `X.tla` is the model of one component.
- Each `MCX.tla` instantiates a model with small constants.
- Each `MCX*.cfg` is one TLC run.
- `PROJECT.json` lists:
  - the components, modelled or not;
  - the runs and the properties each one checks;
  - for every property of a passing run, a mutant: a plausible bug in the
    code that the property catches;
  - the map from every definition to the lines of `src/` it translates;
  - the findings;
  - the hazards of the code and the properties that cover them.

Run a check with `tlc -workers 2 -config MCX.cfg MCX` from this directory.

## The system and how its parts interact

The hare3 consensus layer (`src/hare3/hare.go`) has four parts:

- **Scheduler.** `Start` runs a loop that, for every new layer, calls
  `onLayer`. `onLayer` registers a protocol session and starts a `run`
  goroutine. `run` steps the session round by round. Through `onOutput` it
  sends weak coins and results on buffered channels, which the node consumes.
- **Handler.** Messages arriving from pubsub go to `Handler`. `Handler` looks
  up the session in the registry that `onLayer` fills and `run` empties. It
  grades the message, feeds it to the protocol, and records equivocators as
  malicious.
- **Txs cache.** The same file contains the conservative transaction cache
  (`accountCache`, `Cache`). Blocks and proposals link transactions to layers
  in it, and `ApplyLayer` advances the account states.

The hare eligibility oracle (`src/hare4/eligibility/oracle.go`) answers the
scheduler (`CalcEligibility` for its signers) and the handler (`Validate` for
a message's sender). Both compute the miner's weight and the total weight
of the epoch's active set, which the oracle takes from the bootstrap
fallback, the epoch's first block or the reference ballots and keeps in an
LRU cache. A switch from not synced to synced drops that cache.

The sync2 `dbsync` package (`src/sync2/dbsync/refcountpool.go`) contains two
more components:

- **`rcPool`.** A reference-counted pool used by the fingerprint tree.
- **p2p request server and client.** The server serves sync requests from
  peers behind a semaphore, a rate limiter and per-request goroutines. The
  client (`StreamRequest`, `Request`) opens a stream, writes the request and
  reads the `Response` under a hard timeout, with a goroutine that closes
  the stream when its context ends.

The hashsync `RangeSetReconciler` (`src/unnamed/part_000`) reconciles two peers'
item sets range by range. It exchanges fingerprints, item batches and probes.
Its test driver (`part_001`) runs two peers against each other round by round.

## Modules, and how they correspond to the code

| Module | Code | State | Actions |
|---|---|---|---|
| `HareScheduler` | `Start`, `onLayer`, `run`, `onOutput`, `Stop`, `Register` | registry, patrol, per-layer task pc, iteration, the two channels, cancellation | one per goroutine step; blocking sends are `select`s with `ctx.Done` |
| `HareHandler` | `Handler`, `onLayer`'s registration, `run`'s epilogue | sessions, per-message handler pc, the `IsMalicious` value read, OnInput's view of the round, atxsdata flags, proofs stored | lookup under `h.mu`, grade, `OnInput`, persist |
| `Oracle` | `actives`, `resetCacheOnSynced`, `computeActiveSet`, `computeActiveWeights`, `activeSetFromRefBallots`, `prepareEligibilityCheck`, `Validate`, `CalcEligibility`, `ActiveSet`, `IsIdentityActiveOnConsensusView`, `SetSync`, `UpdateActiveSet` | `o.synced`, the sync provider, the LRU as a recency-ordered sequence, the fallback map, the stored first blocks; per caller its pc, call, the weight and the active set each of its two reads returned | per caller `Begin` (up to `minerWeight`, or a whole `ActiveSet`/`IsIdentityActive` call) and `Check` (from `buildVRFMessage` to the result); the environment's `SyncFlip`, `UpdateActiveSet`, `StoreFirstBlock`, `SetSync` |
| `TxsCache` | `Cache.Add`, `LinkTXsWithProposal`, `LinkTXsWithBlock`, `ApplyLayer`, `RevertToLayer` (`undoLayers`, `buildFromScratch`, `BuildFromTXs`, `cleanupAccounts`) and their helpers | per-account candidate lists, `cachedTXs`, projected nonce and balance, layer tags, the layer of each result, the VM's state per applied layer | one per exported method, each with the whole call chain under the cache lock; the revert step includes the VM's revert that the mesh performs beside it |
| `RcPool` (+ `RcPoolSpec`) | `add`, `ref`, `release` | the entries slice with the uint32 free-bit encoding, `freeList` | one per method (all under the pool mutex) |
| `P2PServer` | `New`'s stream handler, `Run`, the per-request watcher and worker, `queueHandler` with `WrapHandler`; the client's `StreamRequest`, `streamRequest` and `Request` | semaphore, handler pcs, Run's pc, the stopped channel, the request contexts, the Response written; per client its pc, result, context, closer goroutine and its side's close | one per goroutine step; the server's worker waits for the client's write, the client's read for the response or a close |
| `RangeSync` | `Initiate`, `InitiateBounded`, `Process`, `handleMessage`, `InitiateProbe`, `HandleProbeResponse`, `calcSim`; the test driver | two stores, the message channel, turn, phase, received keys | start a sync or probe, one `Process` call of a peer, the probe reply |

Data is abstracted as follows:

- Transactions, streams, layers, senders and values are model values or small
  records.
- RangeSync's fingerprints are the exact item sets, so the model has no XOR
  collisions.
- The oracle keeps an active set as its set of ATXs. The weights follow
  from `atxsdata`'s constant ATX weights. `fixed.BinCDF` is the exact
  binomial CDF over integers, and the VRF fraction is a multiple of 1/4.
  Both `Validate` and `CalcEligibility` compare CDF values against the same
  fraction, so the fixed-point rounding of the library does not change
  which count they agree on.
- rcPool's `freeBit` is scaled from `1 << 31` down to 4. It only has to
  exceed every index and count the model reaches. Arithmetic wraps modulo
  `2 * freeBit`, as the uint32 does.

Some code is modelled from the specification because it is not under `src/`.
Each such definition is marked `spec_modelled` in the map:

- the hare3 protocol (`protocol.go`), which `HareScheduler` and `HareHandler`
  see only as its outputs and its equivocation detection.

## Runs

| Run | Expect | What it shows |
|---|---|---|
| `hare_scheduler` | pass | Sessions, cancellation and one-slot channels interleave without any of the following: a round run past the hardlock of iteration `IterationsLimit`, a double completion, a coin sent after `Stop` closed the coins channel, a layer left in charge in the patrol, or a `Stop` that hangs. |
| `txs_cache` | pass | Every interleaving of `Add`, the links, `ApplyLayer` and a one-layer `RevertToLayer` keeps four things in order. Candidate lists stay conservative, meaning every candidate is payable from the projected balance. `cachedTXs` holds every candidate, and nothing else until a revert. The projection stays at or ahead of the state. Every stored unapplied transaction stays reachable. |
| `txs_update_layer` | violation | Finding: `updateLayer` stops at the first uncached transaction. |
| `txs_revert_stale_index` | violation | Finding: after `RevertToLayer`, `cachedTXs` keeps entries no account holds. |
| `txs_stale_tag` | violation | Finding: a proposal's tag survives `ApplyLayer` of a block that omitted the transaction. |
| `rc_pool` | pass | The free list is exactly the set of unreferenced entries, counts match the held references, and `RcPool` implements `RcPoolSpec`. |
| `rc_pool_double_release` | violation | Finding: `release`'s "negative refcount" check cannot fire on a freed entry. |
| `p2p_server` | pass | Each semaphore slot has one owner, `Run` returns after cancellation, and a started request's stream is closed. Every client request returns with its stream closed, also when the server never answers. An answered request fails only after the client's own hard timeout. |
| `p2p_server_limiter_leak` | violation | Finding: cancellation during `limit.Wait` leaks the received stream and blocks the queued handlers. |
| `hare_handler` | pass | An equivocator is always marked malicious, whichever concurrent handler saw the proof. |
| `oracle` | pass | Two goroutines check eligibility while the node resyncs, the updater delivers active sets and a first block is stored. A check's two weight reads come from one active set unless a resync or an eviction dropped it in between. `CalcEligibility` returns, and `Validate` accepts, exactly the reference count, and both report no eligibility past `maxSupportedN`. |
| `range_sync` | pass | A full or bounded sync of any two stores over four keys ends with both stores holding the union in the range. No key is received twice, both peers finish, and a probe reports the exact similarity when the samples cover the range. |

### Findings

Each finding has a trace in its violation run and is detailed in
`PROJECT.json`:

1. **`hare.go:1277`.** `updateLayer` returns instead of skipping an uncached
   transaction, so the later transactions of a proposal are not tagged and
   `getMempool` offers them again.
2. **`hare.go:1318`.** `ApplyLayer` with a block retags only the accounts it
   resets. A transaction a proposal tagged with the layer, which the block
   left out, is skipped by `getMempool` forever.
3. **`refcountpool.go:54`.** A freed entry's refCount is `freeList | freeBit`
   and never 0, so a double release is not caught. It corrupts the free list.
4. **`refcountpool.go:326`.** When `limit.Wait` fails, `Run` returns without
   closing `stopped` or the received stream. Stream handlers stay blocked
   holding their semaphore slots.
5. **`hare.go:1126`.** `BuildFromTXs` replaces `c.pending` but keeps
   `c.cachedTXs`. After `RevertToLayer`, the NanoTXs that the rebuild does
   not re-accept stay there for good, so `Has` and `Get` report
   transactions that no account holds.

Two more observations are reachable but are not runs of their own:

- **`hare.go:317`.** `Handler` checks `IsMalicious` and then saves the proof
  as two separate steps. `MCHareHandler_ProofOnce.cfg` checks
  `ProofStoredOnce`, which asks for at most one save per sender, and TLC
  finds it violated. In that trace the sessions of two layers each save one
  proof. Specification 8, scenario 3 is about one session, so this is not a
  divergence from it. It only shows that the check-then-save is not atomic
  across sessions. The duplicate save is harmless, since the sender is
  marked either way, so it is not a run.
- **`oracle.go:256`.** After a resync drops the cache between a check's two
  `actives` calls, the second call can recompute another active set, because
  the updater or the database changed meanwhile. The miner's weight and the
  total weight then come from different sets. `OneActiveSet` allows exactly
  this case, and TLC reaches it: the invariant fails once its `lost`
  exemption is removed. The code accepts this as the price of the reset it
  added for issue 4552.

## Bounds, and why they are enough

- **HareScheduler:** two layers, one signer, two iterations and channel
  capacity 1. The sessions of consecutive layers overlap. A result can come
  before the last iteration. A blocked send occurs, so cancellation meets
  both the result and the coin `select`s.
- **TxsCache:** two accounts, three transactions of the first account and a
  two-candidate limit.
  - The transactions are chosen so that replacement, infeasibility through an
    overspending predecessor, the per-account limit and the VM's credit to
    the second account all occur.
  - The instance has 97,010 distinct states. A third layer, or a second
    account with its own transaction, multiplies the proposal and block
    links past what one run can check.
  - Two layers give a proposal and a block of different layers, applied in
    order.
  - One revert (`MaxReverts`) of one layer (`MaxRevertDepth`) is taken from
    any state with an applied layer. After it, adds, links and re-applies
    continue. The stale index appears after five steps.
- **RcPool:** three entries, two items and two references. This is enough for
  a reuse from a free list of length two and for a free list in non-index
  order.
- **P2PServer:** two client requests and one slot. One stream is dropped by
  `TryAcquire` while the other holds the slot. Each client's hard timeout can
  fire before, during or after its server's answer, and the server can be
  cancelled at any point.
- **HareHandler:** one equivocating sender, with three messages in one layer
  and two in another. Both the second and the third distinct message in a
  session occur, and handlers of different sessions race.
- **Oracle:** two callers, ten calls and two epochs of two layers, with
  genesis at layer 1 and confidence 1.
  - Layer 3 uses epoch 1's set. Layer 4 uses epoch 1's set by the confidence
    rule. Layer 5 and `ActiveSet(2)` use epoch 2's set.
  - Epoch 2 has no beacon, so both beacon errors occur.
  - Epoch 1's ballots include one with another beacon and one whose active
    set is missing. Its first block can be stored. A fallback can name an
    ATX that `atxsdata` lacks.
  - The cache holds one epoch, so the second epoch evicts the first.
  - `maxSupportedN` is 3, and committee size 4 against total weight 3 pushes
    the scaled weight past it.
  - The calls cover every early return of `prepareEligibilityCheck`: a
    non-positive committee, an inactive miner and an invalid VRF. They also
    cover `actives`' return for a layer not after genesis.
  - A Validate that accepts, and a CalcEligibility with a positive count,
    both occur.
- **RangeSync:** every pair of subsets of four keys, and every bound pair.
  - `maxSendRange` is 2, so ranges are split several times.
  - Item chunks of 2 split a batch.
  - A sample size of 3 covers both "sample covers range" and "sample shorter
    than range".
  - `MaxRounds` 6 is above the longest sync the model reaches. With it,
    `Terminates` shows that the driver's limit is never what ends a run.

## Fairness

- **HareScheduler:**
  - Every goroutine step of `Start`, of every `run` and of `eg.Wait` is weakly
    fair, because the Go scheduler runs runnable goroutines and timers fire.
  - The consumers of results and coins are fair only while the node runs.
  - `Stop` is never forced.
- **P2PServer:**
  - `Run`'s steps and each request's goroutines are weakly fair, and the rate
    limiter refills.
  - The client's steps, its hard timer and its closer goroutine are weakly
    fair: timers fire and goroutines run. The read deadline of the deadline
    adjuster is not forced. It is a possible early failure, not a guarantee
    the code relies on.
  - A handler blocked on the unbuffered queue is strongly fair for its
    `Dequeue`. Go serves blocked senders in FIFO order, and `Run` leaves its
    receive state between requests.
- **RangeSync:**
  - Each peer's `Process` is weakly fair, and so is the probe reply. The
    driver alternates the peers and always calls the peer whose turn it is.
  - The fairness is written as `<>[]RoundDue(p) => []<><<ProcessRound(p)>>_vars`.
    This is weak fairness with the enabling condition spelled out. Beyond
    `RoundDue(p)`, `ProcessRound(p)` only assigns primed variables and always
    changes `turn`. Stating it directly avoids TLC evaluating `ENABLED` over
    the fold of `Process`.
- **TxsCache, RcPool, HareHandler and Oracle** are checked for safety only. Their
  operations are calls from other components, which the code does not
  guarantee to make.

`CHECK_DEADLOCK FALSE` is set where the system may stop:

- HareScheduler stops after `Stop`.
- TxsCache and HareHandler stop once the bounded inputs are used up.
- The Oracle never stops, because the sync provider can always flip.
- P2PServer stops once `Run` has returned.
- RangeSync stops when a sync or probe is finished or has failed.

RcPool is checked for deadlock: with all references released, `add` is
always possible until the bound.

## Not modelled

The not-modelled parts, each with its reason, are listed in `PROJECT.json`.
In short:

- **Database-bound logic:** `selectProposals`, a filter of the layer's
  proposals by database lookups. The oracle's database errors other than
  "not found" are also left out. The handler model keeps its grade
  nondeterministic rather than composing with `Oracle`, because the product
  would multiply the handler's 170,000 states by the oracle's 200,000. `Oracle` checks the
  `Validate` that produces the grade on its own.
- **`Proof` and `GenVRF`:** a beacon lookup and a VRF signature, with no
  state.
- **The deadline adjuster** of the p2p streams, which is not in the
  repository. A read deadline is modelled only as a nondeterministic
  failure of the client's read. `ReadResponse`, a streaming decoder for
  other packages, is not modelled.
- **The round bound of `TestRandomSync`** (max(n, 2) driver iterations).
  With `maxSendRange = 1`, the stores {1} and {1, 2} need three iterations,
  so the FIXME'd test can fail. The exact bound is not a property of a run.
  `Terminates` shows that every sync ends within `MaxRounds`.
- **`IdentityStateStorage`:** one map under one mutex. Its `Set` checks
  each change against the fixed `validStateSwitch` table, so every call is
  one atomic step. Nothing else in the modelled parts shares its state. A
  model would only enumerate the table's paths, which the unit tests
  already walk.
- **Pure data, generated code, tests and CI workflows.**
