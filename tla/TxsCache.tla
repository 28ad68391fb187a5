------------------------------ MODULE TxsCache ------------------------------
(***************************************************************************)
(* The conservative transaction cache of package txs (the txs part of      *)
(* src/hare3/hare.go): per account, a list of candidates ordered by nonce, *)
(* each the best transaction of its nonce with the balance left after it   *)
(* (accountCache), the shared map cachedTXs of those best transactions and *)
(* the layer each is packed in, and the Cache operations Add,              *)
(* LinkTXsWithProposal, LinkTXsWithBlock and ApplyLayer.                   *)
(*                                                                         *)
(* The database is modelled by the rows the cache reads back: the          *)
(* transactions stored, those with a result (applied), and the proposal    *)
(* and block links. The account state (stateF) is what the VM leaves after *)
(* executing a block; the VM runs the block's transactions in order, a     *)
(* transaction with the account's nonce and enough balance is applied.     *)
(***************************************************************************)
EXTENDS Integers, Sequences, FiniteSets, SequencesExt, FiniteSetsExt

CONSTANTS
  Accounts,        \* principals (model values)
  Txs,             \* transactions: [principal, nonce, spend, fee, dest]
  NoDest,          \* dest of a transaction that credits no account
  InitBalance,     \* balance of every account in the genesis state
  MaxTXsPerAcct,   \* maxTXsPerAcct (100 in the code)
  NumLayers,       \* layers that can be applied
  MaxReverts,      \* bound on RevertToLayer calls
  MaxRevertDepth   \* bound on the layers one revert undoes

ASSUME \A t \in Txs : t.principal \in Accounts /\ t.dest \in Accounts \cup {NoDest}
ASSUME MaxTXsPerAcct \in Nat \ {0}

Layers == 1..NumLayers

VARIABLES
  pending,     \* DOMAIN c.pending: accounts with an accountCache
  acct,        \* per account: its accountCache (EmptyAcct when not pending)
  cachedTXs,   \* DOMAIN c.cachedTXs
  ntxLayer,    \* per cached transaction: NanoTX.Layer (0 = not packed)
  dbTxs,       \* transactions table
  applied,     \* transactions with a result (state APPLIED)
  inProposal,  \* proposal links: <<tx, layer>>
  hasProposal, \* layers for which a proposal was linked
  inBlock,     \* block links: <<tx, layer>>
  block,       \* per layer: the block's transactions, or <<>> when none yet
  hasBlock,    \* layers for which a block was linked
  lastApplied, \* layers.GetLastApplied
  stateNonce,  \* stateF: next nonce of each account
  stateBal,    \* stateF: balance of each account
  added,       \* history: transactions Cache.Add stored in the database
  resLayer,    \* per transaction: the layer of its result (0 = none)
  stateAt,     \* the VM's account state after each applied layer (0 = genesis)
  reverts      \* RevertToLayer calls so far

vars == <<pending, acct, cachedTXs, ntxLayer, dbTxs, applied, inProposal, hasProposal, inBlock,
          block, hasBlock, lastApplied, stateNonce, stateBal, added, resLayer, stateAt, reverts>>

-----------------------------------------------------------------------------
(* accountCache.                                                           *)

TxsOf(a) == {t \in Txs : t.principal = a}

\* NanoTX.Better without a block seed: the higher fee wins. Transactions of
\* one nonce have distinct fees in every model, so the Received tie-break is
\* never consulted.
Better(t, u) == t.fee > u.fee

EmptyAcct == [cands |-> <<>>, start |-> 0, bal |-> 0, more |-> FALSE]

NewAcct(a) == [EmptyAcct EXCEPT !.start = stateNonce[a], !.bal = stateBal[a]]

nextNonce(ac) == IF ac.cands = <<>> THEN ac.start ELSE Last(ac.cands).tx.nonce + 1

availBalance(ac) == IF ac.cands = <<>> THEN ac.bal ELSE Last(ac.cands).post

\* Mutant: an account is evicted as soon as its list is empty.
shouldEvictIgnoreMore(ac) == ac.cands = <<>>

shouldEvict(ac) == ac.cands = <<>> /\ ~ac.more

\* precheck's walk from the back: the position of the last candidate whose
\* nonce is at most n (0: insert at the front).
PrevIndex(ac, n) ==
  LET le == {i \in DOMAIN ac.cands : ac.cands[i].tx.nonce <= n}
  IN IF le = {} THEN 0 ELSE Max(le)

\* Mutant: a replaced candidate's spending is not given back.
PrecheckBalanceNoRefund(ac, i, n) == IF i = 0 THEN ac.bal ELSE ac.cands[i].post

\* precheck: the balance available to a transaction of nonce n placed at i.
PrecheckBalance(ac, i, n) ==
  IF i = 0 THEN ac.bal
  ELSE IF ac.cands[i].tx.nonce = n THEN ac.cands[i].post + ac.cands[i].tx.spend
  ELSE ac.cands[i].post

\* accept's balance propagation: every later candidate whose spending still
\* fits keeps its place with the new post balance, the others are removed.
\* Mutant: later candidates are charged without checking that they fit.
RECURSIVE PropagateUnchecked(_, _)
PropagateUnchecked(b, rest) ==
  IF rest = <<>> THEN [kept |-> <<>>, removed |-> {}]
  ELSE LET c == Head(rest)
           r == PropagateUnchecked(b - c.tx.spend, Tail(rest))
       IN [r EXCEPT !.kept = <<[c EXCEPT !.post = b - c.tx.spend]>> \o @]

RECURSIVE Propagate(_, _)
Propagate(b, rest) ==
  IF rest = <<>> THEN [kept |-> <<>>, removed |-> {}]
  ELSE LET c == Head(rest) IN
       IF b >= c.tx.spend
       THEN LET r == Propagate(b - c.tx.spend, Tail(rest))
            IN [r EXCEPT !.kept = <<[c EXCEPT !.post = b - c.tx.spend]>> \o @]
       ELSE LET r == Propagate(b, Tail(rest))
            IN [r EXCEPT !.removed = @ \cup {c.tx}]

\* Mutant: the replaced transaction stays in cachedTXs.
PlaceKeepReplaced(ac, cache, k, cand, replace, out0) ==
  LET r == Propagate(cand.post, SubSeq(ac.cands, IF replace THEN k + 1 ELSE k, Len(ac.cands)))
  IN [ac    |-> [ac EXCEPT !.cands = SubSeq(ac.cands, 1, k - 1) \o <<cand>> \o r.kept,
                           !.more = @ \/ r.removed # {}],
      cache |-> (cache \cup {cand.tx}) \ r.removed,
      err   |-> "none"]

\* The list with cand placed at k (replacing the candidate there when
\* replace), followed by the propagation over the candidates after it.
Place(ac, cache, k, cand, replace, out0) ==
  LET before == SubSeq(ac.cands, 1, k - 1)
      after  == SubSeq(ac.cands, IF replace THEN k + 1 ELSE k, Len(ac.cands))
      r      == Propagate(cand.post, after)
  IN [ac    |-> [ac EXCEPT !.cands = before \o <<cand>> \o r.kept,
                           !.more = @ \/ r.removed # {}],
      cache |-> ((cache \ out0) \cup {cand.tx}) \ r.removed,
      err   |-> "none"]

\* accept(ntx): precheck, then insert a new nonce or replace a worse best
\* transaction of the same nonce, and propagate the balance change.
Accept(ac, cache, t) ==
  LET i   == PrevIndex(ac, t.nonce)
      bal == PrecheckBalance(ac, i, t.nonce)
      fail(e) == [ac |-> ac, cache |-> cache, err |-> e]
  IN IF Len(ac.cands) >= MaxTXsPerAcct
     THEN [fail("tooMany") EXCEPT !.ac.more = TRUE]
     ELSE IF bal < t.spend THEN fail("balance")
     ELSE LET cand == [tx |-> t, post |-> bal - t.spend] IN
          IF i > 0 /\ ac.cands[i].tx.nonce = t.nonce
          THEN IF ~Better(t, ac.cands[i].tx) THEN fail("none")
               ELSE Place(ac, cache, i, cand, TRUE, {ac.cands[i].tx})
          ELSE Place(ac, cache, i + 1, cand, FALSE, {})

\* findBest: the feasible transaction with the highest fee (a singleton), or
\* the empty set.
FindBest(txs, balance) ==
  LET f == {t \in txs : balance >= t.spend}
  IN {t \in f : \A u \in f : ~Better(u, t)}

\* addBatch's loop over the sorted nonces; st counts the nonces added.
RECURSIVE BatchLoop(_, _, _, _)
BatchLoop(st, pool, nonces, balance) ==
  IF nonces = <<>> THEN st
  ELSE LET best == FindBest({t \in pool : t.nonce = Head(nonces)}, balance) IN
       IF best = {} THEN BatchLoop(st, pool, Tail(nonces), balance)
       ELSE LET r == Accept(st.ac, st.cache, CHOOSE b \in best : TRUE) IN
            IF r.err = "tooMany" THEN [st EXCEPT !.ac = r.ac, !.cache = r.cache]
            ELSE IF r.err # "none"
            THEN BatchLoop([st EXCEPT !.ac = r.ac, !.cache = r.cache], pool, Tail(nonces), balance)
            ELSE BatchLoop([ac |-> r.ac, cache |-> r.cache, n |-> st.n + 1],
                           pool, Tail(nonces), availBalance(r.ac))

AddBatch(ac, cache, pool) ==
  LET nonces == SetToSortSeq({m \in {t.nonce : t \in pool} : m >= nextNonce(ac)},
                             LAMBDA x, y : x < y)
      r == BatchLoop([ac |-> ac, cache |-> cache, n |-> 0], pool, nonces, availBalance(ac))
  IN [ac |-> [r.ac EXCEPT !.more = Len(nonces) > r.n], cache |-> r.cache]

-----------------------------------------------------------------------------
(* The database as the cache reads it.                                     *)

\* GetAcctPendingFromNonce over the rows db with results app: the account's
\* stored transactions from nonce n on that have no result yet.
DbPending(db, app, a, n) == {t \in db \ app : t.principal = a /\ t.nonce >= n}

\* getNextIncluded: the first block after layer `after` that includes t,
\* else the first proposal after it, else 0 (TransactionInBlock and
\* TransactionInProposal return the lowest such layer).
getNextIncluded(t, after) ==
  LET bl == {l \in Layers : <<t, l>> \in inBlock /\ l > after}
      pl == {l \in Layers : <<t, l>> \in inProposal /\ l > after}
  IN IF bl # {} THEN Min(bl) ELSE IF pl # {} THEN Min(pl) ELSE 0

\* NanoTX.UpdateLayerMaybe: the lowest layer a transaction is packed in is
\* retained (the contract stated on updateLayer).
UpdateLayerMaybe(cur, l) == IF cur = 0 \/ l < cur THEN l ELSE cur

\* updateLayer: tag each listed transaction with the layer; the loop returns
\* at the first transaction that is not cached.
RECURSIVE updateLayer(_, _, _)
updateLayer(tags, l, tids) ==
  IF tids = <<>> THEN tags
  ELSE IF Head(tids) \notin cachedTXs THEN tags
  ELSE updateLayer([tags EXCEPT ![Head(tids)] = UpdateLayerMaybe(@, l)], l, Tail(tids))

\* NanoTXs that are no longer cached are garbage: their tag is dropped.
Tags(cache, f) == [t \in Txs |-> IF t \in cache THEN f[t] ELSE 0]

\* Mutant: the account keeps its old start nonce and balance.
ResetAfterApplyKeepStart(a, ac, cache, n, b, db, app) ==
  LET cache0 == cache \ {ac.cands[i].tx : i \in DOMAIN ac.cands}
      ac0    == [ac EXCEPT !.cands = <<>>]
      pool   == DbPending(db, app, a, ac.start)
      r      == AddBatch(ac0, cache0, pool)
  IN IF pool = {} THEN [ac |-> [ac0 EXCEPT !.more = FALSE], cache |-> cache0, pool |-> pool]
     ELSE [ac |-> r.ac, cache |-> r.cache, pool |-> pool]

\* resetAfterApply followed by addPendingFromNonce(db, nonce, applied): the
\* candidates leave the cache, the account restarts from the state, and the
\* pending transactions are batched in again; `pool` are the NanoTXs made.
ResetAfterApply(a, ac, cache, n, b, db, app) ==
  LET cache0 == cache \ {ac.cands[i].tx : i \in DOMAIN ac.cands}
      ac0    == [cands |-> <<>>, start |-> n, bal |-> b, more |-> ac.more]
      pool   == DbPending(db, app, a, n)
  IN IF pool = {}
     THEN [ac |-> [ac0 EXCEPT !.more = FALSE], cache |-> cache0, pool |-> pool]
     ELSE LET r == AddBatch(ac0, cache0, pool)
          IN [ac |-> r.ac, cache |-> r.cache, pool |-> pool]

\* getMempool: the candidates before the first one without a layer are
\* taken to be packed already and skipped (its offset); the rest are offered.
MempoolOffset(ac, tags) ==
  LET untagged == {i \in DOMAIN ac.cands : tags[ac.cands[i].tx] = 0}
  IN IF untagged = {} THEN Len(ac.cands) ELSE Min(untagged) - 1

GetMempool(ac, tags) ==
  [i \in 1..Len(ac.cands) - MempoolOffset(ac, tags) |->
     ac.cands[MempoolOffset(ac, tags) + i].tx]

-----------------------------------------------------------------------------
(* Cache operations.                                                       *)

\* Cache.Add: createAcctIfNotPresent, accountCache.add (errBadNonce below the
\* account's start nonce, else accept), cleanupAccounts, and the database
\* insert when the error is acceptable (nil or errTooManyNonce). The caller
\* hands over only transactions the database does not hold yet.
Add(t) ==
  LET a  == t.principal
      ac == IF a \in pending THEN acct[a] ELSE NewAcct(a)
      r  == IF t.nonce < ac.start THEN [ac |-> ac, cache |-> cachedTXs, err |-> "badNonce"]
            ELSE Accept(ac, cachedTXs, t)
      keep == ~shouldEvict(r.ac)
      ok   == r.err \in {"none", "tooMany"}
  IN /\ t \notin dbTxs
     /\ pending' = IF keep THEN pending \cup {a} ELSE pending \ {a}
     /\ acct' = [acct EXCEPT ![a] = IF keep THEN r.ac ELSE EmptyAcct]
     /\ cachedTXs' = r.cache
     /\ ntxLayer' = Tags(r.cache, [ntxLayer EXCEPT ![t] = 0])
     /\ dbTxs' = IF ok THEN dbTxs \cup {t} ELSE dbTxs
     /\ added' = IF ok THEN added \cup {t} ELSE added
     /\ UNCHANGED <<applied, inProposal, hasProposal, inBlock, block, hasBlock, lastApplied,
                    stateNonce, stateBal, resLayer, stateAt, reverts>>

\* Transaction lists a proposal or block may carry: stored transactions
\* without a result, at most two, in any order.
TidSeqs == {<<t>> : t \in dbTxs \ applied} \cup
           {<<t, u>> \in (dbTxs \ applied) \X (dbTxs \ applied) : t # u}

\* LinkTXsWithProposal: addToProposal, then updateLayer.
LinkTXsWithProposal(l, tids) ==
  /\ l > lastApplied
  /\ l \notin hasProposal
  /\ hasProposal' = hasProposal \cup {l}
  /\ inProposal' = inProposal \cup {<<t, l>> : t \in ToSet(tids)}
  /\ ntxLayer' = updateLayer(ntxLayer, l, tids)
  /\ UNCHANGED <<pending, acct, cachedTXs, dbTxs, applied, inBlock, block, hasBlock,
                 lastApplied, stateNonce, stateBal, added, resLayer, stateAt, reverts>>

\* LinkTXsWithBlock for the layer's block: addToBlock, then updateLayer
\* (nothing to link for a block without transactions).
LinkTXsWithBlock(l, tids) ==
  /\ l > lastApplied
  /\ l \notin hasBlock
  /\ hasBlock' = hasBlock \cup {l}
  /\ block' = [block EXCEPT ![l] = tids]
  /\ inBlock' = inBlock \cup {<<t, l>> : t \in ToSet(tids)}
  /\ ntxLayer' = updateLayer(ntxLayer, l, tids)
  /\ UNCHANGED <<pending, acct, cachedTXs, dbTxs, applied, inProposal, hasProposal, lastApplied,
                 stateNonce, stateBal, added, resLayer, stateAt, reverts>>

\* applyEmptyLayer: transactions tagged with the empty layer move to the next
\* layer that includes them.
ApplyEmptyLayer(l) ==
  /\ ntxLayer' = [t \in Txs |-> IF t \in cachedTXs /\ ntxLayer[t] = l
                               THEN getNextIncluded(t, l) ELSE ntxLayer[t]]
  /\ UNCHANGED <<pending, acct, cachedTXs, dbTxs, applied, stateNonce, stateBal, resLayer>>

\* One step of the VM over the block: a transaction with its principal's
\* next nonce and enough balance is applied (and credits its destination),
\* any other is ineffective.
Execute(st, t) ==
  LET p == t.principal IN
  IF t.nonce = st.nonce[p] /\ t.spend <= st.bal[p]
  THEN [st EXCEPT !.nonce[p] = @ + 1,
                  !.bal = LET debited == [@ EXCEPT ![p] = @ - t.spend]
                          IN IF t.dest = NoDest THEN debited
                             ELSE [debited EXCEPT ![t.dest] = @ + t.spend],
                  !.results = @ \cup {t}]
  ELSE [st EXCEPT !.ineffective = @ \cup {t}]

\* ApplyLayer with a block: results committed and stored, accounts with a
\* result reset from the new state, accounts with an ineffective
\* transaction or with moreInDB reset too, and the touched accounts cleaned
\* up at the end.
ApplyBlock(l) ==
  LET vm   == FoldLeft(Execute, [nonce |-> stateNonce, bal |-> stateBal,
                                 results |-> {}, ineffective |-> {}], block[l])
      db   == dbTxs \cup vm.results \cup vm.ineffective
      app  == applied \cup vm.results
      byPrincipal == {t.principal : t \in vm.results}
      toCleanup   == byPrincipal \cup {t.principal : t \in vm.ineffective}
      toReset     == ((toCleanup \ byPrincipal) \cap pending)
                     \cup {a \in pending \ toCleanup : acct[a].more}
      resets      == byPrincipal \cup toReset
      start(a)    == IF a \in pending THEN acct[a] ELSE NewAcct(a)
      r == [a \in resets |-> ResetAfterApply(a, start(a), cachedTXs \cap TxsOf(a),
                                             vm.nonce[a], vm.bal[a], db, app)]
      ac1(a) == IF a \in resets THEN r[a].ac ELSE acct[a]
      kept   == {a \in pending \cup resets : ~(a \in toCleanup /\ shouldEvict(ac1(a)))}
      cache  == (cachedTXs \ UNION {TxsOf(a) : a \in resets}) \cup UNION {r[a].cache : a \in resets}
      pools  == UNION {r[a].pool : a \in resets}
  IN /\ stateNonce' = vm.nonce
     /\ stateBal' = vm.bal
     /\ dbTxs' = db
     /\ applied' = app
     /\ resLayer' = [t \in Txs |-> IF t \in vm.results THEN l ELSE resLayer[t]]
     /\ pending' = kept
     /\ acct' = [a \in Accounts |-> IF a \in kept THEN ac1(a) ELSE EmptyAcct]
     /\ cachedTXs' = cache
     /\ ntxLayer' = Tags(cache, [t \in Txs |-> IF t \in pools THEN getNextIncluded(t, l)
                                              ELSE ntxLayer[t]])

\* The layer after the last applied one is applied (checkApplyOrder): with
\* its block when one was linked, else as an empty layer.
ApplyLayer ==
  LET l == lastApplied + 1 IN
  /\ l <= NumLayers
  /\ lastApplied' = l
  /\ IF l \in hasBlock THEN ApplyBlock(l) ELSE ApplyEmptyLayer(l)
  /\ stateAt' = [stateAt EXCEPT ![l] = [nonce |-> stateNonce', bal |-> stateBal']]
  /\ UNCHANGED <<inProposal, hasProposal, inBlock, block, hasBlock, added, reverts>>

-----------------------------------------------------------------------------
(* Reorg: RevertToLayer and the rebuild from the database.                 *)

\* BuildFromTXs' loop body for one principal: createAcctIfNotPresent from
\* the state, then addBatch of the principal's transactions into the
\* shared cachedTXs.
BuildAcct(a, st, pool, nonce, bal) ==
  LET r == AddBatch([EmptyAcct EXCEPT !.start = nonce[a], !.bal = bal[a]], st.cache,
                    {t \in pool : t.principal = a})
  IN [acct |-> [st.acct EXCEPT ![a] = r.ac], cache |-> r.cache]

\* cleanupAccounts over the principals ps of the rebuild: the accounts
\* that should be evicted are deleted from the new c.pending.
cleanupAccounts(ps, st) ==
  [pending |-> {a \in ps : ~shouldEvict(st.acct[a])},
   acct    |-> [a \in Accounts |-> IF a \in ps /\ ~shouldEvict(st.acct[a])
                                   THEN st.acct[a] ELSE EmptyAcct],
   cache   |-> st.cache]

\* BuildFromTXs(rst): c.pending becomes a new map and each principal of rst
\* is built; c.cachedTXs is not reset, so it starts from the old entries.
\* The deferred cleanupAccounts runs at the end.
BuildFromTXs(rst, cache0, nonce, bal) ==
  cleanupAccounts({t.principal : t \in rst},
                  FoldSet(LAMBDA a, s : BuildAcct(a, s, rst, nonce, bal),
                          [acct |-> [a \in Accounts |-> EmptyAcct], cache |-> cache0],
                          {t.principal : t \in rst}))

\* buildFromScratch after undoLayers, with the results of layers up to r
\* kept (app): every transaction without a result is read
\* (AddressesWithPendingTransactions, GetAcctPendingFromNonce), given the
\* next layer that includes it after r (getNextIncluded), and the cache is
\* rebuilt from them and the reverted state (b).
buildFromScratch(r, app, b) ==
  /\ applied' = app
  /\ resLayer' = [t \in Txs |-> IF resLayer[t] > r THEN 0 ELSE resLayer[t]]
  /\ pending' = b.pending
  /\ acct' = b.acct
  /\ cachedTXs' = b.cache
  /\ ntxLayer' = Tags(b.cache, [t \in Txs |-> IF t \in dbTxs \ app THEN getNextIncluded(t, r)
                                             ELSE ntxLayer[t]])

RevertWith(r, app) ==
  buildFromScratch(r, app, BuildFromTXs(dbTxs \ app, cachedTXs, stateAt[r].nonce, stateAt[r].bal))

\* RevertToLayer(revertTo), called by the mesh together with the VM's
\* revert of its state and of the applied layer to revertTo (the VM drops
\* the states of the later layers): undoLayers removes the results of the
\* later layers, then buildFromScratch.
RevertToLayer(r) ==
  /\ r < lastApplied /\ lastApplied - r <= MaxRevertDepth /\ reverts < MaxReverts
  /\ reverts' = reverts + 1
  /\ lastApplied' = r
  /\ stateNonce' = stateAt[r].nonce
  /\ stateBal' = stateAt[r].bal
  /\ stateAt' = [l \in DOMAIN stateAt |-> IF l > r THEN stateAt[0] ELSE stateAt[l]]
  /\ RevertWith(r, {t \in applied : resLayer[t] <= r})
  /\ UNCHANGED <<dbTxs, inProposal, hasProposal, inBlock, block, hasBlock, added>>

-----------------------------------------------------------------------------

Init ==
  /\ pending = {}
  /\ acct = [a \in Accounts |-> EmptyAcct]
  /\ cachedTXs = {}
  /\ ntxLayer = [t \in Txs |-> 0]
  /\ dbTxs = {}
  /\ applied = {}
  /\ inProposal = {}
  /\ hasProposal = {}
  /\ inBlock = {}
  /\ block = [l \in Layers |-> <<>>]
  /\ hasBlock = {}
  /\ lastApplied = 0
  /\ stateNonce = [a \in Accounts |-> 0]
  /\ stateBal = InitBalance
  /\ added = {}
  /\ resLayer = [t \in Txs |-> 0]
  /\ stateAt = [l \in 0..NumLayers |-> [nonce |-> [a \in Accounts |-> 0], bal |-> InitBalance]]
  /\ reverts = 0

Next ==
  \/ \E t \in Txs : Add(t)
  \/ \E l \in Layers, tids \in TidSeqs : LinkTXsWithProposal(l, tids)
  \/ \E l \in Layers, tids \in TidSeqs \cup {<<>>} : LinkTXsWithBlock(l, tids)
  \/ ApplyLayer
  \/ \E r \in 0..NumLayers : RevertToLayer(r)

Spec == Init /\ [][Next]_vars

-----------------------------------------------------------------------------
(* Properties.                                                             *)

Cand == [tx : Txs, post : Nat]

TypeOK ==
  /\ pending \subseteq Accounts
  /\ acct \in [Accounts -> [cands : Seq(Cand), start : Nat, bal : Nat, more : BOOLEAN]]
  /\ \A a \in Accounts : Len(acct[a].cands) <= MaxTXsPerAcct
  /\ cachedTXs \subseteq Txs
  /\ ntxLayer \in [Txs -> 0..NumLayers]
  /\ applied \subseteq dbTxs /\ dbTxs \subseteq Txs /\ added \subseteq dbTxs
  /\ inProposal \subseteq Txs \X Layers /\ inBlock \subseteq Txs \X Layers
  /\ hasBlock \subseteq Layers /\ hasProposal \subseteq Layers
  /\ lastApplied \in 0..NumLayers
  /\ stateNonce \in [Accounts -> Nat] /\ stateBal \in [Accounts -> Nat]

\* The conservative promise of accountCache: the candidates of an account
\* are its own transactions in increasing nonce order from its start nonce,
\* and each post balance is the previous one (the start balance for the
\* first) minus the candidate's maximal spending. accept
\* keeps this through inserts, replacements and the balance propagation
\* that drops what no longer fits.
ConservativeBalance ==
  \A a \in pending :
    LET c == acct[a].cands IN
    /\ \A i \in DOMAIN c : c[i].tx.principal = a /\ c[i].tx.nonce >= acct[a].start
    /\ \A i \in 1..Len(c) - 1 : c[i].tx.nonce < c[i + 1].tx.nonce
    /\ \A i \in DOMAIN c :
         c[i].post = (IF i = 1 THEN acct[a].bal ELSE c[i - 1].post) - c[i].tx.spend

Candidates == UNION {{acct[a].cands[i].tx : i \in DOMAIN acct[a].cands} : a \in pending}

\* The shared cachedTXs map holds the best transaction of every candidate
\* of every account, and, until a reorg rebuilds the cache, nothing else:
\* replacement, propagation, reset and eviction all keep the index and the
\* lists in step.
CacheIndex ==
  /\ Candidates \subseteq cachedTXs
  /\ reverts = 0 => cachedTXs \subseteq Candidates

\* Cache.Has and Cache.Get answer only for transactions that some account
\* still holds as a candidate, also after RevertToLayer rebuilt the cache.
StaleFreeIndex == cachedTXs \subseteq Candidates

\* GetProjection never promises more than the state: an account's cache
\* starts at the state's next nonce and at most at the state's balance, as
\* ApplyLayer resets every account whose nonce the block advanced.
ProjectionSafe ==
  \A a \in pending : acct[a].start = stateNonce[a] /\ acct[a].bal <= stateBal[a]

\* A transaction Cache.Add stored and the VM has not yet applied, at or
\* above its account's nonce, is still represented: its account is cached
\* and either holds a candidate of that nonce or has moreInDB set, so that
\* the next ApplyLayer reconsiders it (addBatch, cleanupAccounts).
PendingNotLost ==
  \A t \in added \ applied :
    t.nonce >= stateNonce[t.principal] =>
      LET a == t.principal IN
      /\ a \in pending
      /\ acct[a].more \/ \E i \in DOMAIN acct[a].cands : acct[a].cands[i].tx.nonce = t.nonce

\* updateLayer's contract: every cached transaction linked to a proposal or
\* block of a layer not yet applied carries a layer tag, so getMempool does
\* not offer it again.
LinkedTagged ==
  \A t \in cachedTXs :
    (\E l \in Layers : l > lastApplied /\ <<t, l>> \in inProposal \cup inBlock)
      => ntxLayer[t] # 0

\* getMempool leaves out only candidates packed in a proposal or block of a
\* layer not yet applied: a candidate whose tag names a layer that is
\* already applied (and whose account ApplyLayer did not reset) is never
\* offered again, although it was not executed.
MempoolSkipsOnlyPacked ==
  \A a \in pending :
    \A i \in 1..MempoolOffset(acct[a], ntxLayer) : ntxLayer[acct[a].cands[i].tx] > lastApplied

=============================================================================
