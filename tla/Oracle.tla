------------------------------- MODULE Oracle -------------------------------
(***************************************************************************)
(* The hare eligibility oracle (src/hare4/eligibility/oracle.go): the      *)
(* active set of an epoch, computed from the bootstrap fallback, the       *)
(* epoch's first block or the reference ballots and kept in an LRU cache   *)
(* that a switch from not synced to synced drops; and the eligibility      *)
(* check that CalcEligibility (the scheduler, for its signers) and         *)
(* Validate (the message handler, for a sender) both run.                  *)
(*                                                                         *)
(* Concurrent callers are goroutines. prepareEligibilityCheck takes o.mu   *)
(* twice, once in minerWeight and once in totalWeight, with the VRF checks *)
(* in between: each caller therefore takes two steps, Begin and Check.    *)
(* ActiveSet and IsIdentityActiveOnConsensusView make one actives call.   *)
(* The sync provider, the bootstrap updater (UpdateActiveSet) and the     *)
(* database (a first block stored) are the environment.                   *)
(*                                                                         *)
(* An active set is kept as the set of its ATXs: computeActiveWeights      *)
(* derives the node weights from it deterministically. The fixed-point   *)
(* BinCDF of the fixed library is the exact binomial CDF here, and the    *)
(* VRF fraction a multiple of 1/FracDen.                                   *)
(***************************************************************************)
EXTENDS Integers, Sequences, FiniteSetsExt, Combinatorics

CONSTANTS
  Callers,          \* concurrent goroutines calling the oracle
  Calls,            \* the calls they make: [op, layer, cs, id, f, count, sig]
  Atxs, Nodes,
  AtxNode,          \* atxsdata: the identity of an ATX
  AtxWeight,        \* atxsdata: the weight of an ATX
  AtxKnown,         \* per epoch: the ATXs atxsdata holds
  Ballots,          \* per epoch: first ballots, [beacon, actives]
  FirstBlock,       \* per epoch: the active set of the first block, once stored
  Beacon,           \* per epoch: the beacon, or NoBeacon
  FallbackSets,     \* active sets UpdateActiveSet may deliver
  Epochs,
  LayersPerEpoch, EffectiveGenesis, ConfidenceParam,
  CacheSize,        \* activesCacheSize
  MaxSupportedN,    \* maxSupportedN
  FracDen,          \* VRF fractions are k / FracDen
  NoSet, NoBeacon, Missing

VARIABLES
  synced,     \* o.synced
  syncSet,    \* o.sync # nil (SetSync was called)
  isSynced,   \* what the sync provider answers now
  cache,      \* o.activesCache: <<[e, s]>>, most recently used first
  fallback,   \* o.fallback: epoch -> active set or NoSet
  blockDone,  \* epochs whose first block is stored in the database
  cpc,        \* per caller: "idle", "weighed", "done"
  call,       \* per caller: the call it makes
  wt,         \* per caller: the miner weight minerWeight returned
  wset,       \* per caller: the active set minerWeight read it from
  tset,       \* per caller: the active set totalWeight read
  lost,       \* per caller: its epoch's entry left the cache since minerWeight
  res         \* per caller: [err, k, acc], the call's return values

vars == <<synced, syncSet, isSynced, cache, fallback, blockDone,
          cpc, call, wt, wset, tset, lost, res>>

-----------------------------------------------------------------------------
(* Layers and epochs.                                                      *)

EpochOf(l) == l \div LayersPerEpoch
FirstLayer(e) == e * LayersPerEpoch

\* actives: the first epoch after genesis and the checkpoint epoch use their
\* own active set; later, the first ConfidenceParam layers use the previous
\* epoch's.
TargetEpoch(l) ==
  IF EpochOf(l) > EpochOf(EffectiveGenesis + 1)
     /\ l - FirstLayer(EpochOf(l)) < ConfidenceParam
  THEN EpochOf(l) - 1 ELSE EpochOf(l)

-----------------------------------------------------------------------------
(* Active sets.                                                            *)

\* activeSetFromRefBallots: union of the active sets of the epoch's first
\* ballots that carry epoch data with the local beacon; a ballot whose
\* active set is missing is skipped.
activeSetFromRefBallots(e) ==
  IF Beacon[e] = NoBeacon THEN Missing
  ELSE UNION {b.actives : b \in {b \in Ballots[e] : b.beacon = Beacon[e] /\ b.actives # Missing}}

computeActiveSet(e) ==
  IF fallback[e] # NoSet THEN fallback[e]
  ELSE IF e \in blockDone /\ FirstBlock[e] # {} THEN FirstBlock[e]
  ELSE activeSetFromRefBallots(e)

\* computeActiveWeights fails on an ATX that atxsdata does not hold.
computeActiveWeightsOk(e, s) == s \subseteq AtxKnown[e]

\* minerWeight: the weight of id in the set, or -1 (ErrNotActive).
MinerWeightIn(s, id) ==
  IF \E a \in s : AtxNode[a] = id
  THEN AtxWeight[CHOOSE a \in s : AtxNode[a] = id] ELSE -1

TotalWeightOf(s) == MapThenSumSet(LAMBDA a : AtxWeight[a], s)

CacheKeys(q) == {q[i].e : i \in 1..Len(q)}
CacheGet(q, e) == q[CHOOSE i \in 1..Len(q) : q[i].e = e].s
Without(q, e) == SelectSeq(q, LAMBDA x : x.e # e)

\* Mutant: the capacity is not enforced.
CacheAddNoEvict(q, e, s) == <<[e |-> e, s |-> s]>> \o Without(q, e)

\* lru Get moves the entry to the front; Add inserts at the front and
\* evicts the least recently used entry beyond CacheSize.
CacheAdd(q, e, s) ==
  LET q1 == <<[e |-> e, s |-> s]>> \o Without(q, e)
  IN SubSeq(q1, 1, IF Len(q1) > CacheSize THEN CacheSize ELSE Len(q1))

\* Mutant: the cache is filled but never consulted.
ActivesAtNoLookup(l, e0) ==
  LET te == TargetEpoch(l)
      as == computeActiveSet(te)
      ok == as # Missing /\ as # {} /\ computeActiveWeightsOk(te, as)
  IN IF l <= EffectiveGenesis
     THEN [err |-> TRUE, set |-> NoSet, cache |-> cache, synced |-> synced, drop |-> FALSE]
     ELSE [err |-> ~ok, set |-> IF ok THEN as ELSE NoSet, synced |-> synced,
           cache |-> IF ok THEN CacheAdd(cache, te, as) ELSE cache, drop |-> FALSE]

\* actives(targetLayer) under o.mu, with resetCacheOnSynced first: the
\* result [err, set], the cache and o.synced after the call, and whether
\* the call dropped the entry of epoch e0 (reset or eviction).
ActivesAt(l, e0) ==
  LET te    == TargetEpoch(l)
      reset == syncSet /\ ~synced /\ isSynced
      q0    == IF reset THEN <<>> ELSE cache
      as    == computeActiveSet(te)
      ok    == as # Missing /\ as # {} /\ computeActiveWeightsOk(te, as)
      q1    == IF te \in CacheKeys(q0)
               THEN <<[e |-> te, s |-> CacheGet(q0, te)]>> \o Without(q0, te)
               ELSE IF ok THEN CacheAdd(q0, te, as) ELSE q0
  IN IF l <= EffectiveGenesis
     THEN [err |-> TRUE, set |-> NoSet, cache |-> cache, synced |-> synced, drop |-> FALSE]
     ELSE [err    |-> te \notin CacheKeys(q0) /\ ~ok,
           set    |-> IF te \in CacheKeys(q0) THEN CacheGet(q0, te)
                      ELSE IF ok THEN as ELSE NoSet,
           cache  |-> q1,
           synced |-> IF syncSet THEN isSynced ELSE synced,
           drop   |-> (e0 \in CacheKeys(cache) /\ e0 \notin CacheKeys(q1)) \/
                      (reset /\ e0 \in CacheKeys(cache))]

-----------------------------------------------------------------------------
(* The eligibility arithmetic.                                             *)

\* BinCDF(n, c/t, x) as a fraction over t^n: the probability of at most x
\* successes in n draws of probability c/t.
Pow(b, e) == IF e = 0 THEN 1 ELSE b^e

CdfNum(n, c, t, x) ==
  IF x < 0 THEN 0
  ELSE MapThenSumSet(LAMBDA k : choose(n, k) * Pow(c, k) * Pow(t - c, n - k),
                     0..(IF x < n THEN x ELSE n))

\* fixed.BinCDF(n, p, x).GreaterThan(vrfFrac), vrfFrac = f / FracDen.
CdfAbove(n, c, t, x, f) == CdfNum(n, c, t, x) * FracDen > f * Pow(t, n)

\* prepareEligibilityCheck from the point where both weights are known:
\* committeeSize > totalWeight scales both weights by the committee size,
\* a scaled n above maxSupportedN is an error with done = FALSE and zero
\* values. [n, c, t]: p = c / t.
Prepared(w, total, cs) ==
  LET scale == cs > total
      n     == IF scale THEN w * cs ELSE w
      t     == IF scale THEN total * cs ELSE total
  IN IF n > MaxSupportedN THEN [err |-> TRUE, n |-> 0, c |-> 0, t |-> 1]
     ELSE [err |-> FALSE, n |-> n, c |-> cs, t |-> t]

\* Mutant: the count is tested one outcome too high.
ValidCountShifted(pr, f, x) ==
  ~CdfAbove(pr.n, pr.c, pr.t, x, f) /\ CdfAbove(pr.n, pr.c, pr.t, x + 1, f)

\* Validate's threshold test for eligibilityCount x.
ValidCount(pr, f, x) ==
  ~CdfAbove(pr.n, pr.c, pr.t, x - 1, f) /\ CdfAbove(pr.n, pr.c, pr.t, x, f)

\* CalcEligibility's loop: the first x < n whose CDF exceeds vrfFrac, else n.
CalcCount(pr, f) ==
  LET xs == {x \in 0..pr.n - 1 : CdfAbove(pr.n, pr.c, pr.t, x, f)}
  IN IF xs = {} THEN pr.n ELSE Min(xs)

\* Reference: the eligibility count is the number of outcomes x in 0..n
\* whose binomial CDF does not exceed the VRF fraction.
RefCount(n, c, t, f) == Cardinality({x \in 0..n : ~CdfAbove(n, c, t, x, f)})

-----------------------------------------------------------------------------
(* The callers.                                                            *)

Done(c, r) ==
  /\ cpc' = [cpc EXCEPT ![c] = "done"]
  /\ res' = [res EXCEPT ![c] = r]

ErrRes == [err |-> TRUE, k |-> 0, acc |-> FALSE]

\* The cache and o.synced after an actives(l) call, and the lost marks of
\* the callers between their two calls whose epoch's entry it drops.
Locked(l) ==
  /\ cache' = ActivesAt(l, 0).cache
  /\ synced' = ActivesAt(l, 0).synced
  /\ lost' = [d \in Callers |->
                lost[d] \/ (cpc[d] = "weighed" /\ ActivesAt(l, TargetEpoch(call[d].layer)).drop)]

\* The layer an operation asks actives about: ActiveSet(epoch) asks about
\* the epoch's first layer plus ConfidenceParam.
CallLayer(k) == IF k.op = "activeset" THEN FirstLayer(k.layer) + ConfidenceParam ELSE k.layer

\* Validate or CalcEligibility, up to and including minerWeight; ActiveSet
\* and IsIdentityActiveOnConsensusView, whole.
Begin(c, k) ==
  /\ cpc[c] = "idle"
  /\ call' = [call EXCEPT ![c] = k]
  /\ LET a == ActivesAt(CallLayer(k), 0) IN
     IF k.op \in {"validate", "calc"} /\ k.cs < 1
     THEN /\ Done(c, ErrRes)
          /\ UNCHANGED <<cache, synced, lost, wt, wset>>
     ELSE /\ Locked(CallLayer(k))
          /\ IF k.op \in {"validate", "calc"}
             THEN IF a.err \/ MinerWeightIn(a.set, k.id) < 0
                  THEN Done(c, ErrRes) /\ UNCHANGED <<wt, wset>>
                  ELSE /\ cpc' = [cpc EXCEPT ![c] = "weighed"]
                       /\ wt' = [wt EXCEPT ![c] = MinerWeightIn(a.set, k.id)]
                       /\ wset' = [wset EXCEPT ![c] = a.set]
                       /\ UNCHANGED res
             ELSE /\ Done(c, [err |-> a.err, k |-> 0,
                              acc |-> k.op = "isactive" /\ ~a.err /\ MinerWeightIn(a.set, k.id) >= 0])
                  /\ UNCHANGED <<wt, wset>>
  /\ UNCHANGED <<syncSet, isSynced, fallback, blockDone, tset>>

\* Validate or CalcEligibility from buildVRFMessage on: the beacon, the VRF
\* signature (an invalid one ends the check with done and no error), then
\* totalWeight in a second actives call, and the threshold test.
Check(c) ==
  LET k  == call[c]
      a  == ActivesAt(k.layer, 0)
      tw == TotalWeightOf(a.set)
      pr == Prepared(wt[c], tw, k.cs)
  IN
  /\ cpc[c] = "weighed"
  /\ IF Beacon[EpochOf(k.layer)] = NoBeacon \/ ~k.sig
     THEN /\ Done(c, [err |-> Beacon[EpochOf(k.layer)] = NoBeacon, k |-> 0, acc |-> FALSE])
          /\ UNCHANGED <<cache, synced, lost, tset>>
     ELSE /\ Locked(k.layer)
          /\ tset' = [tset EXCEPT ![c] = a.set]
          /\ IF a.err \/ tw = 0
             THEN Done(c, ErrRes)
             ELSE IF k.op = "validate"
             THEN Done(c, [err |-> pr.err, k |-> k.count,
                           acc |-> ~pr.err /\ ValidCount(pr, k.f, k.count)])
             \* CalcEligibility goes on when done is FALSE, whatever err is.
             ELSE Done(c, [err |-> FALSE, k |-> CalcCount(pr, k.f), acc |-> FALSE])
  /\ UNCHANGED <<syncSet, isSynced, fallback, blockDone, call, wt, wset>>

-----------------------------------------------------------------------------
(* The environment.                                                        *)

\* SetSync installs the sync provider under o.mu.
SetSync ==
  /\ ~syncSet
  /\ syncSet' = TRUE
  /\ UNCHANGED <<synced, isSynced, cache, fallback, blockDone, cpc, call, wt, wset, tset, lost, res>>

\* The node falls out of sync or catches up.
SyncFlip ==
  /\ isSynced' = ~isSynced
  /\ UNCHANGED <<synced, syncSet, cache, fallback, blockDone, cpc, call, wt, wset, tset, lost, res>>

\* UpdateActiveSet under o.mu: the first active set delivered for an epoch
\* is kept, later ones are ignored; the cache is left as it is.
UpdateActiveSet(e, s) ==
  /\ fallback[e] = NoSet
  /\ fallback' = [fallback EXCEPT ![e] = s]
  /\ UNCHANGED <<synced, syncSet, isSynced, cache, blockDone, cpc, call, wt, wset, tset, lost, res>>

\* The first block of the epoch is stored in the database.
StoreFirstBlock(e) ==
  /\ e \notin blockDone
  /\ blockDone' = blockDone \cup {e}
  /\ UNCHANGED <<synced, syncSet, isSynced, cache, fallback, cpc, call, wt, wset, tset, lost, res>>

-----------------------------------------------------------------------------

Init ==
  /\ synced = FALSE /\ syncSet = FALSE /\ isSynced \in BOOLEAN
  /\ cache = <<>>
  /\ fallback = [e \in Epochs |-> NoSet]
  /\ blockDone = {}
  /\ cpc = [c \in Callers |-> "idle"]
  /\ call = [c \in Callers |-> CHOOSE k \in Calls : TRUE]
  /\ wt = [c \in Callers |-> 0]
  /\ wset = [c \in Callers |-> NoSet]
  /\ tset = [c \in Callers |-> NoSet]
  /\ lost = [c \in Callers |-> FALSE]
  /\ res = [c \in Callers |-> [err |-> FALSE, k |-> 0, acc |-> FALSE]]

Next ==
  \/ \E c \in Callers : \/ \E k \in Calls : Begin(c, k)
                        \/ Check(c)
  \/ SetSync \/ SyncFlip
  \/ \E e \in Epochs : \/ \E s \in FallbackSets : UpdateActiveSet(e, s)
                       \/ StoreFirstBlock(e)

Spec == Init /\ [][Next]_vars

-----------------------------------------------------------------------------
(* Properties.                                                             *)

TypeOK ==
  /\ synced \in BOOLEAN /\ syncSet \in BOOLEAN /\ isSynced \in BOOLEAN
  /\ cache \in Seq([e : Epochs, s : SUBSET Atxs]) /\ Len(cache) <= CacheSize
  /\ fallback \in [Epochs -> FallbackSets \cup {NoSet}]
  /\ blockDone \subseteq Epochs
  /\ cpc \in [Callers -> {"idle", "weighed", "done"}]
  /\ call \in [Callers -> Calls]
  /\ wt \in [Callers -> Nat]
  /\ wset \in [Callers -> SUBSET Atxs \cup {NoSet}]
  /\ tset \in [Callers -> SUBSET Atxs \cup {NoSet}]
  /\ lost \in [Callers -> BOOLEAN]
  /\ res \in [Callers -> [err : BOOLEAN, k : Nat, acc : BOOLEAN]]

\* prepareEligibilityCheck reads the miner's weight and the total weight in
\* two actives calls: both come from one active set, the one cached for the
\* epoch, unless a resync or an eviction dropped it from the cache between
\* them, whatever the updater and the database did meanwhile.
OneActiveSet ==
  \A c \in Callers :
    cpc[c] = "done" /\ tset[c] # NoSet /\ ~lost[c] => wset[c] = tset[c]

\* CalcEligibility and Validate agree with the reference count on what the
\* check read: a signer's computed count is the count the binomial CDF
\* brackets the VRF fraction with, Validate accepts exactly that count, and
\* both report no eligibility once the scaled weight is past maxSupportedN.
EligibilityAgreement ==
  \A c \in Callers :
    cpc[c] = "done" /\ tset[c] # NoSet /\ call[c].op \in {"validate", "calc"} =>
      LET k    == call[c]
          sc   == k.cs > TotalWeightOf(tset[c])
          n    == IF sc THEN wt[c] * k.cs ELSE wt[c]
          t    == IF sc THEN TotalWeightOf(tset[c]) * k.cs ELSE TotalWeightOf(tset[c])
          want == IF n > MaxSupportedN THEN 0 ELSE RefCount(n, k.cs, t, k.f)
      IN IF k.op = "calc" THEN res[c].k = want
         ELSE res[c].acc <=> (n <= MaxSupportedN /\ k.count = want)

====
