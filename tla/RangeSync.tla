------------------------------ MODULE RangeSync ------------------------------
(***************************************************************************)
(* hashsync.RangeSetReconciler (src/unnamed/part_000): two peers A and B   *)
(* reconcile their item stores over a conduit, round by round, as the      *)
(* package's driver runs them (doRunSync / doRunProbe in part_001): A      *)
(* initiates, then B and A alternately Process all messages of the         *)
(* previous round, until both have answered "done".                        *)
(*                                                                         *)
(* Keys are naturals ordered by <; a range [x, y) wraps around when        *)
(* x >= y, and x = y is the whole key space. A fingerprint is modelled as  *)
(* the exact set of the range's items (no XOR collisions). The store's     *)
(* GetRangeInfo is specified by the ItemStore interface (part_002); the    *)
(* `preceding` iterator is only a search hint and is left out. Conduit    *)
(* sends do not fail.                                                      *)
(***************************************************************************)
EXTENDS Naturals, Sequences, FiniteSets, SequencesExt

CONSTANTS
  Keys,           \* the keys items can have, a finite set of naturals > 0
  MaxSendRange,   \* WithMaxSendRange
  ItemChunkSize,  \* WithItemChunkSize
  SampleSize,     \* WithSampleSize
  MaxSampleSize,  \* maxSampleSize
  MaxRounds       \* bound on the driver's rounds

ASSUME Keys \subseteq Nat \ {0} /\ MaxSendRange > 0 /\ ItemChunkSize > 0 /\ SampleSize > 0

Nil == 0

VARIABLES
  store,    \* store[p]: the keys in peer p's ItemStore
  init,     \* init[p]: the keys p started with
  chan,     \* the messages of the last round, handed to the next peer
  turn,     \* the peer whose Process runs next
  phase,    \* "idle", "sync", "probe", "reply", "finished", "probed", "failed"
  done,     \* done[p]: what p's last Process returned
  recv,     \* recv[p]: keys p received in item batches
  dupRecv,  \* some peer received the same key twice
  bound,    \* <<x, y>> the initiator asked for; <<Nil, Nil>>: everything
  info,     \* the prober's RangeInfo
  pr,       \* the ProbeResult; sim is <<numerator, denominator>>
  rounds    \* the driver's completed rounds

vars == <<store, init, chan, turn, phase, done, recv, dupRecv, bound, info, pr, rounds>>

Peers == {"A", "B"}

Other(p) == IF p = "A" THEN "B" ELSE "A"

-----------------------------------------------------------------------------
(* The item store.                                                         *)

\* k lies in [x, y), wrapping around when x >= y.
InRange(k, x, y) == IF x < y THEN x <= k /\ k < y ELSE x <= k \/ k < y

\* The items of S in [x, y) in the order an iterator from x visits them.
RangeItems(S, x, y) ==
  LET R == {k \in S : InRange(k, x, y)} IN
  SetToSortSeq({k \in R : k >= x}, <) \o SetToSortSeq({k \in R : k < x}, <)

\* GetRangeInfo(preceding, x, y, -1); Nil bounds take the whole set from
\* Min, and an empty store has no Start iterator.
\* The RangeInfo of the items an iterator visits; start: it has a Start.
RangeInfo(its, start) == [fp |-> ToSet(its), count |-> Len(its), items |-> its, start |-> start]

GetRangeInfo(S, x, y) ==
  LET lo == IF x = Nil /\ S # {} THEN Min(S) ELSE x IN
  RangeInfo(IF lo = Nil THEN <<>> ELSE RangeItems(S, lo, IF x = Nil THEN lo ELSE y), S # {})

-----------------------------------------------------------------------------
(* Messages, and what RangeSetReconciler sends.                            *)

Msg(type, x, y, fp, count, keys) ==
  [type |-> type, x |-> x, y |-> y, fp |-> fp, count |-> count, keys |-> keys]

Ctl(type) == Msg(type, Nil, Nil, {}, 0, <<>>)

\* SendItems: ItemBatch messages of at most ItemChunkSize keys.
SendItems(its) ==
  LET chunk(i) == SubSeq(its, (i - 1) * ItemChunkSize + 1, Min({i * ItemChunkSize, Len(its)})) IN
  [i \in 1..(Len(its) + ItemChunkSize - 1) \div ItemChunkSize |->
     Msg("itemBatch", Nil, Nil, {}, 0, chunk(i))]

processSubrange(S, x, y) ==
  LET inf == GetRangeInfo(S, x, y) IN
  IF inf.count = 0 THEN <<Msg("emptyRange", x, y, {}, 0, <<>>)>>
  ELSE <<Msg("fingerprint", x, y, inf.fp, inf.count, <<>>)>>

Result(out, d, e) == [out |-> out, done |-> d, err |-> e]

\* Mutant: fingerprints compared by their item counts only.
fingerprintEqualCount(a, b) == Cardinality(a) = Cardinality(b)

fingerprintEqual(a, b) == a = b

\* Mutant: the items are announced as range contents, so the peer answers
\* with its own items of the range again.
answerEmptyRangeAsContents(inf, x, y) ==
  IF inf.count = 0 THEN Result(<<>>, TRUE, FALSE)
  ELSE Result(<<Msg("rangeContents", x, y, {}, inf.count, <<>>)>> \o SendItems(inf.items), FALSE, FALSE)

\* Mutant: the range counts as done although items were sent.
answerEmptyRangeDone(inf, x, y) == Result(SendItems(inf.items), TRUE, FALSE)

\* The peer has no more items of [x, y): send ours, if any, as bare items.
answerEmptyRange(inf, x, y) == Result(SendItems(inf.items), inf.count = 0, FALSE)

\* A differing range small enough to be sent whole.
smallRange(count) == count <= MaxSendRange

\* handleMessage's switch, given the range [x, y) it resolved and the
\* store's RangeInfo of it: what is sent in answer to the message, whether
\* the range needs no further round, and whether the message was an error.
handleRange(S, m, whole, x, y, inf) ==
  LET n == IF fingerprintEqual(m.fp, inf.fp) THEN 0 ELSE IF m.count > inf.count THEN inf.count ELSE m.count
  IN CASE whole /\ S = {} ->
            Result(IF m.type = "probe" THEN <<Msg("probeResponse", m.x, m.y, {}, 0, <<>>)>> ELSE <<>>,
                   TRUE, FALSE)
       [] x = Nil \/ y = Nil -> Result(<<>>, FALSE, TRUE)
       [] m.type \in {"emptyRange", "rangeContents", "emptySet"} -> answerEmptyRange(inf, x, y)
       [] m.type = "probe" /\ m.count > MaxSampleSize -> Result(<<>>, FALSE, TRUE)
       [] m.type = "probe" ->
            Result(<<Msg("probeResponse", x, y, inf.fp, inf.count, SubSeq(inf.items, 1, n))>>, TRUE, FALSE)
       [] m.type # "fingerprint" -> Result(<<>>, FALSE, TRUE)
       [] fingerprintEqual(inf.fp, m.fp) -> Result(<<>>, TRUE, FALSE)
       [] smallRange(inf.count) /\ inf.count # 0 ->
            Result(<<Msg("rangeContents", x, y, {}, inf.count, <<>>)>> \o SendItems(inf.items), FALSE, FALSE)
       [] smallRange(inf.count) -> Result(<<Msg("emptyRange", x, y, {}, 0, <<>>)>>, FALSE, FALSE)
       [] OTHER ->
            LET middle == inf.items[(inf.count + 1) \div 2 + 1] IN
            Result(processSubrange(S, x, middle) \o processSubrange(S, middle, y), FALSE, FALSE)

\* handleMessage: an emptySet, or a probe with nil bounds, is taken over
\* the whole set from its first item.
handleMessage(S, m) ==
  LET whole == m.type = "emptySet" \/ (m.type = "probe" /\ m.x = Nil /\ m.y = Nil)
      x == IF whole /\ S # {} THEN Min(S) ELSE m.x
      y == IF whole /\ S # {} THEN Min(S) ELSE m.y
  IN handleRange(S, m, whole, x, y, GetRangeInfo(S, x, y))

\* InitiateBounded (Initiate is InitiateBounded from Min to Min); the
\* caller guarantees a non-empty range ("empty full min-min range").
InitiateBounded(S, x, y) ==
  LET inf == GetRangeInfo(S, x, y) IN
  CASE x = Nil -> <<Ctl("emptySet"), Ctl("endRound")>>
    [] inf.count < MaxSendRange ->
         <<Msg("rangeContents", x, y, {}, inf.count, <<>>)>> \o SendItems(inf.items) \o <<Ctl("endRound")>>
    [] OTHER -> <<Msg("fingerprint", x, y, inf.fp, inf.count, <<>>), Ctl("endRound")>>

\* One message of Process's loop: item batches are added to the store even
\* after an error, other messages are handled only while there is none.
ProcessMsg(st, m) ==
  IF m.type = "itemBatch"
  THEN LET ks == ToSet(m.keys) IN
       [st EXCEPT !.s = @ \cup ks, !.recv = @ \cup ks, !.dup = @ \/ ks \cap st.recv # {}]
  ELSE IF st.err THEN st
  ELSE LET r == handleMessage(st.s, m) IN
       [st EXCEPT !.out = @ \o r.out, !.done = @ /\ r.done, !.err = r.err]

\* SendDone when every message was done, else SendEndRound.
roundEnd(d) == Ctl(IF d THEN "done" ELSE "endRound")

\* getMessages: the messages before the first end-of-round or done marker,
\* and whether it was done; no marker at all is "no end round marker".
getMessages(msgs) ==
  LET ends == {i \in DOMAIN msgs : msgs[i].type \in {"endRound", "done"}}
      e == Min(ends)
  IN IF ends = {} THEN [msgs |-> msgs, done |-> FALSE, err |-> TRUE]
     ELSE [msgs |-> SubSeq(msgs, 1, e - 1), done |-> msgs[e].type = "done", err |-> FALSE]

\* The outcome of Process: after "done" nothing may precede the marker and
\* nothing is added or sent; otherwise the state after every message in
\* order, then the round's end.
processEnd(g, base, st) ==
  CASE g.err -> [base EXCEPT !.done = FALSE, !.err = TRUE]
    [] g.done -> [base EXCEPT !.done = (g.msgs = <<>>), !.err = (g.msgs # <<>>)]
    [] st.err -> [st EXCEPT !.done = FALSE]
    [] OTHER -> [st EXCEPT !.out = @ \o <<roundEnd(st.done)>>]

\* Process: getMessages, then ProcessMsg over the round's messages.
Process(S, R, msgs) ==
  LET g == getMessages(msgs)
      body == g.msgs
      base == [s |-> S, recv |-> R, dup |-> FALSE, out |-> <<>>, done |-> TRUE, err |-> FALSE]
      fold[i \in 0..Len(body)] == IF i = 0 THEN base ELSE ProcessMsg(fold[i - 1], body[i])
  IN processEnd(g, base, fold[Len(body)])

-----------------------------------------------------------------------------
(* Probing.                                                                *)

\* calcSim's merge of the two sorted samples: the number of equal keys.
RECURSIVE numEq(_, _)
numEq(l, r) ==
  IF l = <<>> \/ r = <<>> THEN 0
  ELSE CASE Head(l) < Head(r) -> numEq(Tail(l), r)
         [] Head(l) = Head(r) -> 1 + numEq(Tail(l), Tail(r))
         [] OTHER -> numEq(l, Tail(r))

\* Mutant: the local sample is taken in iteration order, unsorted.
calcSimUnsorted(inf, remote, fp) ==
  LET n == IF inf.count < SampleSize THEN inf.count ELSE SampleSize IN
  CASE fingerprintEqual(inf.fp, fp) -> <<1, 1>>
    [] ~inf.start -> <<0, 1>>
    [] OTHER -> <<numEq(SubSeq(inf.items, 1, n), SortSeq(remote, <)), Max({n, Len(remote)})>>

\* Mutant: the ratio is taken over the local sample size only.
calcSimLocalDen(inf, remote, fp) ==
  LET n == IF inf.count < SampleSize THEN inf.count ELSE SampleSize IN
  CASE fingerprintEqual(inf.fp, fp) -> <<1, 1>>
    [] ~inf.start -> <<0, 1>>
    [] OTHER -> <<numEq(SortSeq(SubSeq(inf.items, 1, n), <), SortSeq(remote, <)), n>>

\* calcSim: 1 on equal fingerprints, 0 for an empty store, else the equal
\* keys of the two samples over the larger sample (ShortenKey is the
\* identity here).
calcSim(inf, remote, fp) ==
  LET n == IF inf.count < SampleSize THEN inf.count ELSE SampleSize
      local == SortSeq(SubSeq(inf.items, 1, n), <)
  IN CASE fingerprintEqual(inf.fp, fp) -> <<1, 1>>
       [] ~inf.start -> <<0, 1>>
       [] OTHER -> <<numEq(local, SortSeq(remote, <)), Max({n, Len(remote)})>>

\* One message of HandleProbeResponse's loop; st.fin: Done was read.
ProbeMsg(st, m) ==
  CASE st.fin \/ st.err -> st
    [] m.type = "done" -> [st EXCEPT !.fin = st.got, !.err = ~st.got]
    [] m.type \in {"probeResponse", "emptySet", "emptyRange"} /\ st.got -> [st EXCEPT !.err = TRUE]
    [] m.type = "probeResponse" ->
         [st EXCEPT !.got = TRUE, !.pr = [fp |-> m.fp, count |-> m.count, sim |-> calcSim(info, m.keys, m.fp)]]
    [] m.type \in {"emptySet", "emptyRange"} ->
         [st EXCEPT !.got = TRUE, !.pr.sim = IF info.count = 0 THEN <<1, 1>> ELSE @]
    [] OTHER -> [st EXCEPT !.err = TRUE]

\* HandleProbeResponse: reading past the last message is "no end round marker".
HandleProbeResponse(msgs) ==
  LET st == FoldLeft(ProbeMsg, [pr |-> pr, got |-> FALSE, fin |-> FALSE, err |-> FALSE], msgs) IN
  [pr |-> st.pr, err |-> ~st.fin]

-----------------------------------------------------------------------------
(* The driver.                                                             *)

\* runSync / runBoundedSync: A initiates over [x, y).
StartSync(x, y) ==
  /\ phase = "idle"
  /\ x # Nil => GetRangeInfo(store["A"], x, y).count # 0
  /\ chan' = InitiateBounded(store["A"], x, y)
  /\ phase' = "sync" /\ turn' = "B" /\ bound' = <<x, y>>
  /\ UNCHANGED <<store, init, done, recv, dupRecv, info, pr, rounds>>

\* Initiate: InitiateBounded from Min to Min, or an empty set.
Initiate ==
  LET x == IF store["A"] = {} THEN Nil ELSE Min(store["A"]) IN StartSync(x, x)

\* runProbe / runBoundedProbe: A sends its range's fingerprint in a probe.
StartProbe(x, y) ==
  LET inf == GetRangeInfo(store["A"], x, y) IN
  /\ phase = "idle"
  /\ info' = inf
  /\ chan' = <<Msg("probe", x, y, inf.fp, SampleSize, <<>>), Ctl("endRound")>>
  /\ phase' = "probe" /\ turn' = "B" /\ bound' = <<x, y>>
  /\ UNCHANGED <<store, init, done, recv, dupRecv, pr, rounds>>

\* The driver calls p's Process next.
RoundDue(p) == phase \in {"sync", "probe"} /\ turn = p /\ rounds < MaxRounds

\* One peer's Process on the previous round; the driver stops the sync
\* when both peers are done, and a probe after the responder's round.
ProcessRound(p) ==
  /\ RoundDue(p)
  /\ LET r == Process(store[p], recv[p], chan) IN
     /\ store' = [store EXCEPT ![p] = r.s]
     /\ recv' = [recv EXCEPT ![p] = r.recv]
     /\ dupRecv' = (dupRecv \/ r.dup)
     /\ done' = [done EXCEPT ![p] = r.done]
     /\ chan' = r.out
     /\ turn' = Other(p)
     /\ rounds' = IF p = "A" THEN rounds + 1 ELSE rounds
     /\ phase' = CASE r.err -> "failed"
                   [] phase = "probe" -> "reply"
                   [] r.done /\ done[Other(p)] -> "finished"
                   [] OTHER -> "sync"
     /\ UNCHANGED <<init, bound, info, pr>>

\* The prober reads the response.
ProbeReply ==
  LET r == HandleProbeResponse(chan) IN
  /\ phase = "reply"
  /\ pr' = r.pr
  /\ phase' = IF r.err THEN "failed" ELSE "probed"
  /\ chan' = <<>>
  /\ UNCHANGED <<store, init, turn, done, recv, dupRecv, bound, info, rounds>>

Init ==
  /\ store \in [Peers -> SUBSET Keys]
  /\ init = store
  /\ chan = <<>> /\ turn = "A" /\ phase = "idle"
  /\ done = [p \in Peers |-> FALSE]
  /\ recv = [p \in Peers |-> {}]
  /\ dupRecv = FALSE
  /\ bound = <<Nil, Nil>>
  /\ info = GetRangeInfo({}, Nil, Nil)
  /\ pr = [fp |-> {}, count |-> 0, sim |-> <<0, 1>>]
  /\ rounds = 0

\* The bounded calls and InitiateProbe (Nil bounds) take any bounds.
Next ==
  \/ Initiate
  \/ \E x, y \in Keys : StartSync(x, y)
  \/ \E x, y \in Keys \cup {Nil} : (x = Nil) = (y = Nil) /\ StartProbe(x, y)
  \/ \E p \in Peers : ProcessRound(p)
  \/ ProbeReply

\* Weak fairness of each peer's Process. Beyond RoundDue(p), ProcessRound(p)
\* only assigns primed variables and always changes turn, so RoundDue(p) is
\* ENABLED <<ProcessRound(p)>>_vars, and the condition is stated directly.
Spec == Init /\ [][Next]_vars /\ WF_vars(ProbeReply)
          /\ \A p \in Peers : <>[]RoundDue(p) => []<><<ProcessRound(p)>>_vars

-----------------------------------------------------------------------------
(* Properties.                                                             *)

MsgTypes == {"done", "endRound", "emptySet", "emptyRange", "fingerprint",
             "rangeContents", "itemBatch", "probe", "probeResponse"}

TypeOK ==
  /\ store \in [Peers -> SUBSET Keys] /\ init \in [Peers -> SUBSET Keys]
  /\ \A i \in DOMAIN chan : chan[i].type \in MsgTypes /\ ToSet(chan[i].keys) \subseteq Keys
  /\ turn \in Peers
  /\ phase \in {"idle", "sync", "probe", "reply", "finished", "probed", "failed"}
  /\ done \in [Peers -> BOOLEAN] /\ recv \in [Peers -> SUBSET Keys] /\ dupRecv \in BOOLEAN
  /\ pr.fp \subseteq Keys /\ pr.count \in 0..Cardinality(Keys)
  /\ pr.sim \in (0..Cardinality(Keys)) \X (1..Cardinality(Keys))
  /\ rounds \in 0..MaxRounds

\* k lies in the range the initiator asked for.
InBound(k) == bound[1] = Nil \/ InRange(k, bound[1], bound[2])

\* Each peer only ever gains the other's items of the requested range, and
\* when both have answered done each holds its own items and all of the
\* other's in the range (the finalA / finalB of the sync tests, including
\* bounded ranges that wrap around).
Reconciled ==
  /\ \A p \in Peers : store[p] \subseteq init[p] \cup {k \in init[Other(p)] : InBound(k)}
  /\ phase = "finished" =>
       \A p \in Peers : store[p] = init[p] \cup {k \in init[Other(p)] : InBound(k)}

\* No key is sent twice to the same peer: the verified store's Add fails
\* the test with "hash sent twice" (disableReAdd).
NoHashSentTwice == ~dupRecv

\* A started sync or probe ends with the driver's success, never with an
\* error of Process or HandleProbeResponse and never in endless rounds.
Terminates == phase \in {"sync", "probe"} ~> phase \in {"finished", "probed"}

\* The probe reports the responder's fingerprint and count of the range,
\* and, when both samples hold the whole range, the similarity
\* |A & B| / max(|A|, |B|) (1 for two empty ranges), as calcSim's merge of
\* the sorted samples is meant to compute.
ProbeSimilarity ==
  phase = "probed" =>
    LET RA == {k \in init["A"] : InBound(k)}
        RB == {k \in init["B"] : InBound(k)}
    IN /\ pr.fp = RB /\ pr.count = Cardinality(RB)
       /\ Cardinality(RA) <= SampleSize /\ Cardinality(RB) <= SampleSize =>
            IF RA \cup RB = {} THEN pr.sim = <<1, 1>>
            ELSE pr.sim[1] * Max({Cardinality(RA), Cardinality(RB)}) = Cardinality(RA \cap RB) * pr.sim[2]

=============================================================================
