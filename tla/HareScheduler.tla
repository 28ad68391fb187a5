---------------------------- MODULE HareScheduler ----------------------------
(***************************************************************************)
(* The per-layer session scheduler of hare3 (src/hare3/hare.go): the Start *)
(* loop that waits for each layer, onLayer that opens and registers a      *)
(* session, the run goroutine of every session that drives the protocol    *)
(* round by round, onOutput that delivers coins and results on bounded     *)
(* channels, and Stop that cancels everything, waits and closes coins.     *)
(*                                                                         *)
(* The protocol state machine (protocol.go, not in this repository) is     *)
(* modelled from the specification only through what run() sees of it:    *)
(* its IterRound and the output {coin, result, terminated} of Next().      *)
(* Wall-clock waits are steps that may happen at any time; a select on a   *)
(* timer and ctx.Done() is two actions, both enabled once Stop cancelled.  *)
(***************************************************************************)
EXTENDS Integers, Sequences, FiniteSets

CONSTANTS
  NumLayers,        \* the Start loop walks layers 1..NumLayers (enable..disable-1)
  Signers,          \* signing keys Register may add (model values)
  IterationsLimit,  \* Config.IterationsLimit
  ChanCap           \* capacity of the results and coins channels (32 in New)

ASSUME NumLayers \in Nat \ {0}
ASSUME IterationsLimit \in Nat \ {0}
ASSUME ChanCap \in Nat \ {0}

Layers == 1..NumLayers

VARIABLES
  signers,      \* h.signers
  sessions,     \* DOMAIN h.sessions: layers with a registered protocol
  startPc,      \* Start goroutine: "new" (Start not called), "loop", "done"
  nextLayer,    \* the Start loop's `next`
  cancelled,    \* h.ctx is cancelled (Stop called h.cancel)
  stopPc,       \* Stop: "running", "waiting" (in eg.Wait), "stopped" (coins closed)
  inCharge,     \* layers the patrol believes hare is in charge of
  task,         \* per layer: the run goroutine of its session
  proto,        \* per layer: the protocol's IterRound and whether it decided
  results,      \* buffered results channel: a sequence of layers
  coins,        \* buffered coins channel: a sequence of layers
  sentResults,  \* history: results sent on the channel, per layer
  hareCompleted \* history: patrol.CompleteHare calls made by hare, per layer

vars == <<signers, sessions, startPc, nextLayer, cancelled, stopPc, inCharge,
          task, proto, results, coins, sentResults, hareCompleted>>

-----------------------------------------------------------------------------
(* The protocol, as run() observes it (spec 4.1).                          *)

\* Rounds in the order Next() moves through them; after notify the next
\* iteration starts at hardlock. The preround exists only in iteration 0.
SuccRound == [preround |-> "hardlock", hardlock |-> "softlock",
              softlock |-> "status", status |-> "proposal",
              proposal |-> "commit", commit |-> "notify"]
Rounds == DOMAIN SuccRound \cup {"notify"}

IterRounds == [iter : 0..IterationsLimit + 1, round : Rounds]

NextIterRound(ir) ==
  IF ir.round = "notify" THEN [iter |-> ir.iter + 1, round |-> "hardlock"]
  ELSE [ir EXCEPT !.round = SuccRound[ir.round]]

ProtoInit == [ir |-> [iter |-> 0, round |-> "preround"], decided |-> FALSE]

Output == [coin : BOOLEAN, result : BOOLEAN, terminated : BOOLEAN]
NoOutput == [coin |-> FALSE, result |-> FALSE, terminated |-> FALSE]

\* The outputs Next() may return in protocol state p: a coin in the
\* coin-emission round; a result at most once, in a notify round; termination
\* with the result, or at a later hardlock, where it is due once decided and
\* may also end an iteration that did not converge.
Outputs(p) ==
  {o \in Output :
     /\ o.coin => p.ir.round = "softlock"
     /\ o.result => p.ir.round = "notify" /\ ~p.decided
     /\ o.terminated => o.result \/ (p.ir.round = "hardlock" /\ p.ir.iter > 0)
     /\ (p.ir.round = "hardlock" /\ p.decided) => o.terminated}

ProtoNext(p, o) == [ir |-> NextIterRound(p.ir), decided |-> p.decided \/ o.result]

-----------------------------------------------------------------------------
(* run(session) and onOutput.                                              *)

\* Control points of run(): "idle" (no session), "start" (querying preround
\* eligibility), "waitPre" (waiting for the preround delay), "wait" (waiting
\* for the next round), "sendCoin"/"sendResult" (blocked in onOutput's
\* select), "exit" (run returned, err says whether with an error), "done".
Pcs == {"idle", "start", "waitPre", "wait", "sendCoin", "sendResult", "exit", "done"}

TaskInit == [pc |-> "idle", signers |-> {}, cur |-> ProtoInit.ir, out |-> NoOutput,
             first |-> TRUE, result |-> FALSE, err |-> FALSE]

\* Mutant: run() checks the iterations limit before termination.
AfterOutputLimitFirst(t) ==
  IF t.first THEN [t EXCEPT !.pc = "wait"]
  ELSE IF t.cur.iter = IterationsLimit THEN [t EXCEPT !.pc = "exit", !.err = TRUE]
  ELSE IF t.out.terminated THEN [t EXCEPT !.pc = "exit", !.err = ~t.result]
  ELSE [t EXCEPT !.pc = "wait"]

\* Mutant: the iterations limit is compared one iteration late.
AfterOutputLimitLate(t) ==
  IF t.first THEN [t EXCEPT !.pc = "wait"]
  ELSE IF t.out.terminated THEN [t EXCEPT !.pc = "exit", !.err = ~t.result]
  ELSE IF t.cur.iter = IterationsLimit + 1 THEN [t EXCEPT !.pc = "exit", !.err = TRUE]
  ELSE [t EXCEPT !.pc = "wait"]

\* After onOutput returned: the checks run() makes, in its order. The
\* preround output is followed by no check.
AfterOutput(t) ==
  IF t.first THEN [t EXCEPT !.pc = "wait"]
  ELSE IF t.out.terminated THEN [t EXCEPT !.pc = "exit", !.err = ~t.result]
  ELSE IF t.cur.iter = IterationsLimit THEN [t EXCEPT !.pc = "exit", !.err = TRUE]
  ELSE [t EXCEPT !.pc = "wait"]

\* onOutput: publishing needs no state; a coin is sent before a result.
RouteOutput(t) ==
  CASE t.out.coin   -> [t EXCEPT !.pc = "sendCoin"]
    [] t.out.result -> [t EXCEPT !.pc = "sendResult"]
    [] OTHER        -> AfterOutput(t)

\* session.proto.Next() followed by onOutput; run's `result` is set as soon
\* as Next returned one.
ExecNext(l, t) ==
  \E o \in Outputs(proto[l]) :
     /\ proto' = [proto EXCEPT ![l] = ProtoNext(proto[l], o)]
     /\ task' = [task EXCEPT ![l] = RouteOutput([t EXCEPT !.out = o,
                                                         !.result = t.result \/ o.result])]

Exit(l, err) == task' = [task EXCEPT ![l].pc = "exit", ![l].err = err]

-----------------------------------------------------------------------------
(* Actions.                                                                *)

\* Register: a signer is added under h.mu; running sessions keep their copy.
Register(s) ==
  /\ s \notin signers
  /\ signers' = signers \cup {s}
  /\ UNCHANGED <<sessions, startPc, nextLayer, cancelled, stopPc, inCharge, task,
                 proto, results, coins, sentResults, hareCompleted>>

\* Start: register the handler and launch the layer loop.
Start ==
  /\ startPc = "new"
  /\ startPc' = "loop"
  /\ nextLayer' = 1
  /\ UNCHANGED <<signers, sessions, cancelled, stopPc, inCharge, task, proto,
                 results, coins, sentResults, hareCompleted>>

LoopAdvance ==
  /\ nextLayer' = nextLayer + 1
  /\ startPc' = IF nextLayer + 1 > NumLayers THEN "done" ELSE "loop"

\* The layer arrived; onLayer returns early when not synced or without beacon.
OnLayerSkipped ==
  /\ startPc = "loop"
  /\ LoopAdvance
  /\ UNCHANGED <<signers, sessions, cancelled, stopPc, inCharge, task, proto,
                 results, coins, sentResults, hareCompleted>>

\* The layer arrived and onLayer opens the session: patrol in charge, a new
\* protocol registered under h.mu with the current signers, run launched.
OnLayer ==
  LET l == nextLayer IN
  /\ startPc = "loop"
  /\ inCharge' = inCharge \cup {l}
  /\ sessions' = sessions \cup {l}
  /\ proto' = [proto EXCEPT ![l] = ProtoInit]
  /\ task' = [task EXCEPT ![l] = [TaskInit EXCEPT !.pc = "start", !.signers = signers]]
  /\ LoopAdvance
  /\ UNCHANGED <<signers, cancelled, stopPc, results, coins, sentResults, hareCompleted>>

\* The select of the Start loop took ctx.Done().
StartLoopCancel ==
  /\ startPc = "loop"
  /\ cancelled
  /\ startPc' = "done"
  /\ UNCHANGED <<signers, sessions, nextLayer, cancelled, stopPc, inCharge, task,
                 proto, results, coins, sentResults, hareCompleted>>

TaskFrame == UNCHANGED <<signers, sessions, startPc, nextLayer, cancelled, stopPc,
                         inCharge, results, coins, sentResults, hareCompleted>>

\* run: some signer is eligible in the preround; wait for the preround delay.
RunActive(l) ==
  /\ task[l].pc = "start"
  /\ task[l].signers # {}
  /\ task' = [task EXCEPT ![l].pc = "waitPre"]
  /\ UNCHANGED proto
  /\ TaskFrame

\* run: no signer is eligible in the preround; Next() is called at once.
RunInactive(l) ==
  /\ task[l].pc = "start"
  /\ ExecNext(l, [task[l] EXCEPT !.cur = proto[l].ir])
  /\ TaskFrame

\* The preround delay passed: OnInitial(selectProposals) and Next().
PreroundTick(l) ==
  /\ task[l].pc = "waitPre"
  /\ ExecNext(l, [task[l] EXCEPT !.cur = proto[l].ir])
  /\ TaskFrame

\* ctx.Done() while waiting for the preround: return h.ctx.Err().
PreroundCancel(l) ==
  /\ task[l].pc = "waitPre"
  /\ cancelled
  /\ Exit(l, TRUE)
  /\ UNCHANGED proto
  /\ TaskFrame

\* The round's wall-clock deadline passed: current = IterRound, Next().
RoundTick(l) ==
  /\ task[l].pc = "wait"
  /\ ExecNext(l, [task[l] EXCEPT !.cur = proto[l].ir, !.first = FALSE])
  /\ TaskFrame

\* ctx.Done() while waiting for a round: run returns nil.
RoundCancel(l) ==
  /\ task[l].pc = "wait"
  /\ cancelled
  /\ Exit(l, FALSE)
  /\ UNCHANGED proto
  /\ TaskFrame

SendFrame == UNCHANGED <<signers, sessions, startPc, nextLayer, cancelled, stopPc,
                         inCharge, proto, hareCompleted>>

\* Mutant: the coin send does not wait for room in the buffer.
SendCoinUnbounded(l) ==
  /\ task[l].pc = "sendCoin"
  /\ coins' = Append(coins, l)
  /\ task' = [task EXCEPT ![l] = RouteOutput([task[l] EXCEPT !.out.coin = FALSE])]
  /\ UNCHANGED <<results, sentResults>>
  /\ SendFrame

\* onOutput: the coin fits in the channel buffer.
SendCoin(l) ==
  /\ task[l].pc = "sendCoin"
  /\ Len(coins) < ChanCap
  /\ coins' = Append(coins, l)
  /\ task' = [task EXCEPT ![l] = RouteOutput([task[l] EXCEPT !.out.coin = FALSE])]
  /\ UNCHANGED <<results, sentResults>>
  /\ SendFrame

\* Mutant: the coin is sent with a plain blocking send, without select.
SendCoinCancelBlocking(l) == FALSE /\ task[l].pc = "sendCoin"

\* onOutput: ctx.Done() while sending the coin: return h.ctx.Err().
SendCoinCancel(l) ==
  /\ task[l].pc = "sendCoin"
  /\ cancelled
  /\ Exit(l, TRUE)
  /\ UNCHANGED <<results, coins, sentResults>>
  /\ SendFrame

\* onOutput: the result fits in the channel buffer.
SendResult(l) ==
  /\ task[l].pc = "sendResult"
  /\ Len(results) < ChanCap
  /\ results' = Append(results, l)
  /\ sentResults' = [sentResults EXCEPT ![l] = @ + 1]
  /\ task' = [task EXCEPT ![l] = AfterOutput([task[l] EXCEPT !.out.result = FALSE])]
  /\ UNCHANGED coins
  /\ SendFrame

\* onOutput: ctx.Done() while sending the result.
SendResultCancel(l) ==
  /\ task[l].pc = "sendResult"
  /\ cancelled
  /\ Exit(l, TRUE)
  /\ UNCHANGED <<results, coins, sentResults>>
  /\ SendFrame

\* Mutant: the failed layer is not completed in the patrol.
FinishNoComplete(l) ==
  /\ task[l].pc = "exit"
  /\ sessions' = sessions \ {l}
  /\ task' = [task EXCEPT ![l].pc = "done"]
  /\ UNCHANGED <<signers, startPc, nextLayer, cancelled, stopPc, proto, results,
                 coins, sentResults, inCharge, hareCompleted>>

\* The goroutine of onLayer after run returned: CompleteHare on an error,
\* then the session is deleted under h.mu.
Finish(l) ==
  /\ task[l].pc = "exit"
  /\ hareCompleted' = [hareCompleted EXCEPT ![l] = @ + (IF task[l].err THEN 1 ELSE 0)]
  /\ inCharge' = IF task[l].err THEN inCharge \ {l} ELSE inCharge
  /\ sessions' = sessions \ {l}
  /\ task' = [task EXCEPT ![l].pc = "done"]
  /\ UNCHANGED <<signers, startPc, nextLayer, cancelled, stopPc, proto, results,
                 coins, sentResults>>

\* Stop: h.cancel(), then wait in eg.Wait().
Stop ==
  /\ startPc # "new"
  /\ stopPc = "running"
  /\ cancelled' = TRUE
  /\ stopPc' = "waiting"
  /\ UNCHANGED <<signers, sessions, startPc, nextLayer, inCharge, task, proto,
                 results, coins, sentResults, hareCompleted>>

\* Mutant: eg.Wait does not cover the Start loop (launched with a plain go).
StopReturnNoStartWait ==
  /\ stopPc = "waiting"
  /\ \A l \in Layers : task[l].pc \in {"idle", "done"}
  /\ stopPc' = "stopped"
  /\ UNCHANGED <<signers, sessions, startPc, nextLayer, cancelled, inCharge, task,
                 proto, results, coins, sentResults, hareCompleted>>

\* eg.Wait() returned once every goroutine exited; close(h.coins).
StopReturn ==
  /\ stopPc = "waiting"
  /\ startPc = "done"
  /\ \A l \in Layers : task[l].pc \in {"idle", "done"}
  /\ stopPc' = "stopped"
  /\ UNCHANGED <<signers, sessions, startPc, nextLayer, cancelled, inCharge, task,
                 proto, results, coins, sentResults, hareCompleted>>

\* The consumer of Results() (the block generator) takes a result and will
\* complete the layer in the patrol itself.
ConsumeResult ==
  /\ results # <<>>
  /\ results' = Tail(results)
  /\ inCharge' = inCharge \ {Head(results)}
  /\ UNCHANGED <<signers, sessions, startPc, nextLayer, cancelled, stopPc, task,
                 proto, coins, sentResults, hareCompleted>>

\* The consumer of Coins() takes a coin.
ConsumeCoin ==
  /\ coins # <<>>
  /\ coins' = Tail(coins)
  /\ UNCHANGED <<signers, sessions, startPc, nextLayer, cancelled, stopPc, inCharge,
                 task, proto, results, sentResults, hareCompleted>>

-----------------------------------------------------------------------------

Init ==
  /\ signers = {}
  /\ sessions = {}
  /\ startPc = "new"
  /\ nextLayer = 1
  /\ cancelled = FALSE
  /\ stopPc = "running"
  /\ inCharge = {}
  /\ task = [l \in Layers |-> TaskInit]
  /\ proto = [l \in Layers |-> ProtoInit]
  /\ results = <<>>
  /\ coins = <<>>
  /\ sentResults = [l \in Layers |-> 0]
  /\ hareCompleted = [l \in Layers |-> 0]

TaskStep(l) ==
  \/ RunActive(l) \/ RunInactive(l)
  \/ PreroundTick(l) \/ PreroundCancel(l)
  \/ RoundTick(l) \/ RoundCancel(l)
  \/ SendCoin(l) \/ SendCoinCancel(l)
  \/ SendResult(l) \/ SendResultCancel(l)
  \/ Finish(l)

Next ==
  \/ \E s \in Signers : Register(s)
  \/ Start \/ OnLayer \/ OnLayerSkipped \/ StartLoopCancel
  \/ \E l \in Layers : TaskStep(l)
  \/ Stop \/ StopReturn
  \/ ConsumeResult \/ ConsumeCoin

\* Goroutines that can run do run and timers fire: weak fairness for every
\* step of the Start loop, of every run goroutine and of eg.Wait. Consumers
\* keep reading only while the node runs; Stop itself is never forced.
Fairness ==
  /\ WF_vars(OnLayer \/ OnLayerSkipped \/ StartLoopCancel)
  /\ \A l \in Layers : WF_vars(TaskStep(l))
  /\ WF_vars(StopReturn)
  /\ WF_vars(~cancelled /\ ConsumeResult)
  /\ WF_vars(~cancelled /\ ConsumeCoin)

Spec == Init /\ [][Next]_vars /\ Fairness

-----------------------------------------------------------------------------
(* Properties.                                                             *)

TypeOK ==
  /\ signers \subseteq Signers
  /\ sessions \subseteq Layers
  /\ startPc \in {"new", "loop", "done"}
  /\ nextLayer \in 1..NumLayers + 1
  /\ cancelled \in BOOLEAN
  /\ stopPc \in {"running", "waiting", "stopped"}
  /\ inCharge \subseteq Layers
  /\ task \in [Layers -> [pc : Pcs, signers : SUBSET Signers, cur : IterRounds,
                          out : Output, first : BOOLEAN, result : BOOLEAN, err : BOOLEAN]]
  /\ proto \in [Layers -> [ir : IterRounds, decided : BOOLEAN]]
  /\ results \in Seq(Layers) /\ Len(results) <= ChanCap
  /\ coins \in Seq(Layers) /\ Len(coins) <= ChanCap
  /\ sentResults \in [Layers -> Nat]
  /\ hareCompleted \in [Layers -> Nat]

\* run() gives up at the iterations limit right after the hardlock round of
\* iteration IterationsLimit, the round in which a protocol that decided
\* earlier terminates: no session executes a round past it, whatever the
\* interleaving of the sessions, their sends and the cancellation.
LimitRound ==
  \A l \in Layers :
    task[l].cur.iter < IterationsLimit
    \/ task[l].cur = [iter |-> IterationsLimit, round |-> "hardlock"]

\* A layer is completed in the patrol either by the consumer of its result or
\* by hare after a failed run (hare.go:396-398), never both, unless Stop
\* cancelled the sessions: run()'s termination check must come before its
\* iterations-limit check.
ResultOrFailure ==
  cancelled \/ \A l \in Layers : ~(sentResults[l] > 0 /\ hareCompleted[l] > 0)

\* No coin is sent on h.coins after Stop closed it (a send on a closed
\* channel panics): eg.Wait must outlast the Start loop, which may still
\* open a session, and every run goroutine, which may still be in onOutput.
NoCoinAfterClose ==
  [][Len(coins') > Len(coins) => stopPc # "stopped"]_vars

\* Every layer hare takes charge of is eventually released in the patrol,
\* by the consumer of its result or by hare's CompleteHare, unless the node
\* is stopping.
InChargeReleased ==
  \A l \in Layers : (l \in inCharge) ~> (l \notin inCharge \/ cancelled)

\* Stop returns: once cancelled, every run goroutine leaves its waits and
\* blocked sends even when nobody reads the channels any more.
StopReturns == (stopPc = "waiting") ~> (stopPc = "stopped")

=============================================================================
