------------------------------ MODULE P2PServer ------------------------------
(***************************************************************************)
(* The accepting side of p2p/server.Server (src/sync2/dbsync/             *)
(* refcountpool.go): the stream handler New installs, Run's loop, and the *)
(* two goroutines Run starts per request.                                  *)
(*                                                                         *)
(*  - The stream handler takes a slot of the semaphore (TryAcquire) or     *)
(*    drops the stream, then blocks until Run receives it on the           *)
(*    unbuffered queue or until `stopped` is closed.                       *)
(*  - Run selects between ctx.Done (close stopped, eg.Wait, return) and    *)
(*    the queue; a received request waits for the rate limiter, and if     *)
(*    limit.Wait fails Run waits for its goroutines and returns.           *)
(*  - Per request a watcher waits for the request context, then releases   *)
(*    the slot and closes the stream; the worker runs queueHandler and     *)
(*    cancels the request context when it returns.                         *)
(*                                                                         *)
(* Reading and handling a request is one step of the worker: queueHandler *)
(* is bounded by the stream deadlines. Streams are model values.           *)
(***************************************************************************)
EXTENDS Naturals, FiniteSets

CONSTANTS Streams, NoStream, QueueSize

VARIABLES
  hpc,       \* stream handler callback: "none", "queued" (slot taken, blocked on send), "returned"
  sem,       \* semaphore slots taken
  runPc,     \* Run: "loop", "limit", "drain" (after close(stopped)), "drainNoStop", "returned"
  cur,       \* the request Run holds in "limit" (and keeps after limit.Wait failed)
  worker,    \* per stream: "none", "handling", "finished"
  watcher,   \* per stream: "none", "waiting", "done"
  reqDone,   \* per stream: the request context is cancelled by its worker
  closed,    \* per stream: stream.Close was called
  ctxDone,   \* Run's context is cancelled
  stopped,   \* the stopped channel is closed
  resp,      \* per stream: the Response the server's handler wrote: "none", "data", "error"
  \* The client (Request / StreamRequest) of each stream:
  cpc,       \* "idle", "open" (streamRequest writing), "reading" (callback), "waiting" (eg.Wait), "returned"
  cres,      \* what Request returns: "none", "data", "srvErr" (a ServerError), "failed"
  opened,    \* NewStream succeeded, so the stream reaches the server's handler
  reqSent,   \* the size and request were written and flushed
  cctx,      \* the client's context (WithTimeout(hardTimeout)) is done
  closer,    \* the goroutine closing the stream on ctx.Done: "none", "waiting", "done"
  cliClosed  \* the client closed its side of the stream

cliVars == <<cpc, cres, opened, reqSent, cctx, closer, cliClosed>>
vars == <<hpc, sem, runPc, cur, worker, watcher, reqDone, closed, ctxDone, stopped, resp, cliVars>>


-----------------------------------------------------------------------------
(* The stream handler registered by New.                                   *)

\* Mutant: Acquire instead of TryAcquire, taking a slot past the limit.
ArriveNoLimit(s) ==
  /\ hpc[s] = "none" /\ opened[s]
  /\ sem' = sem + 1
  /\ hpc' = [hpc EXCEPT ![s] = "queued"]
  /\ UNCHANGED <<cliVars, resp, closed, runPc, cur, worker, watcher, reqDone, ctxDone, stopped>>

\* A stream arrives: TryAcquire a slot, or count it dropped and close it.
Arrive(s) ==
  /\ hpc[s] = "none" /\ opened[s]
  /\ IF sem < QueueSize
     THEN /\ sem' = sem + 1
          /\ hpc' = [hpc EXCEPT ![s] = "queued"]
          /\ UNCHANGED closed
     ELSE /\ hpc' = [hpc EXCEPT ![s] = "returned"]
          /\ closed' = [closed EXCEPT ![s] = TRUE]
          /\ UNCHANGED sem
  /\ UNCHANGED <<cliVars, resp, runPc, cur, worker, watcher, reqDone, ctxDone, stopped>>

\* Mutant: the stopped case closes the stream without sem.Release.
HandlerStoppedNoRelease(s) ==
  /\ hpc[s] = "queued" /\ stopped
  /\ hpc' = [hpc EXCEPT ![s] = "returned"]
  /\ closed' = [closed EXCEPT ![s] = TRUE]
  /\ UNCHANGED <<cliVars, resp, sem, runPc, cur, worker, watcher, reqDone, ctxDone, stopped>>

\* The select's stopped case: release the slot and close the stream.
HandlerStopped(s) ==
  /\ hpc[s] = "queued" /\ stopped
  /\ hpc' = [hpc EXCEPT ![s] = "returned"]
  /\ sem' = sem - 1
  /\ closed' = [closed EXCEPT ![s] = TRUE]
  /\ UNCHANGED <<cliVars, resp, runPc, cur, worker, watcher, reqDone, ctxDone, stopped>>

-----------------------------------------------------------------------------
(* Run.                                                                    *)

\* The queue case: the handler's send and Run's receive happen together.
Dequeue(s) ==
  /\ runPc = "loop" /\ hpc[s] = "queued"
  /\ hpc' = [hpc EXCEPT ![s] = "returned"]
  /\ runPc' = "limit"
  /\ cur' = s
  /\ UNCHANGED <<cliVars, resp, sem, worker, watcher, reqDone, closed, ctxDone, stopped>>

\* The ctx.Done case: close(s.stopped), then eg.Wait.
RunCancel ==
  /\ runPc = "loop" /\ ctxDone
  /\ runPc' = "drain"
  /\ stopped' = TRUE
  /\ UNCHANGED <<cliVars, resp, hpc, sem, cur, worker, watcher, reqDone, closed, ctxDone>>

\* limit.Wait returns nil: start the watcher and the worker of the request.
LimitOk ==
  /\ runPc = "limit" /\ ~ctxDone
  /\ runPc' = "loop"
  /\ worker' = [worker EXCEPT ![cur] = "handling"]
  /\ watcher' = [watcher EXCEPT ![cur] = "waiting"]
  /\ cur' = NoStream
  /\ UNCHANGED <<cliVars, resp, hpc, sem, reqDone, closed, ctxDone, stopped>>

\* limit.Wait fails (the context is cancelled): eg.Wait and return, with
\* neither close(s.stopped) nor anything done with the received request.
LimitCancelled ==
  /\ runPc = "limit" /\ ctxDone
  /\ runPc' = "drainNoStop"
  /\ UNCHANGED <<cliVars, resp, hpc, sem, cur, worker, watcher, reqDone, closed, ctxDone, stopped>>

\* eg.Wait returns once every started goroutine has returned.
RunReturn ==
  /\ runPc \in {"drain", "drainNoStop"}
  /\ \A s \in Streams : worker[s] # "handling" /\ watcher[s] # "waiting"
  /\ runPc' = "returned"
  /\ UNCHANGED <<cliVars, resp, hpc, sem, cur, worker, watcher, reqDone, closed, ctxDone, stopped>>

-----------------------------------------------------------------------------
(* The goroutines of a request, and the node's shutdown.                   *)

\* writeResponse: the encoded Response reaches the stream.
writeResponse(s, r) == resp' = [resp EXCEPT ![s] = r]

\* WrapHandler: the handler returns data or an error (an error also when
\* its context is cancelled); either is written as a Response.
WrapHandler(s) == \E out \in {"data", "error"} : writeResponse(s, out)

\* queueHandler with the handler WrapHandler built. Reading the size and
\* the request blocks until the client has written them or a side closed
\* the stream; on a closed stream the read or the response write fails and
\* queueHandler returns false with no Response written. `cancel` is the
\* state of the request context after the worker's deferred cancel.
HandleRequest(s, cancel) ==
  /\ reqSent[s] \/ cliClosed[s] \/ closed[s]
  /\ IF reqSent[s] /\ ~closed[s] /\ ~cliClosed[s]
     THEN WrapHandler(s)
     ELSE UNCHANGED resp
  /\ worker' = [worker EXCEPT ![s] = "finished"]
  /\ reqDone' = [reqDone EXCEPT ![s] = cancel]

\* Mutant: a handler that ignores cancellation never returns after it.
WorkerDoneIgnoresCancel(s) ==
  /\ worker[s] = "handling" /\ ~ctxDone
  /\ HandleRequest(s, TRUE)
  /\ UNCHANGED <<cliVars, hpc, sem, runPc, cur, watcher, closed, ctxDone, stopped>>

\* Mutant: the worker returns without its deferred cancel.
WorkerDoneNoCancel(s) ==
  /\ worker[s] = "handling"
  /\ HandleRequest(s, reqDone[s])
  /\ UNCHANGED <<cliVars, hpc, sem, runPc, cur, watcher, closed, ctxDone, stopped>>

\* The worker: queueHandler, then the deferred cancel of the request context.
WorkerDone(s) ==
  /\ worker[s] = "handling"
  /\ HandleRequest(s, TRUE)
  /\ UNCHANGED <<cliVars, hpc, sem, runPc, cur, watcher, closed, ctxDone, stopped>>

\* The watcher: <-ctx.Done() of the request context (cancelled by the
\* worker or with Run's context), then sem.Release(1) and stream.Close().
WatcherDone(s) ==
  /\ watcher[s] = "waiting" /\ (reqDone[s] \/ ctxDone)
  /\ watcher' = [watcher EXCEPT ![s] = "done"]
  /\ sem' = sem - 1
  /\ closed' = [closed EXCEPT ![s] = TRUE]
  /\ UNCHANGED <<cliVars, resp, hpc, runPc, cur, worker, reqDone, ctxDone, stopped>>

\* The context passed to Run is cancelled.
Cancel ==
  /\ ~ctxDone
  /\ ctxDone' = TRUE
  /\ UNCHANGED <<cliVars, resp, hpc, sem, runPc, cur, worker, watcher, reqDone, closed, stopped>>

-----------------------------------------------------------------------------
(* The client: StreamRequest with the callback of Request.                 *)

srvVars == <<hpc, sem, runPc, cur, worker, watcher, reqDone, closed, ctxDone, stopped, resp>>

\* StreamRequest's early returns (a request over requestLimit, a peer not
\* connected) and a failing NewStream return an error with no stream; a
\* stream that NewStream opens reaches the server's stream handler.
ClientStart(s) ==
  /\ cpc[s] = "idle"
  /\ \/ /\ cpc' = [cpc EXCEPT ![s] = "returned"]
        /\ cres' = [cres EXCEPT ![s] = "failed"]
        /\ UNCHANGED opened
     \/ /\ cpc' = [cpc EXCEPT ![s] = "open"]
        /\ opened' = [opened EXCEPT ![s] = TRUE]
        /\ UNCHANGED cres
  /\ UNCHANGED <<srvVars, reqSent, cctx, closer, cliClosed>>

\* streamRequest writes the size and the request and flushes. The write can
\* fail once the server closed the stream; then the deferred dadj.Close
\* closes it and StreamRequest returns the error. On success StreamRequest
\* starts the goroutine that closes the stream on ctx.Done and runs the
\* callback.
ClientWrite(s) ==
  /\ cpc[s] = "open"
  /\ \/ /\ cpc' = [cpc EXCEPT ![s] = "reading"]
        /\ reqSent' = [reqSent EXCEPT ![s] = TRUE]
        /\ closer' = [closer EXCEPT ![s] = "waiting"]
        /\ UNCHANGED <<cres, cliClosed>>
     \/ /\ closed[s]
        /\ cpc' = [cpc EXCEPT ![s] = "returned"]
        /\ cres' = [cres EXCEPT ![s] = "failed"]
        /\ cliClosed' = [cliClosed EXCEPT ![s] = TRUE]
        /\ UNCHANGED <<reqSent, closer>>
  /\ UNCHANGED <<srvVars, opened, cctx>>

\* Request's callback decodes the Response; it returns once the response
\* has arrived or a side closed the stream. A locally closed stream fails
\* the read (ErrClosedPipe, reported as ctx.Err()); a server's Close after
\* its response leaves the response readable; a Close without one is EOF.
\* r.Error becomes a ServerError. StreamRequest then calls cancel().
ReadResult(s) ==
  IF cliClosed[s] \/ resp[s] = "none" THEN "failed"
  ELSE IF resp[s] = "error" THEN "srvErr" ELSE "data"

ClientRead(s) ==
  /\ cpc[s] = "reading"
  /\ cliClosed[s] \/ closed[s] \/ resp[s] # "none"
  /\ cpc' = [cpc EXCEPT ![s] = "waiting"]
  /\ cres' = [cres EXCEPT ![s] = ReadResult(s)]
  /\ cctx' = [cctx EXCEPT ![s] = TRUE]
  /\ UNCHANGED <<srvVars, opened, reqSent, closer, cliClosed>>

\* The read deadline the deadline adjuster sets expires before anything
\* arrived: the callback fails, and StreamRequest calls cancel().
ReadDeadline(s) ==
  /\ cpc[s] = "reading" /\ resp[s] = "none" /\ ~cliClosed[s]
  /\ cpc' = [cpc EXCEPT ![s] = "waiting"]
  /\ cres' = [cres EXCEPT ![s] = "failed"]
  /\ cctx' = [cctx EXCEPT ![s] = TRUE]
  /\ UNCHANGED <<srvVars, opened, reqSent, closer, cliClosed>>

\* The hard timeout of the client's context fires during the callback.
ClientTimeout(s) ==
  /\ cpc[s] = "reading" /\ ~cctx[s]
  /\ cctx' = [cctx EXCEPT ![s] = TRUE]
  /\ UNCHANGED <<srvVars, cpc, cres, opened, reqSent, closer, cliClosed>>

\* Mutant: the goroutine does not wait for ctx.Done before closing.
CloserDoneNoWait(s) ==
  /\ closer[s] = "waiting"
  /\ closer' = [closer EXCEPT ![s] = "done"]
  /\ cliClosed' = [cliClosed EXCEPT ![s] = TRUE]
  /\ UNCHANGED <<srvVars, cpc, cres, opened, reqSent, cctx>>

\* Mutant: the goroutine returns on ctx.Done without stream.Close.
CloserDoneNoClose(s) ==
  /\ closer[s] = "waiting" /\ cctx[s]
  /\ closer' = [closer EXCEPT ![s] = "done"]
  /\ UNCHANGED <<srvVars, cpc, cres, opened, reqSent, cctx, cliClosed>>

\* The goroutine: <-ctx.Done(), then stream.Close().
CloserDone(s) ==
  /\ closer[s] = "waiting" /\ cctx[s]
  /\ closer' = [closer EXCEPT ![s] = "done"]
  /\ cliClosed' = [cliClosed EXCEPT ![s] = TRUE]
  /\ UNCHANGED <<srvVars, cpc, cres, opened, reqSent, cctx>>

\* Mutant: StreamRequest returns without eg.Wait.
ClientReturnNoWait(s) ==
  /\ cpc[s] = "waiting"
  /\ cpc' = [cpc EXCEPT ![s] = "returned"]
  /\ UNCHANGED <<srvVars, cres, opened, reqSent, cctx, closer, cliClosed>>

\* eg.Wait returns once the goroutine has closed the stream; StreamRequest
\* records the peer's stats and returns.
ClientReturn(s) ==
  /\ cpc[s] = "waiting" /\ closer[s] = "done"
  /\ cpc' = [cpc EXCEPT ![s] = "returned"]
  /\ UNCHANGED <<srvVars, cres, opened, reqSent, cctx, closer, cliClosed>>

Init ==
  /\ hpc = [s \in Streams |-> "none"]
  /\ sem = 0
  /\ runPc = "loop"
  /\ cur = NoStream
  /\ worker = [s \in Streams |-> "none"]
  /\ watcher = [s \in Streams |-> "none"]
  /\ reqDone = [s \in Streams |-> FALSE]
  /\ closed = [s \in Streams |-> FALSE]
  /\ ctxDone = FALSE
  /\ stopped = FALSE
  /\ resp = [s \in Streams |-> "none"]
  /\ cpc = [s \in Streams |-> "idle"]
  /\ cres = [s \in Streams |-> "none"]
  /\ opened = [s \in Streams |-> FALSE]
  /\ reqSent = [s \in Streams |-> FALSE]
  /\ cctx = [s \in Streams |-> FALSE]
  /\ closer = [s \in Streams |-> "none"]
  /\ cliClosed = [s \in Streams |-> FALSE]

Next ==
  \/ \E s \in Streams : Arrive(s) \/ HandlerStopped(s) \/ Dequeue(s)
  \/ RunCancel \/ LimitOk \/ LimitCancelled \/ RunReturn
  \/ \E s \in Streams : WorkerDone(s) \/ WatcherDone(s)
  \/ Cancel
  \/ \E s \in Streams : \/ ClientStart(s) \/ ClientWrite(s) \/ ClientRead(s)
                        \/ ReadDeadline(s) \/ ClientTimeout(s)
                        \/ CloserDone(s) \/ ClientReturn(s)

\* Run, the request goroutines and blocked handlers are scheduled fairly and
\* the rate limiter refills; arrivals and the shutdown come from outside.
\* Senders blocked on a Go channel are served in FIFO order, so a handler
\* waiting on the queue is received although Run leaves the loop state in
\* between (strong fairness of its Dequeue).
Fairness ==
  /\ WF_vars(RunCancel) /\ WF_vars(LimitOk) /\ WF_vars(LimitCancelled) /\ WF_vars(RunReturn)
  /\ \A s \in Streams : /\ SF_vars(Dequeue(s)) /\ WF_vars(HandlerStopped(s))
                        /\ WF_vars(WorkerDone(s)) /\ WF_vars(WatcherDone(s))
  /\ \A s \in Streams : /\ WF_vars(ClientWrite(s)) /\ WF_vars(ClientRead(s))
                        /\ WF_vars(ClientTimeout(s)) /\ WF_vars(CloserDone(s))
                        /\ WF_vars(ClientReturn(s))

Spec == Init /\ [][Next]_vars /\ Fairness

-----------------------------------------------------------------------------
(* Properties.                                                             *)

Slot == {"none", "queued", "returned"}

TypeOK ==
  /\ hpc \in [Streams -> Slot]
  /\ sem \in 0..QueueSize
  /\ runPc \in {"loop", "limit", "drain", "drainNoStop", "returned"}
  /\ cur \in Streams \cup {NoStream}
  /\ worker \in [Streams -> {"none", "handling", "finished"}]
  /\ watcher \in [Streams -> {"none", "waiting", "done"}]
  /\ reqDone \in [Streams -> BOOLEAN] /\ closed \in [Streams -> BOOLEAN]
  /\ ctxDone \in BOOLEAN /\ stopped \in BOOLEAN
  /\ resp \in [Streams -> {"none", "data", "error"}]
  /\ cpc \in [Streams -> {"idle", "open", "reading", "waiting", "returned"}]
  /\ cres \in [Streams -> {"none", "data", "srvErr", "failed"}]
  /\ closer \in [Streams -> {"none", "waiting", "done"}]
  /\ opened \in [Streams -> BOOLEAN] /\ reqSent \in [Streams -> BOOLEAN]
  /\ cctx \in [Streams -> BOOLEAN] /\ cliClosed \in [Streams -> BOOLEAN]

\* Every semaphore slot is owned by exactly one stream: a handler blocked on
\* the queue, the request Run holds at the rate limiter, or a request whose
\* watcher has not yet released it; the handler, Run's stop path and the
\* watcher between them release each slot once.
SlotsAccounted ==
  sem = Cardinality({s \in Streams : hpc[s] = "queued"})
        + (IF cur # NoStream THEN 1 ELSE 0)
        + Cardinality({s \in Streams : watcher[s] = "waiting"})

\* Once Run's context is cancelled, Run returns: its eg.Wait is not blocked
\* forever by a request goroutine.
RunReturns == ctxDone ~> runPc = "returned"

\* The stream of every request whose goroutines started is eventually
\* closed and its slot released, whether the worker finishes first or the
\* server is cancelled.
StartedClosed == \A s \in Streams : watcher[s] = "waiting" ~> closed[s]

\* Every request whose stream NewStream opened returns from StreamRequest,
\* also when the server never answers nor closes it (a stream dropped by
\* Run's limiter path): the hard timeout ends the context and the
\* goroutine's stream.Close unblocks the callback's read.
ClientReturns == \A s \in Streams : opened[s] ~> cpc[s] = "returned"

\* When StreamRequest returns, the stream it opened is closed, by the
\* goroutine it waited for or by streamRequest's deferred dadj.Close.
ClientClosedOnReturn ==
  \A s \in Streams : opened[s] /\ cpc[s] = "returned" => cliClosed[s]

\* A callback whose read ends while the server's Response is on the stream
\* does not fail, unless the hard timeout had already fired and the
\* goroutine closed the stream under it: an answered request is lost only
\* to the client's own timeout.
AnswerLostOnlyToTimeout ==
  [][\A s \in Streams :
       (cpc[s] = "reading" /\ cpc'[s] = "waiting" /\ resp[s] # "none"
          /\ cres'[s] = "failed") => cctx[s]]_vars

\* Every stream the handler accepted is eventually closed, so its
\* semaphore slot and its handler goroutine do not leak (the comment on the
\* handler's select: requests either reach the queue or see stopped).
AcceptedClosed == \A s \in Streams : hpc[s] = "queued" ~> closed[s]

=============================================================================
