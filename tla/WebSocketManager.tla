-------------------------- MODULE WebSocketManager --------------------------
(***************************************************************************)
(* utils/websocket_manager.py: the background task of one manager, its     *)
(* registry of subscriptions, the frames it sends, and disconnect().       *)
(*                                                                         *)
(* An action is the code from one await to the next.  Every task that      *)
(* connect() creates is a run; connect() may be called while an earlier    *)
(* run is still alive, so there can be several.  A run has at most one     *)
(* connection at a time, and _ws is named by the run that owns it.  The    *)
(* messages received and their callbacks change nothing here.              *)
(***************************************************************************)
EXTENDS Naturals, Sequences, FiniteSets

CONSTANTS
  Topics,       \* subscription keys
  WireOf,       \* what a key is called on the wire: itself, or its order book's pair
  MaxRuns,      \* bound on the tasks connect() creates
  MaxDrops,     \* bound on the connections the network drops
  MaxOps,       \* bound on the calls of subscribe, unsubscribe and disconnect
  Private,      \* the keys whose frame must be signed (is_private, and no order book)
  Limits,       \* the values of ws_reconnect_max_attempts, 0 for no limit
  None

Runs == 1..MaxRuns

ASSUME WsAssumption ==
  /\ MaxRuns \in Nat \ {0} /\ MaxDrops \in Nat /\ MaxOps \in Nat
  /\ Limits \subseteq Nat /\ Limits # {}
  /\ DOMAIN WireOf = Topics /\ Private \subseteq Topics
  /\ None \notin Runs

VARIABLES
  account,     \* the manager was given an account to sign with; no later step gives it one
  maxAttempts, \* its ws_reconnect_max_attempts
  cstate,    \* _state
  should,    \* _should_reconnect
  ws,        \* _ws: the run whose connection it is, or None
  runTask,   \* _run_task
  subs,      \* _subscriptions
  attempts,  \* _reconnect_attempts
  queue,     \* the send tasks that subscribe and unsubscribe have created, in order
  run,       \* where each run is
  cancelled, \* the runs task.cancel() was called on
  todo,      \* the keys of the snapshot a run has yet to re-subscribe
  conn,      \* a run's connection: up, shutting (close frame sent) or down
  wire,      \* the wire names its server has subscribed
  dc,        \* where disconnect() is: awaiting the socket's end or the task's
  dcOn,      \* the run whose socket or whose end it awaits
  ops, drops, \* counters for the bounds
  overtaken  \* history: the keys with a frame on its way when _ws was published

config == <<account, maxAttempts>>
mgrVars == <<cstate, should, ws, runTask, subs, attempts>>
runVars == <<run, cancelled, todo, conn, wire>>
vars == <<config, mgrVars, runVars, queue, dc, dcOn, ops, drops, overtaken>>

\* created: not started yet.  online: connected, re-subscribing its snapshot and then
\* receiving.  leaving: cancelled, closing its connection.
RunPhases == {"unused", "created", "connecting", "online", "leaving", "backoff", "ended"}
Alive(r) == run[r] \notin {"unused", "ended"}

Init ==
  /\ account \in BOOLEAN /\ maxAttempts \in Limits
  /\ cstate = "DISCONNECTED" /\ should = FALSE /\ ws = None /\ runTask = None
  /\ subs = {} /\ attempts = 0
  /\ queue = <<>>
  /\ run = [r \in Runs |-> "unused"]
  /\ cancelled = {}
  /\ todo = [r \in Runs |-> {}]
  /\ conn = [r \in Runs |-> "down"]
  /\ wire = [r \in Runs |-> {}]
  /\ dc = "idle" /\ dcOn = None
  /\ ops = 0 /\ drops = 0
  /\ overtaken = {}

-----------------------------------------------------------------------------
(* The synchronous entry points *)

Op == ops < MaxOps /\ ops' = ops + 1

\* connect(): nothing if CONNECTING or CONNECTED, else a new task.
Connect ==
  IF cstate \in {"CONNECTING", "CONNECTED"}
  THEN UNCHANGED <<cstate, should, runTask, run>>
  ELSE \E r \in Runs :
         /\ run[r] = "unused" /\ \A q \in Runs : q < r => run[q] # "unused"
         /\ run' = [run EXCEPT ![r] = "created"]
         /\ runTask' = r
         /\ cstate' = "CONNECTING" /\ should' = TRUE

Subscribe(k) ==
  /\ Op
  /\ subs' = subs \cup {k}
  /\ IF cstate = "CONNECTED" /\ ws # None
     THEN /\ queue' = Append(queue, <<"subscribe", k>>)
          /\ UNCHANGED <<cstate, should, runTask, run>>
     ELSE /\ UNCHANGED queue
          /\ IF cstate # "CONNECTED" THEN Connect
             ELSE UNCHANGED <<cstate, should, runTask, run>>
  /\ UNCHANGED <<ws, attempts, cancelled, todo, conn, wire, dc, dcOn, drops, overtaken,
                 config>>

Unsubscribe(k) ==
  /\ Op
  /\ k \in subs
  /\ subs' = subs \ {k}
  /\ queue' = IF cstate = "CONNECTED" /\ ws # None
              THEN Append(queue, <<"unsubscribe", k>>) ELSE queue
  /\ UNCHANGED <<cstate, should, ws, runTask, attempts, runVars, dc, dcOn, drops, overtaken,
                 config>>

-----------------------------------------------------------------------------
(* Frames *)

\* What the frame for a key names: a pair of the order books, or a topic.
Named(k) == WireOf[k]

\* What the server of _ws has subscribed becomes f, unless _ws is None or not up.
PutOnWire(f) ==
  wire' = IF ws # None /\ conn[ws] = "up" THEN [wire EXCEPT ![ws] = f] ELSE wire

\* The manager can write the frame: without an account there is none for a private topic.
Signable(k) == k \notin Private \/ account

\* Mutant: the registry is not looked at again.
SendSubscribeUnchecked(k) ==
  IF Signable(k) THEN PutOnWire(wire[ws] \cup {Named(k)}) ELSE UNCHANGED wire

\* _send_subscribe, unless k was unsubscribed meanwhile or its frame cannot be signed.
SendSubscribe(k) ==
  IF k \in subs /\ Signable(k) THEN PutOnWire(wire[ws] \cup {Named(k)}) ELSE UNCHANGED wire

SendUnsubscribe(k) == PutOnWire(wire[ws] \ {Named(k)})

\* The send tasks run in the order of their creation.
RunSendTask ==
  /\ queue # <<>>
  /\ queue' = Tail(queue)
  /\ IF Head(queue)[1] = "subscribe"
     THEN SendSubscribe(Head(queue)[2]) ELSE SendUnsubscribe(Head(queue)[2])
  /\ UNCHANGED <<mgrVars, run, cancelled, todo, conn, dc, dcOn, ops, drops, overtaken, config>>

-----------------------------------------------------------------------------
(* The background task *)

Go(r, p) == run' = [run EXCEPT ![r] = p]

\* `while self._should_reconnect`, at the start of the task or after the backoff.  The
\* handshake that follows takes several turns of the event loop, so the send tasks that
\* exist by now have run when it ends; they do not see this step, and are taken first.
LoopHead(r) ==
  /\ run[r] \in {"created", "backoff"} /\ r \notin cancelled
  /\ queue = <<>>
  /\ Go(r, IF should THEN "connecting" ELSE "ended")
  /\ UNCHANGED <<mgrVars, cancelled, todo, conn, wire, queue, dc, dcOn,
                 ops, drops, overtaken, config>>

\* The handshake succeeds: publish the connection, snapshot the keys.
Connected(r) ==
  /\ run[r] = "connecting" /\ r \notin cancelled
  /\ Go(r, "online")
  /\ ws' = r /\ cstate' = "CONNECTED" /\ attempts' = 0
  /\ conn' = [conn EXCEPT ![r] = "up"]
  /\ wire' = [wire EXCEPT ![r] = {}]
  /\ todo' = [todo EXCEPT ![r] = subs]
  /\ overtaken' = {queue[i][2] : i \in DOMAIN queue}
  /\ UNCHANGED <<should, runTask, subs, cancelled, queue, dc, dcOn, ops, drops, config>>

\* The next key of the snapshot; it goes to whatever connection _ws is now.
Resubscribe(r) ==
  /\ run[r] = "online" /\ r \notin cancelled
  /\ \E k \in todo[r] : SendSubscribe(k) /\ todo' = [todo EXCEPT ![r] = @ \ {k}]
  /\ UNCHANGED <<mgrVars, run, cancelled, conn, queue, dc, dcOn, ops, drops, overtaken,
                 config>>

\* Without a limit the count is not looked at, and is left out.
Counted == IF maxAttempts = 0 THEN attempts ELSE attempts + 1

\* Mutant: the attempts are not limited.
RetryForever(r) ==
  IF should
  THEN Go(r, "backoff") /\ cstate' = "RECONNECTING" /\ UNCHANGED <<should, attempts>>
  ELSE Go(r, "ended") /\ cstate' = "DISCONNECTED" /\ UNCHANGED <<should, attempts>>

\* Mutant: the state is set after the backoff, by the connection that follows.
RetrySilently(r) ==
  IF should /\ (maxAttempts = 0 \/ attempts < maxAttempts)
  THEN Go(r, "backoff") /\ attempts' = Counted /\ UNCHANGED <<should, cstate>>
  ELSE Go(r, "ended") /\ cstate' = "DISCONNECTED" /\ should' = FALSE /\ UNCHANGED attempts

\* The end of the loop body without a cancellation: stop, give up or sleep.
Retry(r) ==
  \/ /\ ~should
     /\ Go(r, "ended") /\ cstate' = "DISCONNECTED"
     /\ UNCHANGED <<should, attempts>>
  \/ /\ should /\ maxAttempts > 0 /\ attempts >= maxAttempts
     /\ Go(r, "ended") /\ cstate' = "DISCONNECTED" /\ should' = FALSE
     /\ UNCHANGED attempts
  \/ /\ should /\ (maxAttempts = 0 \/ attempts < maxAttempts)
     /\ Go(r, "backoff") /\ cstate' = "RECONNECTING" /\ attempts' = Counted
     /\ UNCHANGED should

\* The handshake fails, or the message loop ends with its connection.  `finally` clears
\* _ws, whichever run's it is.
ConnectionEnds(r) ==
  /\ \/ run[r] = "connecting"
     \/ run[r] = "online" /\ todo[r] = {} /\ conn[r] = "down"
  /\ r \notin cancelled
  /\ ws' = None
  /\ Retry(r)
  /\ UNCHANGED <<runTask, subs, cancelled, todo, conn, wire, queue, dc, dcOn,
                 ops, drops, overtaken, config>>

\* CancelledError is raised where the run is suspended.  One that was never started or
\* sleeps in _backoff leaves the state as it is; one that is online first closes its
\* connection.
CancelArrives(r) ==
  /\ r \in cancelled
  /\ \/ run[r] \in {"created", "backoff"} /\ Go(r, "ended") /\ UNCHANGED <<ws, cstate, conn>>
     \/ run[r] = "online" /\ Go(r, "leaving")
        /\ conn' = [conn EXCEPT ![r] = IF @ = "up" THEN "shutting" ELSE @]
        /\ UNCHANGED <<ws, cstate>>
     \/ /\ run[r] = "connecting" \/ (run[r] = "leaving" /\ conn[r] = "down")
        /\ Go(r, "ended") /\ ws' = None /\ cstate' = "DISCONNECTED" /\ UNCHANGED conn
  /\ UNCHANGED <<should, runTask, subs, attempts, cancelled, todo, wire, queue, dc, dcOn,
                 ops, drops,
                 overtaken, config>>

\* The network or the server drops a connection, or a ping times out.
Drop(r) ==
  /\ drops < MaxDrops
  /\ conn[r] = "up"
  /\ conn' = [conn EXCEPT ![r] = "down"]
  /\ drops' = drops + 1
  /\ UNCHANGED <<mgrVars, run, cancelled, todo, wire, queue, dc, dcOn, ops, overtaken, config>>

\* The closing handshake ends, or times out.
SocketCloses(r) ==
  /\ conn[r] = "shutting"
  /\ conn' = [conn EXCEPT ![r] = "down"]
  /\ UNCHANGED <<mgrVars, run, cancelled, todo, wire, queue, dc, dcOn, ops, drops, overtaken,
                 config>>

-----------------------------------------------------------------------------
(* disconnect(), under the timeout close_websocket puts on it *)

Finish ==
  /\ dc' = "returned" /\ dcOn' = None
  /\ cstate' = "DISCONNECTED" /\ subs' = {}

\* Cancel the task if it is not done, and wait for it.
CancelTask ==
  IF runTask # None /\ Alive(runTask)
  THEN /\ cancelled' = cancelled \cup {runTask}
       /\ dc' = "awaiting task" /\ dcOn' = runTask
       /\ UNCHANGED <<cstate, subs>>
  ELSE Finish /\ UNCHANGED cancelled

Disconnect ==
  /\ dc \in {"idle", "returned", "gave up"}
  /\ Op
  /\ should' = FALSE
  /\ IF ws # None
     THEN /\ dc' = "awaiting socket" /\ dcOn' = ws
          /\ conn' = [conn EXCEPT ![ws] = IF @ = "up" THEN "shutting" ELSE @]
          /\ UNCHANGED <<cstate, subs, cancelled>>
     ELSE CancelTask /\ UNCHANGED conn
  /\ UNCHANGED <<ws, runTask, attempts, run, todo, wire, queue, drops, overtaken, config>>

DisconnectGoesOn ==
  /\ dc = "awaiting socket" /\ conn[dcOn] # "shutting"
  /\ CancelTask
  /\ UNCHANGED <<should, ws, runTask, attempts, run, todo, conn, wire, queue, ops, drops,
                 overtaken, config>>

DisconnectReturns ==
  /\ dc = "awaiting task" /\ ~Alive(dcOn)
  /\ Finish
  /\ UNCHANGED <<should, ws, runTask, attempts, runVars, queue, ops, drops, overtaken, config>>

\* The grace period ends during the closing handshake: the task is not cancelled, the
\* registry is not cleared.  (Later, the cancellation of disconnect() only cancels the
\* task again.)
GraceEnds ==
  /\ dc = "awaiting socket"
  /\ dc' = "gave up" /\ dcOn' = None
  /\ UNCHANGED <<mgrVars, runVars, queue, ops, drops, overtaken, config>>

RunStep(r) ==
  LoopHead(r) \/ Connected(r) \/ Resubscribe(r) \/ ConnectionEnds(r) \/ CancelArrives(r)

\* Nothing is left to happen but calls that the bounds rule out.
Quiet ==
  /\ queue = <<>> /\ dc \in {"idle", "returned", "gave up"}
  /\ \A r \in Runs : ~Alive(r) \/ (run[r] = "online" /\ todo[r] = {} /\ conn[r] = "up")

Next ==
  \/ \E k \in Topics : Subscribe(k) \/ Unsubscribe(k)
  \/ RunSendTask
  \/ \E r \in Runs : RunStep(r) \/ Drop(r) \/ SocketCloses(r)
  \/ Disconnect \/ DisconnectGoesOn \/ DisconnectReturns \/ GraceEnds
  \/ Quiet /\ UNCHANGED vars

Spec == Init /\ [][Next]_vars

\* Tasks that can run do; handshakes, opening and closing, end (websockets' open and
\* close timeouts), with whatever outcome.
Fairness ==
  /\ WF_vars(RunSendTask)
  /\ WF_vars(DisconnectGoesOn) /\ WF_vars(DisconnectReturns)
  /\ \A r \in Runs : WF_vars(RunStep(r)) /\ WF_vars(SocketCloses(r))

\* With no limit on the attempts the server is assumed to let one through in the end.
FairSpec ==
  Spec /\ Fairness /\ \A r \in Runs : SF_vars(maxAttempts = 0 /\ Connected(r))

-----------------------------------------------------------------------------
\* The types; the reconnect attempts never exceed ws_reconnect_max_attempts.
WsTypeOK ==
  /\ account \in BOOLEAN /\ maxAttempts \in Limits
  /\ cstate \in {"DISCONNECTED", "CONNECTING", "CONNECTED", "RECONNECTING"}
  /\ should \in BOOLEAN
  /\ ws \in Runs \cup {None} /\ runTask \in Runs \cup {None}
  /\ subs \subseteq Topics
  /\ attempts \in Nat /\ (maxAttempts > 0 => attempts <= maxAttempts)
  /\ queue \in Seq({"subscribe", "unsubscribe"} \X Topics)
  /\ run \in [Runs -> RunPhases] /\ cancelled \subseteq Runs
  /\ todo \in [Runs -> SUBSET Topics]
  /\ conn \in [Runs -> {"up", "shutting", "down"}]
  /\ wire \in [Runs -> SUBSET {WireOf[k] : k \in Topics}]
  /\ dc \in {"idle", "awaiting socket", "awaiting task", "returned", "gave up"}
  /\ dcOn \in Runs \cup {None}
  /\ ops \in 0..MaxOps /\ drops \in 0..MaxDrops
  /\ overtaken \subseteq Topics

\* subscribe() and unsubscribe() test the state and _ws together, and send nothing when
\* they disagree: the state is CONNECTED only while _ws is the connection of a run that
\* will notice its end, even when several runs share the two.
ConnectedHasSocket ==
  cstate = "CONNECTED" => ws # None /\ run[ws] \in {"online", "leaving"}

\* Connected, with every frame sent that was due.
Settled ==
  /\ cstate = "CONNECTED" /\ queue = <<>>
  /\ run[ws] = "online" /\ todo[ws] = {} /\ conn[ws] = "up"

\* "Re-subscribe all registered topics" (websocket_manager.py:221): while CONNECTED, once
\* the frames on their way are sent, the server of _ws has subscribed the registered
\* topics whose frame can be signed, and none that is not registered, whatever was
\* subscribed, unsubscribed or dropped during the handshake and the re-subscription; but
\* for a topic whose frame had not been sent when _ws was published.  (After a
\* disconnect() that clears the registry under a run started meanwhile, the state is
\* DISCONNECTED and the server keeps all.)
RegistryOnWire ==
  Settled =>
    /\ \A k \in subs \ overtaken : Signable(k) => WireOf[k] \in wire[ws]
    /\ wire[ws] \subseteq {WireOf[k] : k \in subs \cup overtaken}

\* A subscription whose frame can be signed reaches the server or is withdrawn, unless the
\* manager has given up or was told to stop; with or without a limit on the attempts.
SubscriptionServed ==
  \A k \in Topics :
    (k \in subs /\ Signable(k)) ~>
      (k \notin subs \/ ~should \/ (ws # None /\ WireOf[k] \in wire[ws]))

\* disconnect() comes back, in whatever state it finds the task.
DisconnectReturnsToCaller ==
  (dc \in {"awaiting socket", "awaiting task"}) ~> (dc \in {"returned", "gave up"})

\* "Single connection for multiple subscriptions" (README.md:1241).
SingleConnection ==
  \A r, q \in Runs : conn[r] = "up" /\ conn[q] = "up" => r = q

\* "After this returns the manager is in DISCONNECTED state and all subscriptions are
\* cleared" (websocket_manager.py:175): with nothing called since, no connection is up.
DisconnectedHasNoConnection ==
  dc = "returned" /\ cstate = "DISCONNECTED" => \A r \in Runs : conn[r] # "up"

\* Without the second exception RegistryOnWire does not hold: with two runs, the
\* unsubscription of a topic can be sent after its later subscription, and the topic stays
\* registered and silent.
RegistryAlwaysOnWire ==
  Settled => \A k \in subs : Signable(k) => WireOf[k] \in wire[ws]

\* Nor without the first: subscribe() registers a private topic of a manager that has no
\* account, and no frame is ever sent for it, while the state is CONNECTED.
PrivateTopicsOnWire ==
  Settled => \A k \in subs \ overtaken : WireOf[k] \in wire[ws]
=============================================================================
