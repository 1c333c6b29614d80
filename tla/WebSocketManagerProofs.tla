----------------------- MODULE WebSocketManagerProofs -----------------------
(***************************************************************************)
(* Proofs about WebSocketManager, for any topics, runs, drops and calls.   *)
(*                                                                         *)
(* CONNECTED is entered with a connection only, and left whenever any run  *)
(* clears _ws.  While it lasts, the last frame on its way for a key says   *)
(* what the registry says, and the server agrees with the registry on the  *)
(* keys that have no frame on its way, unless the run has yet to           *)
(* re-subscribe them or their frame cannot be signed.                      *)
(***************************************************************************)
EXTENDS WebSocketManager, TLAPS

USE WsAssumption

Frames == {"subscribe", "unsubscribe"} \X Topics

Names == {WireOf[k] : k \in Topics}

\* A frame for k is on its way.
Keyed(q, k) == \E i \in 1..Len(q) : q[i][2] = k

\* No later frame of q is for the key of the i-th.
LastOf(q, i) == \A j \in 1..Len(q) : j > i => q[j][2] # q[i][2]

\* The last frame for a key says whether the key is in S; the keys in X are left out.
SaysLast(q, S, X) ==
  \A i \in 1..Len(q) :
    LastOf(q, i) /\ q[i][2] \notin X => (q[i][1] = "subscribe" <=> q[i][2] \in S)

\* A connection that will take frames.
OnAir == cstate = "CONNECTED" /\ run[ws] = "online" /\ conn[ws] = "up"

\* The server agrees with the registry on the keys with no frame on its way, but for the
\* registered ones whose frame cannot be signed.
ServerAgrees ==
  \A k \in Topics \ overtaken : ~Keyed(queue, k) =>
    /\ k \in subs /\ Signable(k) => WireOf[k] \in wire[ws] \/ k \in todo[ws]
    /\ k \notin subs => WireOf[k] \notin wire[ws]

WireInv == OnAir => SaysLast(queue, subs, overtaken) /\ ServerAgrees

\* Different keys have different names on the wire.
DistinctNames == \A j, k \in Topics : WireOf[j] = WireOf[k] => j = k

---------------------------------------------------------------------------
(* Queues of frames *)

LEMMA InQueue ==
  ASSUME NEW q \in Seq(Frames)
  PROVE  DOMAIN q = 1..Len(q) /\ \A i \in 1..Len(q) : q[i] \in Frames /\ q[i][2] \in Topics
<1>1. DOMAIN q = 1..Len(q)
  OBVIOUS
<1>2. ASSUME NEW i \in 1..Len(q) PROVE q[i] \in Frames
  OBVIOUS
<1>3. \A f \in Frames : f[2] \in Topics
  BY DEF Frames
<1> QED BY <1>1, <1>2, <1>3

LEMMA Appended ==
  ASSUME NEW q \in Seq(Frames), NEW f \in Frames
  PROVE  /\ Append(q, f) \in Seq(Frames) /\ Len(q) \in Nat /\ Len(Append(q, f)) = Len(q) + 1
         /\ \A i \in 1..Len(q) : Append(q, f)[i] = q[i]
         /\ Append(q, f)[Len(q) + 1] = f
OBVIOUS

LEMMA Taken ==
  ASSUME NEW q \in Seq(Frames), q # <<>>
  PROVE  /\ Tail(q) \in Seq(Frames) /\ Len(q) \in Nat /\ Len(q) >= 1
         /\ Len(Tail(q)) = Len(q) - 1
         /\ \A i \in 1..Len(q) - 1 : Tail(q)[i] = q[i + 1]
         /\ Head(q) = q[1] /\ q[1] \in Frames
OBVIOUS

\* A new frame is the last one for its key, and says what has just become of it.
LEMMA AppendSays ==
  ASSUME NEW q \in Seq(Frames), NEW S, NEW X, SaysLast(q, S, X), NEW k \in Topics,
         NEW op \in {"subscribe", "unsubscribe"}, NEW T,
         \A j \in Topics : j # k => (j \in T <=> j \in S),
         op = "subscribe" <=> k \in T
  PROVE  /\ SaysLast(Append(q, <<op, k>>), T, X)
         /\ \A j : ~Keyed(Append(q, <<op, k>>), j) => j # k /\ ~Keyed(q, j)
<1> DEFINE f == <<op, k>>
           p == Append(q, f)
<1>1. f \in Frames /\ f[1] = op /\ f[2] = k
  BY DEF Frames
<1>2. /\ Len(q) \in Nat /\ Len(p) = Len(q) + 1
      /\ \A i \in 1..Len(q) : p[i] = q[i]
      /\ p[Len(q) + 1] = f
  BY <1>1, Appended
<1>3. \A i \in 1..Len(q) : q[i][2] \in Topics
  BY DEF Frames
<1> HIDE DEF f, p
<1>4. ASSUME NEW i \in 1..Len(p), LastOf(p, i), p[i][2] \notin X
      PROVE  p[i][1] = "subscribe" <=> p[i][2] \in T
  <2>1. CASE i = Len(q) + 1
    BY <1>1, <1>2, <2>1
  <2>2. CASE i # Len(q) + 1
    <3>1. i \in 1..Len(q) /\ p[i] = q[i] /\ Len(q) + 1 \in 1..Len(p) /\ Len(q) + 1 > i
      BY <1>2, <2>2
    <3>2. q[i][2] # k
      BY <1>1, <1>2, <1>4, <3>1 DEF LastOf
    <3>3. LastOf(q, i)
      <4>1. ASSUME NEW j \in 1..Len(q), j > i PROVE q[j][2] # q[i][2]
        <5>1. j \in 1..Len(p) /\ p[j] = q[j]
          BY <1>2
        <5> QED BY <1>4, <3>1, <4>1, <5>1 DEF LastOf
      <4> QED BY <4>1 DEF LastOf
    <3> QED BY <1>3, <1>4, <3>1, <3>2, <3>3 DEF SaysLast
  <2> QED BY <2>1, <2>2
<1>5. ASSUME NEW j, ~Keyed(p, j) PROVE j # k /\ ~Keyed(q, j)
  <2>1. Len(q) + 1 \in 1..Len(p) /\ \A i \in 1..Len(q) : i \in 1..Len(p) /\ p[i] = q[i]
    BY <1>2
  <2> QED BY <1>1, <1>2, <1>5, <2>1 DEF Keyed
<1> QED BY <1>4, <1>5 DEF SaysLast, f, p

\* Without its first frame a queue says the same, and the first frame says it of its key
\* if it was the only one.
LEMMA TailSays ==
  ASSUME NEW q \in Seq(Frames), q # <<>>, NEW S, NEW X, SaysLast(q, S, X)
  PROVE  /\ SaysLast(Tail(q), S, X)
         /\ \A j : ~Keyed(Tail(q), j) =>
              \/ ~Keyed(q, j) /\ Head(q)[2] # j
              \/ Head(q)[2] = j /\ (j \notin X => (Head(q)[1] = "subscribe" <=> j \in S))
<1> DEFINE p == Tail(q)
<1>1. /\ Len(q) \in Nat /\ Len(q) >= 1 /\ Len(p) = Len(q) - 1
      /\ \A i \in 1..Len(q) - 1 : p[i] = q[i + 1]
      /\ Head(q) = q[1]
  BY Taken
<1> HIDE DEF p
<1>2. ASSUME NEW i \in 1..Len(p), LastOf(p, i), p[i][2] \notin X
      PROVE  p[i][1] = "subscribe" <=> p[i][2] \in S
  <2>1. i + 1 \in 1..Len(q) /\ p[i] = q[i + 1]
    BY <1>1
  <2>2. ASSUME NEW j \in 1..Len(q), j > i + 1 PROVE q[j][2] # q[i + 1][2]
    <3>1. j - 1 \in 1..Len(p) /\ j - 1 > i /\ p[j - 1] = q[j]
      BY <1>1, <2>2
    <3> QED BY <1>2, <2>1, <3>1 DEF LastOf
  <2> QED BY <1>2, <2>1, <2>2 DEF SaysLast, LastOf
<1>3. ASSUME NEW j, ~Keyed(p, j)
      PROVE  \A i \in 1..Len(q) : i > 1 => q[i][2] # j
  <2>1. ASSUME NEW i \in 1..Len(q), i > 1 PROVE q[i][2] # j
    <3>1. i - 1 \in 1..Len(p) /\ p[i - 1] = q[i]
      BY <1>1, <2>1
    <3> QED BY <1>3, <3>1 DEF Keyed
  <2> QED BY <2>1
<1>4. ASSUME NEW j, ~Keyed(p, j)
      PROVE  \/ ~Keyed(q, j) /\ Head(q)[2] # j
             \/ Head(q)[2] = j /\ (j \notin X => (Head(q)[1] = "subscribe" <=> j \in S))
  <2>1. \A i \in 1..Len(q) : i > 1 => q[i][2] # j
    BY <1>3, <1>4
  <2>2. 1 \in 1..Len(q)
    BY <1>1
  <2>3. CASE q[1][2] = j
    <3>1. LastOf(q, 1)
      BY <2>1, <2>3 DEF LastOf
    <3> QED BY <1>1, <2>2, <2>3, <3>1 DEF SaysLast
  <2>4. CASE q[1][2] # j
    <3>1. ASSUME NEW i \in 1..Len(q) PROVE q[i][2] # j
      BY <1>1, <2>1, <2>4
    <3> QED BY <1>1, <2>4, <3>1 DEF Keyed
  <2> QED BY <2>3, <2>4
<1> QED BY <1>2, <1>4 DEF SaysLast, p

---------------------------------------------------------------------------
(* Types *)

ManagerTypes ==
  /\ account \in BOOLEAN
  /\ cstate \in {"DISCONNECTED", "CONNECTING", "CONNECTED", "RECONNECTING"}
  /\ should \in BOOLEAN
  /\ ws \in Runs \cup {None} /\ runTask \in Runs \cup {None}
  /\ subs \in SUBSET Topics
  /\ queue \in Seq(Frames)
  /\ dc \in {"idle", "awaiting socket", "awaiting task", "returned", "gave up"}
  /\ dcOn \in Runs \cup {None}
  /\ overtaken \in SUBSET Topics

RunTypes ==
  /\ run \in [Runs -> RunPhases] /\ cancelled \in SUBSET Runs
  /\ todo \in [Runs -> SUBSET Topics]
  /\ conn \in [Runs -> {"up", "shutting", "down"}]
  /\ wire \in [Runs -> SUBSET Names]

CountTypes ==
  /\ maxAttempts \in Limits
  /\ attempts \in Nat /\ (maxAttempts > 0 => attempts <= maxAttempts)
  /\ ops \in 0..MaxOps /\ drops \in 0..MaxDrops

Types == ManagerTypes /\ RunTypes /\ CountTypes

LEMMA TypesInit == Init => Types
<1>1. Init => ManagerTypes
  <2>1. Init => queue \in Seq(Frames)
    BY DEF Init
  <2> QED BY <2>1 DEF Init, ManagerTypes
<1>2. Init => RunTypes
  BY DEF Init, RunTypes, RunPhases
<1>3. Init => CountTypes
  BY DEF Init, CountTypes
<1> QED BY <1>1, <1>2, <1>3 DEF Types

\* What a frame does to the servers' subscriptions.
LEMMA FrameType ==
  ASSUME ManagerTypes, RunTypes, NEW k \in Topics
  PROVE  /\ SendSubscribe(k) => wire' \in [Runs -> SUBSET Names]
         /\ SendUnsubscribe(k) => wire' \in [Runs -> SUBSET Names]
<1>1. WireOf[k] \in Names
  BY DEF Names
<1>2. wire \in [Runs -> SUBSET Names] /\ (ws # None => ws \in Runs)
  BY DEF ManagerTypes, RunTypes
<1>3. ASSUME SendSubscribe(k) PROVE wire' \in [Runs -> SUBSET Names]
  BY <1>1, <1>2, <1>3 DEF SendSubscribe, PutOnWire, Named
<1>4. ASSUME SendUnsubscribe(k) PROVE wire' \in [Runs -> SUBSET Names]
  BY <1>1, <1>2, <1>4 DEF SendUnsubscribe, PutOnWire, Named
<1> QED BY <1>3, <1>4

LEMMA ManagerTypesStep == Types /\ [Next]_vars => ManagerTypes'
<1> SUFFICES ASSUME ManagerTypes, RunTypes, CountTypes, [Next]_vars PROVE ManagerTypes'
  BY DEF Types
<1> USE DEF config, mgrVars, runVars
<1>1. ASSUME NEW k \in Topics, Subscribe(k) PROVE ManagerTypes'
  <2>1. <<"subscribe", k>> \in Frames
    BY DEF Frames
  <2>2. queue' \in Seq(Frames)
    BY <1>1, <2>1, Appended DEF Subscribe, ManagerTypes
  <2> QED BY <1>1, <2>2 DEF Subscribe, Connect, ManagerTypes
<1>2. ASSUME NEW k \in Topics, Unsubscribe(k) PROVE ManagerTypes'
  <2>1. <<"unsubscribe", k>> \in Frames
    BY DEF Frames
  <2>2. queue' \in Seq(Frames)
    BY <1>2, <2>1, Appended DEF Unsubscribe, ManagerTypes
  <2> QED BY <1>2, <2>2 DEF Unsubscribe, ManagerTypes
<1>3. CASE RunSendTask
  <2>1. queue' \in Seq(Frames)
    BY <1>3, Taken DEF RunSendTask, ManagerTypes
  <2> QED BY <1>3, <2>1 DEF RunSendTask, ManagerTypes
<1>4. ASSUME NEW r \in Runs, LoopHead(r) PROVE ManagerTypes'
  BY <1>4 DEF LoopHead, ManagerTypes
<1>5. ASSUME NEW r \in Runs, Connected(r) PROVE ManagerTypes'
  <2>1. queue \in Seq(Frames)
    BY DEF ManagerTypes
  <2>2. {queue[i][2] : i \in DOMAIN queue} \subseteq Topics
    BY <2>1, InQueue
  <2> QED BY <1>5, <2>2 DEF Connected, ManagerTypes
<1>6. ASSUME NEW r \in Runs, Resubscribe(r) PROVE ManagerTypes'
  BY <1>6 DEF Resubscribe, ManagerTypes
<1>7. ASSUME NEW r \in Runs, ConnectionEnds(r) PROVE ManagerTypes'
  BY <1>7 DEF ConnectionEnds, Retry, ManagerTypes
<1>8. ASSUME NEW r \in Runs, CancelArrives(r) PROVE ManagerTypes'
  BY <1>8 DEF CancelArrives, ManagerTypes
<1>9. ASSUME NEW r \in Runs, Drop(r) PROVE ManagerTypes'
  BY <1>9 DEF Drop, ManagerTypes
<1>10. ASSUME NEW r \in Runs, SocketCloses(r) PROVE ManagerTypes'
  BY <1>10 DEF SocketCloses, ManagerTypes
<1>11. CASE Disconnect
  BY <1>11 DEF Disconnect, CancelTask, Finish, ManagerTypes
<1>12. CASE DisconnectGoesOn
  BY <1>12 DEF DisconnectGoesOn, CancelTask, Finish, ManagerTypes
<1>13. CASE DisconnectReturns
  BY <1>13 DEF DisconnectReturns, Finish, ManagerTypes
<1>14. CASE GraceEnds
  BY <1>14 DEF GraceEnds, ManagerTypes
<1>15. CASE UNCHANGED vars
  BY <1>15 DEF vars, ManagerTypes
<1> QED BY <1>1, <1>2, <1>3, <1>4, <1>5, <1>6, <1>7, <1>8, <1>9, <1>10, <1>11, <1>12, <1>13,
           <1>14, <1>15 DEF Next, RunStep

LEMMA RunTypesStep == Types /\ [Next]_vars => RunTypes'
<1> SUFFICES ASSUME ManagerTypes, RunTypes, CountTypes, [Next]_vars PROVE RunTypes'
  BY DEF Types
<1> USE DEF config, mgrVars, runVars
<1>1. ASSUME NEW k \in Topics, Subscribe(k) PROVE RunTypes'
  BY <1>1 DEF Subscribe, Connect, RunPhases, RunTypes
<1>2. ASSUME NEW k \in Topics, Unsubscribe(k) PROVE RunTypes'
  BY <1>2 DEF Unsubscribe, RunTypes
<1>3. CASE RunSendTask
  <2>1. Head(queue)[2] \in Topics
    BY <1>3, Taken DEF RunSendTask, ManagerTypes, Frames
  <2>2. wire' \in [Runs -> SUBSET Names]
    BY <1>3, <2>1, FrameType DEF RunSendTask
  <2> QED BY <1>3, <2>2 DEF RunSendTask, RunTypes
<1>4. ASSUME NEW r \in Runs, LoopHead(r) PROVE RunTypes'
  BY <1>4 DEF LoopHead, Go, RunPhases, RunTypes
<1>5. ASSUME NEW r \in Runs, Connected(r) PROVE RunTypes'
  BY <1>5 DEF Connected, Go, ManagerTypes, RunPhases, RunTypes
<1>6. ASSUME NEW r \in Runs, Resubscribe(r) PROVE RunTypes'
  <2>1. PICK k \in todo[r] : SendSubscribe(k) /\ todo' = [todo EXCEPT ![r] = @ \ {k}]
    BY <1>6 DEF Resubscribe
  <2>2. k \in Topics /\ todo' \in [Runs -> SUBSET Topics]
    BY <2>1 DEF RunTypes
  <2>3. wire' \in [Runs -> SUBSET Names]
    BY <2>1, <2>2, FrameType
  <2> QED BY <1>6, <2>2, <2>3 DEF Resubscribe, RunTypes
<1>7. ASSUME NEW r \in Runs, ConnectionEnds(r) PROVE RunTypes'
  BY <1>7 DEF ConnectionEnds, Retry, Go, RunPhases, RunTypes
<1>8. ASSUME NEW r \in Runs, CancelArrives(r) PROVE RunTypes'
  BY <1>8 DEF CancelArrives, Go, RunPhases, RunTypes
<1>9. ASSUME NEW r \in Runs, Drop(r) PROVE RunTypes'
  BY <1>9 DEF Drop, RunTypes
<1>10. ASSUME NEW r \in Runs, SocketCloses(r) PROVE RunTypes'
  BY <1>10 DEF SocketCloses, RunTypes
<1>11. CASE Disconnect
  BY <1>11 DEF Disconnect, CancelTask, Finish, ManagerTypes, RunTypes
<1>12. CASE DisconnectGoesOn
  BY <1>12 DEF DisconnectGoesOn, CancelTask, Finish, ManagerTypes, RunTypes
<1>13. CASE DisconnectReturns
  BY <1>13 DEF DisconnectReturns, RunTypes
<1>14. CASE GraceEnds
  BY <1>14 DEF GraceEnds, RunTypes
<1>15. CASE UNCHANGED vars
  BY <1>15 DEF vars, RunTypes
<1> QED BY <1>1, <1>2, <1>3, <1>4, <1>5, <1>6, <1>7, <1>8, <1>9, <1>10, <1>11, <1>12, <1>13,
           <1>14, <1>15 DEF Next, RunStep

LEMMA CountTypesStep == Types /\ [Next]_vars => CountTypes'
<1> SUFFICES ASSUME ManagerTypes, RunTypes, CountTypes, [Next]_vars PROVE CountTypes'
  BY DEF Types
<1> USE DEF config, mgrVars, runVars
<1>1. ASSUME NEW k \in Topics, Subscribe(k) PROVE CountTypes'
  BY <1>1 DEF Subscribe, Op, CountTypes
<1>2. ASSUME NEW k \in Topics, Unsubscribe(k) PROVE CountTypes'
  BY <1>2 DEF Unsubscribe, Op, CountTypes
<1>3. CASE RunSendTask
  BY <1>3 DEF RunSendTask, CountTypes
<1>4. ASSUME NEW r \in Runs, LoopHead(r) PROVE CountTypes'
  BY <1>4 DEF LoopHead, CountTypes
<1>5. ASSUME NEW r \in Runs, Connected(r) PROVE CountTypes'
  BY <1>5 DEF Connected, CountTypes
<1>6. ASSUME NEW r \in Runs, Resubscribe(r) PROVE CountTypes'
  BY <1>6 DEF Resubscribe, CountTypes
<1>7. ASSUME NEW r \in Runs, ConnectionEnds(r) PROVE CountTypes'
  BY <1>7 DEF ConnectionEnds, Retry, Counted, CountTypes
<1>8. ASSUME NEW r \in Runs, CancelArrives(r) PROVE CountTypes'
  BY <1>8 DEF CancelArrives, CountTypes
<1>9. ASSUME NEW r \in Runs, Drop(r) PROVE CountTypes'
  BY <1>9 DEF Drop, CountTypes
<1>10. ASSUME NEW r \in Runs, SocketCloses(r) PROVE CountTypes'
  BY <1>10 DEF SocketCloses, CountTypes
<1>11. CASE Disconnect
  <2>1. Op /\ UNCHANGED <<attempts, drops, maxAttempts>>
    BY <1>11 DEF Disconnect
  <2> QED BY <2>1 DEF Op, CountTypes
<1>12. CASE DisconnectGoesOn
  BY <1>12 DEF DisconnectGoesOn, CountTypes
<1>13. CASE DisconnectReturns
  BY <1>13 DEF DisconnectReturns, CountTypes
<1>14. CASE GraceEnds
  BY <1>14 DEF GraceEnds, CountTypes
<1>15. CASE UNCHANGED vars
  BY <1>15 DEF vars, CountTypes
<1> QED BY <1>1, <1>2, <1>3, <1>4, <1>5, <1>6, <1>7, <1>8, <1>9, <1>10, <1>11, <1>12, <1>13,
           <1>14, <1>15 DEF Next, RunStep

LEMMA TypesStep == Types /\ [Next]_vars => Types'
BY ManagerTypesStep, RunTypesStep, CountTypesStep DEF Types

LEMMA TypesHold == Spec => []Types
BY TypesInit, TypesStep, PTL DEF Spec

\* The manager, its tasks and connections stay within their types, and the attempts
\* within ws_reconnect_max_attempts.
THEOREM WsTypeCorrect == Spec => []WsTypeOK
<1>1. Types => WsTypeOK
  BY DEF Types, ManagerTypes, RunTypes, CountTypes, WsTypeOK, Frames, Names
<1> QED BY <1>1, TypesHold, PTL

---------------------------------------------------------------------------
(* The socket *)

LEMMA SocketStep == Types /\ ConnectedHasSocket /\ [Next]_vars => ConnectedHasSocket'
<1> SUFFICES ASSUME ManagerTypes, RunTypes, ConnectedHasSocket, [Next]_vars
             PROVE  ConnectedHasSocket'
  BY DEF Types
<1> USE DEF config, mgrVars, runVars, ConnectedHasSocket
<1>1. ASSUME NEW k \in Topics, Subscribe(k) PROVE ConnectedHasSocket'
  BY <1>1 DEF Subscribe, Connect, ManagerTypes, RunTypes
<1>2. ASSUME NEW k \in Topics, Unsubscribe(k) PROVE ConnectedHasSocket'
  BY <1>2 DEF Unsubscribe
<1>3. CASE RunSendTask
  BY <1>3 DEF RunSendTask
<1>4. ASSUME NEW r \in Runs, LoopHead(r) PROVE ConnectedHasSocket'
  BY <1>4 DEF LoopHead, Go, ManagerTypes, RunTypes
<1>5. ASSUME NEW r \in Runs, Connected(r) PROVE ConnectedHasSocket'
  BY <1>5 DEF Connected, Go, RunTypes
<1>6. ASSUME NEW r \in Runs, Resubscribe(r) PROVE ConnectedHasSocket'
  BY <1>6 DEF Resubscribe
<1>7. ASSUME NEW r \in Runs, ConnectionEnds(r) PROVE ConnectedHasSocket'
  BY <1>7 DEF ConnectionEnds, Retry
<1>8. ASSUME NEW r \in Runs, CancelArrives(r) PROVE ConnectedHasSocket'
  BY <1>8 DEF CancelArrives, Go, ManagerTypes, RunTypes
<1>9. ASSUME NEW r \in Runs, Drop(r) \/ SocketCloses(r) PROVE ConnectedHasSocket'
  BY <1>9 DEF Drop, SocketCloses
<1>10. CASE Disconnect
  BY <1>10 DEF Disconnect, CancelTask, Finish
<1>11. CASE DisconnectGoesOn \/ DisconnectReturns \/ GraceEnds
  BY <1>11 DEF DisconnectGoesOn, DisconnectReturns, GraceEnds, CancelTask, Finish
<1>12. CASE UNCHANGED vars
  BY <1>12 DEF vars
<1> QED BY <1>1, <1>2, <1>3, <1>4, <1>5, <1>6, <1>7, <1>8, <1>9, <1>10, <1>11, <1>12
        DEF Next, RunStep

\* subscribe() and unsubscribe() find a connection in _ws whenever the state is CONNECTED:
\* that of a run that is still to notice its end, however many runs share the two.
THEOREM ConnectedHasSocketCorrect == Spec => []ConnectedHasSocket
<1>1. Init => ConnectedHasSocket
  BY DEF Init, ConnectedHasSocket
<1> QED BY <1>1, SocketStep, TypesHold, PTL DEF Spec

---------------------------------------------------------------------------
(* The registry and the servers *)

LEMMA WireInvStep ==
  ASSUME DistinctNames, Types, ConnectedHasSocket, WireInv, [Next]_vars
  PROVE  WireInv'
<1> USE DEF config, mgrVars, runVars, Signable
<1>0. ManagerTypes /\ RunTypes
  BY DEF Types
<1>t. OnAir => ws \in Runs
  BY <1>0 DEF OnAir, ConnectedHasSocket, ManagerTypes
\* A step that leaves registry, frames and the servers alone.
<1>a. ASSUME UNCHANGED <<subs, queue, overtaken, wire, todo, account>>,
             OnAir' => OnAir /\ ws' = ws
      PROVE  WireInv'
  BY <1>a DEF WireInv, ServerAgrees, Keyed, SaysLast, LastOf
<1>1. ASSUME NEW k \in Topics, Subscribe(k) PROVE WireInv'
  <2> SUFFICES ASSUME OnAir' PROVE SaysLast(queue, subs, overtaken)' /\ ServerAgrees'
    BY DEF WireInv
  <2>1. cstate = "CONNECTED"
    BY <1>1 DEF Subscribe, Connect, OnAir
  <2>2. /\ ws # None /\ ws' = ws /\ run' = run /\ conn' = conn
        /\ queue' = Append(queue, <<"subscribe", k>>)
    BY <1>1, <2>1 DEF Subscribe, ConnectedHasSocket
  <2>3. /\ UNCHANGED <<wire, todo, overtaken, account>>
        /\ subs' = subs \cup {k}
    BY <1>1 DEF Subscribe
  <2>4. OnAir
    BY <2>1, <2>2 DEF OnAir
  <2>5. queue \in Seq(Frames) /\ SaysLast(queue, subs, overtaken)
    BY <1>0, <2>4 DEF ManagerTypes, WireInv
  <2>6. /\ SaysLast(queue', subs', overtaken)
        /\ \A j : ~Keyed(queue', j) => j # k /\ ~Keyed(queue, j)
    <3>1. (\A j \in Topics : j # k => (j \in subs' <=> j \in subs)) /\ k \in subs'
      BY <2>3
    <3> QED BY <2>2, <2>5, <3>1, AppendSays
  <2>7. ServerAgrees'
    BY <2>2, <2>3, <2>4, <2>6 DEF WireInv, ServerAgrees, Keyed
  <2> QED BY <2>3, <2>6, <2>7 DEF SaysLast, LastOf
<1>2. ASSUME NEW k \in Topics, Unsubscribe(k) PROVE WireInv'
  <2> SUFFICES ASSUME OnAir' PROVE SaysLast(queue, subs, overtaken)' /\ ServerAgrees'
    BY DEF WireInv
  <2>1. /\ UNCHANGED <<cstate, ws, run, conn, wire, todo, overtaken, account>>
        /\ subs' = subs \ {k}
    BY <1>2 DEF Unsubscribe
  <2>2. OnAir
    BY <2>1 DEF OnAir
  <2>3. queue' = Append(queue, <<"unsubscribe", k>>)
    BY <1>2, <2>2 DEF Unsubscribe, ConnectedHasSocket, OnAir
  <2>4. queue \in Seq(Frames) /\ SaysLast(queue, subs, overtaken)
    BY <1>0, <2>2 DEF ManagerTypes, WireInv
  <2>5. /\ SaysLast(queue', subs', overtaken)
        /\ \A j : ~Keyed(queue', j) => j # k /\ ~Keyed(queue, j)
    <3>1. (\A j \in Topics : j # k => (j \in subs' <=> j \in subs)) /\ k \notin subs'
      BY <2>1
    <3> QED BY <2>3, <2>4, <3>1, AppendSays
  <2>6. ServerAgrees'
    BY <2>1, <2>2, <2>5 DEF WireInv, ServerAgrees, Keyed
  <2> QED BY <2>1, <2>5, <2>6 DEF SaysLast, LastOf
<1>3. CASE RunSendTask
  <2> SUFFICES ASSUME OnAir' PROVE SaysLast(queue, subs, overtaken)' /\ ServerAgrees'
    BY DEF WireInv
  <2> DEFINE h == Head(queue)
  <2>1. /\ UNCHANGED <<cstate, ws, run, conn, subs, todo, overtaken, account>>
        /\ queue # <<>> /\ queue' = Tail(queue)
    BY <1>3 DEF RunSendTask
  <2>2. OnAir
    BY <2>1 DEF OnAir
  <2>3. /\ queue \in Seq(Frames) /\ SaysLast(queue, subs, overtaken) /\ ServerAgrees
        /\ ws \in Runs /\ ws # None /\ conn[ws] = "up" /\ wire \in [Runs -> SUBSET Names]
    BY <1>0, <1>t, <2>2 DEF ManagerTypes, RunTypes, WireInv, OnAir
  <2>4. h[1] \in {"subscribe", "unsubscribe"} /\ h[2] \in Topics
    BY <2>1, <2>3, Taken DEF Frames
  <2>5. /\ SaysLast(queue', subs, overtaken)
        /\ \A j : ~Keyed(queue', j) =>
             \/ ~Keyed(queue, j) /\ h[2] # j
             \/ h[2] = j /\ (j \notin overtaken => (h[1] = "subscribe" <=> j \in subs))
    BY <2>1, <2>3, TailSays
  <2>6. wire'[ws] = IF h[1] = "subscribe"
                    THEN IF h[2] \in subs /\ Signable(h[2])
                         THEN wire[ws] \cup {WireOf[h[2]]}
                         ELSE wire[ws]
                    ELSE wire[ws] \ {WireOf[h[2]]}
    BY <1>3, <2>3 DEF RunSendTask, SendSubscribe, SendUnsubscribe, PutOnWire, Named
  <2> HIDE DEF h
  <2>7. ASSUME NEW j \in Topics \ overtaken, ~Keyed(queue', j)
        PROVE  /\ j \in subs /\ Signable(j) => WireOf[j] \in wire'[ws] \/ j \in todo[ws]
               /\ j \notin subs => WireOf[j] \notin wire'[ws]
    <3>1. CASE ~Keyed(queue, j) /\ h[2] # j
      <4>1. WireOf[h[2]] # WireOf[j]
        BY <2>4, <3>1 DEF DistinctNames
      <4>2. /\ j \in subs /\ Signable(j) => WireOf[j] \in wire[ws] \/ j \in todo[ws]
            /\ j \notin subs => WireOf[j] \notin wire[ws]
        BY <2>3, <3>1 DEF ServerAgrees
      <4> QED BY <2>6, <4>1, <4>2
    <3>2. CASE h[2] = j /\ (h[1] = "subscribe" <=> j \in subs)
      BY <2>6, <3>2
    <3> QED BY <2>5, <2>7, <3>1, <3>2
  <2>8. ServerAgrees'
    BY <2>1, <2>7 DEF ServerAgrees, Keyed
  <2> QED BY <2>1, <2>5, <2>8 DEF SaysLast, LastOf
<1>4. ASSUME NEW r \in Runs, LoopHead(r) PROVE WireInv'
  <2>1. OnAir' => OnAir
    BY <1>0, <1>4 DEF LoopHead, Go, OnAir, ManagerTypes, RunTypes, ConnectedHasSocket
  <2> QED BY <1>4, <1>a, <2>1 DEF LoopHead
<1>5. ASSUME NEW r \in Runs, Connected(r) PROVE WireInv'
  <2>1. \A i \in 1..Len(queue) : queue[i][2] \in overtaken'
    <3>1. DOMAIN queue = 1..Len(queue)
      BY <1>0, InQueue DEF ManagerTypes
    <3> QED BY <1>5, <3>1 DEF Connected
  <2>2. /\ ws' = r /\ wire'[r] = {} /\ todo'[r] = subs /\ UNCHANGED <<subs, queue>>
    BY <1>0, <1>5 DEF Connected, RunTypes
  <2>3. SaysLast(queue, subs, overtaken)'
    BY <2>1, <2>2 DEF SaysLast
  <2>4. ServerAgrees'
    BY <2>2 DEF ServerAgrees
  <2> QED BY <2>3, <2>4 DEF WireInv
<1>6. ASSUME NEW r \in Runs, Resubscribe(r) PROVE WireInv'
  <2> SUFFICES ASSUME OnAir' PROVE SaysLast(queue, subs, overtaken)' /\ ServerAgrees'
    BY DEF WireInv
  <2>1. UNCHANGED <<cstate, ws, run, conn, subs, queue, overtaken, account>>
    BY <1>6 DEF Resubscribe
  <2>2. OnAir
    BY <2>1 DEF OnAir
  <2>3. /\ SaysLast(queue, subs, overtaken) /\ ServerAgrees
        /\ ws \in Runs /\ ws # None /\ conn[ws] = "up" /\ wire \in [Runs -> SUBSET Names]
        /\ todo \in [Runs -> SUBSET Topics]
    BY <1>0, <1>t, <2>2 DEF ManagerTypes, RunTypes, WireInv, OnAir
  <2>4. PICK k \in todo[r] : SendSubscribe(k) /\ todo' = [todo EXCEPT ![r] = @ \ {k}]
    BY <1>6 DEF Resubscribe
  <2>5. k \in Topics
    BY <2>3, <2>4
  <2>6. wire'[ws] = IF k \in subs /\ Signable(k) THEN wire[ws] \cup {WireOf[k]} ELSE wire[ws]
    BY <2>3, <2>4 DEF SendSubscribe, PutOnWire, Named
  <2>7. \A j : j # k /\ j \in todo[ws] => j \in todo'[ws]
    BY <2>3, <2>4
  <2>8. ASSUME NEW j \in Topics \ overtaken, ~Keyed(queue, j)
        PROVE  /\ j \in subs /\ Signable(j) => WireOf[j] \in wire'[ws] \/ j \in todo'[ws]
               /\ j \notin subs => WireOf[j] \notin wire'[ws]
    <3>1. /\ j \in subs /\ Signable(j) => WireOf[j] \in wire[ws] \/ j \in todo[ws]
          /\ j \notin subs => WireOf[j] \notin wire[ws]
      BY <2>3, <2>8 DEF ServerAgrees
    <3>2. CASE j = k
      BY <2>6, <3>1, <3>2
    <3>3. CASE j # k
      <4>1. WireOf[k] # WireOf[j]
        BY <2>5, <3>3 DEF DistinctNames
      <4> QED BY <2>6, <2>7, <3>1, <3>3, <4>1
    <3> QED BY <3>2, <3>3
  <2>9. ServerAgrees'
    BY <2>1, <2>8 DEF ServerAgrees, Keyed
  <2> QED BY <2>1, <2>3, <2>9 DEF SaysLast, LastOf
<1>7. ASSUME NEW r \in Runs, ConnectionEnds(r) PROVE WireInv'
  BY <1>7, <1>a DEF ConnectionEnds, Retry, OnAir
<1>8. ASSUME NEW r \in Runs, CancelArrives(r) PROVE WireInv'
  <2>1. OnAir' => OnAir /\ ws' = ws
    BY <1>0, <1>8 DEF CancelArrives, Go, OnAir, ManagerTypes, RunTypes, ConnectedHasSocket
  <2> QED BY <1>8, <1>a, <2>1 DEF CancelArrives
<1>9. ASSUME NEW r \in Runs, Drop(r) \/ SocketCloses(r) PROVE WireInv'
  <2>1. OnAir' => OnAir
    BY <1>0, <1>9 DEF Drop, SocketCloses, OnAir, ManagerTypes, RunTypes, ConnectedHasSocket
  <2> QED BY <1>9, <1>a, <2>1 DEF Drop, SocketCloses
<1>10. CASE Disconnect
  <2>1. OnAir' => OnAir /\ UNCHANGED subs
    BY <1>0, <1>10 DEF Disconnect, CancelTask, Finish, OnAir, ManagerTypes, RunTypes
  <2>2. UNCHANGED <<ws, todo, wire, queue, overtaken, account>>
    BY <1>10 DEF Disconnect
  <2> QED BY <2>1, <2>2 DEF WireInv, ServerAgrees, Keyed, SaysLast, LastOf
<1>11. CASE DisconnectGoesOn
  <2>1. OnAir' => OnAir /\ UNCHANGED subs
    BY <1>11 DEF DisconnectGoesOn, CancelTask, Finish, OnAir
  <2>2. UNCHANGED <<ws, todo, wire, queue, overtaken, account>>
    BY <1>11 DEF DisconnectGoesOn
  <2> QED BY <2>1, <2>2 DEF WireInv, ServerAgrees, Keyed, SaysLast, LastOf
<1>12. CASE DisconnectReturns
  BY <1>12 DEF DisconnectReturns, Finish, WireInv, OnAir
<1>13. CASE GraceEnds
  BY <1>13, <1>a DEF GraceEnds, OnAir
<1>14. CASE UNCHANGED vars
  BY <1>14, <1>a DEF vars, OnAir
<1> QED BY <1>1, <1>2, <1>3, <1>4, <1>5, <1>6, <1>7, <1>8, <1>9, <1>10, <1>11, <1>12, <1>13,
           <1>14 DEF Next, RunStep

\* Connected and with its frames sent, the server of _ws has subscribed the registered
\* topics whose frame can be signed and none that is not registered, whatever happened
\* during handshakes and re-subscriptions; but for those that had a frame on its way when
\* _ws was published.
THEOREM RegistryOnWireCorrect ==
  ASSUME DistinctNames
  PROVE  Spec => []RegistryOnWire
<1>1. Init => WireInv
  BY DEF Init, WireInv, OnAir
<1>2. Types /\ ConnectedHasSocket /\ WireInv /\ [Next]_vars => WireInv'
  BY WireInvStep
<1>3. Types /\ ConnectedHasSocket /\ WireInv => RegistryOnWire
  <2> SUFFICES ASSUME Types, ConnectedHasSocket, WireInv, Settled
               PROVE  /\ \A k \in subs \ overtaken : Signable(k) => WireOf[k] \in wire[ws]
                      /\ wire[ws] \subseteq {WireOf[k] : k \in subs \cup overtaken}
    BY DEF RegistryOnWire
  <2>1. OnAir /\ queue = <<>> /\ todo[ws] = {}
    BY DEF Settled, OnAir
  <2>2. \A k : ~Keyed(queue, k)
    BY <2>1 DEF Keyed
  <2>3. \A k \in Topics \ overtaken :
          /\ k \in subs /\ Signable(k) => WireOf[k] \in wire[ws]
          /\ WireOf[k] \in wire[ws] => k \in subs
    BY <2>1, <2>2 DEF WireInv, ServerAgrees
  <2>4. subs \subseteq Topics /\ wire[ws] \subseteq {WireOf[k] : k \in Topics}
    BY <2>1 DEF Types, ManagerTypes, RunTypes, OnAir, ConnectedHasSocket, Names
  <2> QED BY <2>3, <2>4
<1> QED BY <1>1, <1>2, <1>3, TypesHold, ConnectedHasSocketCorrect, PTL DEF Spec

=============================================================================
