------------------------- MODULE ClientStateProofs -------------------------
(***************************************************************************)
(* Proofs about ClientState, for any number of calls, versions and closes. *)
(*                                                                         *)
(* A call installs its providers once.  So if they are in place when its   *)
(* deployment has arrived, they were when it did, and every contract built *)
(* since is on them (BoundOK).  A call that nothing else touched has had   *)
(* the client for itself since it began (Alone), and what it has stored is *)
(* what the backend served it in that time (Fresh).                        *)
(***************************************************************************)
EXTENDS ClientState, TLAPS

Stages == {"idle", "asked", "served", "done", "dropped"}

Types ==
  /\ version \in 1 .. MaxVersion /\ closes \in 0 .. MaxCloses
  /\ phase \in [Calls -> {"idle", "environments", "fetching", "ok", "failed"}]
  /\ kind \in [Calls -> {"refresh", "forced", "read"}]
  /\ stage \in [Calls -> [Parts -> Stages]]
  /\ answer \in [Calls -> [Parts -> 0 .. MaxVersion]]
  /\ provider \in Calls \cup {NoCall} /\ bound \in Calls \cup {NoCall}
  /\ tokens \in [Symbols -> 0 .. MaxVersion] /\ deployed \in 0 .. MaxVersion /\ envCache \in 0 .. MaxVersion
  /\ session \in {"open", "shut", "none"} /\ closer \in {"idle", "forgetting"}
  /\ since \in [Calls -> 0 .. MaxVersion]
  /\ company \in [Calls -> {"none", "orphans", "calls"}]

\* How far a call is, fetch by fetch: a gather begins when the environments are in place,
\* and leaves its fetches behind when one of them fails.
Shape(c) ==
  \/ phase[c] = "idle" /\ \A p \in Parts : stage[c][p] = "idle"
  \/ /\ phase[c] = "environments" /\ stage[c]["env"] \in {"asked", "served"}
     /\ \A p \in Gathered : stage[c][p] = "idle"
  \/ /\ phase[c] = "fetching" /\ stage[c]["env"] = "done" /\ kind[c] # "read"
     /\ \A p \in Gathered : stage[c][p] \in {"asked", "served", "done"}
  \/ /\ phase[c] = "ok" /\ stage[c]["env"] = "done"
     /\ \A p \in Gathered : stage[c][p] = IF kind[c] = "read" THEN "idle" ELSE "done"
  \/ /\ phase[c] = "failed" /\ stage[c]["env"] = "dropped"
     /\ \A p \in Gathered : stage[c][p] = "idle"
  \/ /\ phase[c] = "failed" /\ stage[c]["env"] = "done" /\ kind[c] # "read"
     /\ \A p \in Gathered : stage[c][p] # "idle"

\* The providers in place are those of a call that has installed them; once its
\* deployment has arrived, the contract is on them.
BoundOK(c) ==
  provider = c =>
    /\ stage[c]["env"] \in {"done", "dropped"}
    /\ stage[c]["deploy"] = "done" => bound = c

\* A call in no company: no close is under way, and no other call has anything running.
Alone(c) ==
  company[c] = "none" /\ phase[c] # "idle" =>
    /\ closer = "idle"
    /\ \A d \in Calls \ {c} : ~Busy(d) /\ \A p \in Parts : ~Running(d, p)

\* token_data has what a version no older than the call lists.
HasTokens(c) == \E v \in 1 .. MaxVersion : v >= since[c] /\ TokensOf(v)

\* What such a call was served, and what it has stored.
Fresh(c) ==
  /\ since[c] <= version
  /\ phase[c] # "idle" => since[c] >= 1
  /\ company[c] = "none" /\ phase[c] # "idle" /\ kind[c] # "read" =>
       /\ \A p \in Parts : stage[c][p] = "served" => answer[c][p] >= since[c]
       /\ stage[c]["env"] = "done" => provider = c /\ answer[c]["env"] >= since[c]
       /\ stage[c]["tokens"] = "done" => HasTokens(c)
       /\ stage[c]["deploy"] = "done" => deployed >= since[c]

ClientInv ==
  Types /\ \A c \in Calls : Shape(c) /\ BoundOK(c) /\ Alone(c) /\ Fresh(c)

---------------------------------------------------------------------------
LEMMA ClientInvInit == Init => ClientInv
<1> SUFFICES ASSUME Init PROVE ClientInv
  OBVIOUS
<1>1. Types
  BY ClientAssumption DEF Init, Types, Stages
<1>2. ASSUME NEW c \in Calls PROVE Shape(c) /\ BoundOK(c) /\ Alone(c) /\ Fresh(c)
  BY ClientAssumption DEF Init, Shape, BoundOK, Alone, Fresh, Parts, Gathered
<1> QED BY <1>1, <1>2 DEF ClientInv

---------------------------------------------------------------------------
(* Types *)

LEMMA TypesStep == Types /\ [Next]_vars => Types'
<1> SUFFICES ASSUME Types, [Next]_vars PROVE Types'
  OBVIOUS
<1> USE ClientAssumption DEF Types, Stages, Parts, callVars, dataVars, closeVars, history
<1>1. ASSUME NEW c \in Calls, Joins(c)
      PROVE  since' \in [Calls -> 0 .. MaxVersion] /\ company' \in [Calls -> {"none", "orphans", "calls"}]
  BY <1>1 DEF Joins
<1>2. ASSUME NEW c \in Calls, Begin(c) PROVE Types'
  <2>1. PICK k \in {"refresh", "forced"} :
          kind' = [kind EXCEPT ![c] = k] /\ envCache' = IF k = "forced" THEN 0 ELSE envCache
    BY <1>2 DEF Begin
  <2>2. kind' \in [Calls -> {"refresh", "forced", "read"}] /\ envCache' \in 0 .. MaxVersion
    BY <2>1
  <2>3. stage' \in [Calls -> [Parts -> Stages]]
    BY <1>2 DEF Begin
  <2>4. phase' \in [Calls -> {"idle", "environments", "fetching", "ok", "failed"}]
        /\ session' = "open" /\ UNCHANGED <<version, answer, provider, bound, dataVars, closer, closes>>
    BY <1>2 DEF Begin, Connect
  <2> QED BY <1>1, <1>2, <2>2, <2>3, <2>4 DEF Begin
<1>3. ASSUME NEW c \in Calls, Read(c) PROVE Types'
  BY <1>1, <1>3 DEF Read
<1>4. ASSUME NEW c \in Calls, ReadCached(c) PROVE Types'
  BY <1>1, <1>4 DEF ReadCached
<1>5. ASSUME NEW c \in Calls, NEW p \in Parts, Serve(c, p) PROVE Types'
  BY <1>5 DEF Serve
<1>6. ASSUME NEW c \in Calls, EnvironmentsArrive(c) PROVE Types'
  <2>1. CASE kind[c] = "read"
    <3>1. stage' \in [Calls -> [Parts -> Stages]]
      <4>1. stage' = [stage EXCEPT ![c]["env"] = "done"]
        BY <1>6, <2>1 DEF EnvironmentsArrive
      <4> QED BY <4>1
    <3>2. envCache' \in 0 .. MaxVersion
      BY <1>6, <2>1 DEF EnvironmentsArrive
    <3> QED BY <1>6, <2>1, <3>1, <3>2 DEF EnvironmentsArrive
  <2>2. CASE kind[c] # "read"
    <3>1. PICK st \in [Parts -> Stages] : stage' = [stage EXCEPT ![c] = st]
      BY <1>6, <2>2 DEF EnvironmentsArrive
    <3>2. PICK ph \in {"fetching", "failed"} : phase' = [phase EXCEPT ![c] = ph]
      BY <1>6, <2>2 DEF EnvironmentsArrive
    <3> QED BY <1>6, <2>2, <3>1, <3>2 DEF EnvironmentsArrive
  <2> QED BY <2>1, <2>2
<1>7. ASSUME NEW c \in Calls, EnvironmentsRejected(c) PROVE Types'
  BY <1>7 DEF EnvironmentsRejected
<1>8. ASSUME NEW c \in Calls, TokensArrive(c) PROVE Types'
  BY <1>8 DEF TokensArrive, Arrives, Ends
<1>9. ASSUME NEW c \in Calls, DeploymentArrives(c) PROVE Types'
  BY <1>9 DEF DeploymentArrives, Arrives, Ends
<1>10. ASSUME NEW c \in Calls, NEW p \in Parts, FetchFails(c, p) PROVE Types'
  BY <1>10 DEF FetchFails
<1>11. ASSUME NEW c \in Calls, Cancel(c) PROVE Types'
  BY <1>11 DEF Cancel
<1>12. CASE Publish
  BY <1>12 DEF Publish
<1>13. CASE Close
  BY <1>13 DEF Close
<1>14. CASE CloseForgets
  BY <1>14 DEF CloseForgets
<1>15. CASE UNCHANGED vars
  BY <1>15 DEF vars
<1> QED
  BY <1>2, <1>3, <1>4, <1>5, <1>6, <1>7, <1>8, <1>9, <1>10, <1>11, <1>12, <1>13, <1>14, <1>15
     DEF Next, FetchEnds, Finished

---------------------------------------------------------------------------
(* How far the calls are *)

LEMMA ShapeStep ==
  ASSUME Types, \A c \in Calls : Shape(c), [Next]_vars, NEW e \in Calls
  PROVE  Shape(e)'
<1> USE DEF Types, Parts, Gathered
<1>1. ASSUME UNCHANGED <<phase, kind, stage>> PROVE Shape(e)'
  BY <1>1 DEF Shape
<1>2. ASSUME NEW c \in Calls, Begin(c) PROVE Shape(e)'
  BY <1>2 DEF Begin, Shape
<1>3. ASSUME NEW c \in Calls, Read(c) PROVE Shape(e)'
  BY <1>3 DEF Read, Shape
<1>4. ASSUME NEW c \in Calls, ReadCached(c) PROVE Shape(e)'
  BY <1>4 DEF ReadCached, Shape
<1>5. ASSUME NEW c \in Calls, NEW p \in Parts, Serve(c, p) PROVE Shape(e)'
  BY <1>5 DEF Serve, Shape
<1>6. ASSUME NEW c \in Calls, EnvironmentsArrive(c) PROVE Shape(e)'
  <2>1. CASE kind[c] = "read"
    BY <1>6, <2>1 DEF EnvironmentsArrive, Shape
  <2>2. CASE kind[c] # "read"
    BY <1>6, <2>2 DEF EnvironmentsArrive, Shape
  <2> QED BY <2>1, <2>2
<1>7. ASSUME NEW c \in Calls, EnvironmentsRejected(c) PROVE Shape(e)'
  BY <1>7 DEF EnvironmentsRejected, Shape
<1>8. ASSUME NEW c \in Calls, NEW p \in Gathered, Arrives(c, p) PROVE Shape(e)'
  BY <1>8 DEF Arrives, Ends, Shape, callVars
<1>9. ASSUME NEW c \in Calls, NEW p \in Parts, FetchFails(c, p) PROVE Shape(e)'
  BY <1>9 DEF FetchFails, Running, Busy, Shape
<1>10. ASSUME NEW c \in Calls, Cancel(c) PROVE Shape(e)'
  BY <1>10 DEF Cancel, Running, Busy, Shape
<1>11. CASE Close
  BY <1>11 DEF Close, Busy, Shape
<1> QED
  BY <1>1, <1>2, <1>3, <1>4, <1>5, <1>6, <1>7, <1>8, <1>9, <1>10, <1>11
     DEF Next, FetchEnds, TokensArrive, DeploymentArrives, Publish, CloseForgets, Finished, vars,
         callVars

---------------------------------------------------------------------------
(* The contract is on the providers in place *)

LEMMA BoundStep ==
  ASSUME Types, \A c \in Calls : Shape(c) /\ BoundOK(c), [Next]_vars, NEW e \in Calls
  PROVE  BoundOK(e)'
<1> USE ClientAssumption DEF Types, Parts, Gathered
<1>1. ASSUME UNCHANGED <<provider, bound, stage>> PROVE BoundOK(e)'
  BY <1>1 DEF BoundOK
<1>2. ASSUME NEW c \in Calls, Begin(c) PROVE BoundOK(e)'
  BY <1>2 DEF Begin, Shape, BoundOK
<1>3. ASSUME NEW c \in Calls, Read(c) PROVE BoundOK(e)'
  BY <1>3 DEF Read, Shape, BoundOK
<1>4. ASSUME NEW c \in Calls, ReadCached(c) PROVE BoundOK(e)'
  BY <1>4 DEF ReadCached, Shape, BoundOK
<1>5. ASSUME NEW c \in Calls, NEW p \in Parts, Serve(c, p) PROVE BoundOK(e)'
  BY <1>5 DEF Serve, BoundOK
<1>6. ASSUME NEW c \in Calls, EnvironmentsArrive(c) PROVE BoundOK(e)'
  <2>1. CASE kind[c] = "read"
    BY <1>6, <2>1 DEF EnvironmentsArrive, Shape, BoundOK
  <2>2. CASE kind[c] # "read"
    BY <1>6, <2>2 DEF EnvironmentsArrive, BoundOK
  <2> QED BY <2>1, <2>2
<1>7. ASSUME NEW c \in Calls, EnvironmentsRejected(c) PROVE BoundOK(e)'
  BY <1>7 DEF EnvironmentsRejected, Shape, BoundOK
<1>8. ASSUME NEW c \in Calls, TokensArrive(c) PROVE BoundOK(e)'
  BY <1>8 DEF TokensArrive, Arrives, Ends, BoundOK
<1>9. ASSUME NEW c \in Calls, DeploymentArrives(c) PROVE BoundOK(e)'
  BY <1>9 DEF DeploymentArrives, Arrives, Ends, BoundOK
<1>10. ASSUME NEW c \in Calls, NEW p \in Parts, FetchFails(c, p) PROVE BoundOK(e)'
  BY <1>10 DEF FetchFails, Running, BoundOK
<1>11. ASSUME NEW c \in Calls, Cancel(c) PROVE BoundOK(e)'
  BY <1>11 DEF Cancel, Running, BoundOK
<1>12. CASE Close
  BY <1>12 DEF Close, BoundOK
<1> QED
  BY <1>1, <1>2, <1>3, <1>4, <1>5, <1>6, <1>7, <1>8, <1>9, <1>10, <1>11, <1>12
     DEF Next, FetchEnds, Publish, CloseForgets, Finished, vars, callVars

---------------------------------------------------------------------------
(* A call in no company has the client for itself *)

\* A call that begins is company to the others, and finds those that run.
LEMMA JoinsAlone ==
  ASSUME Types, NEW c \in Calls, Joins(c), closer' = closer, NEW e \in Calls,
         \A d \in Calls \ {c} : phase'[d] = phase[d] /\ stage'[d] = stage[d],
         company'[e] = "none"
  PROVE  /\ e = c
         /\ closer' = "idle" /\ \A d \in Calls \ {c} : ~Busy(d)' /\ \A p \in Parts : ~Running(d, p)'
<1>1. e = c
  BY DEF Joins, Types
<1>2. closer = "idle" /\ (\A b \in Calls \ {c} : ~Busy(b)) /\ (\A b \in Calls : ~Orphaned(b))
  BY <1>1 DEF Joins, Types
<1> QED BY <1>1, <1>2 DEF Orphaned, Busy, Running

LEMMA AloneStep ==
  ASSUME Types, \A c \in Calls : Shape(c) /\ Alone(c), [Next]_vars, NEW e \in Calls
  PROVE  Alone(e)'
<1> USE DEF Types, Parts, Gathered
<1>1. ASSUME UNCHANGED <<company, phase, stage>>, closer' = closer \/ closer = "forgetting"
      PROVE  Alone(e)'
  BY <1>1 DEF Alone, Busy, Running
<1>2. ASSUME NEW c \in Calls, Begin(c) \/ Read(c) \/ ReadCached(c) PROVE Alone(e)'
  <2>1. /\ Joins(c) /\ closer' = closer
        /\ \A d \in Calls \ {c} : phase'[d] = phase[d] /\ stage'[d] = stage[d]
    BY <1>2 DEF Begin, Read, ReadCached, closeVars
  <2> QED BY <2>1, JoinsAlone DEF Alone
\* The calls that are not alone are company to none.
<1>3. ASSUME NEW c \in Calls, Busy(c) \/ \E p \in Parts : Running(c, p),
             closer' = closer, company' = company, \A d \in Calls : phase[d] = "idle" => phase'[d] = "idle",
             \A d \in Calls \ {c} : phase'[d] = phase[d] /\ stage'[d] = stage[d]
      PROVE  Alone(e)'
  BY <1>3 DEF Alone, Busy, Running
<1>4. ASSUME NEW c \in Calls, NEW p \in Parts, Serve(c, p) PROVE Alone(e)'
  BY <1>3, <1>4 DEF Serve, Running, closeVars, history
<1>5. ASSUME NEW c \in Calls, EnvironmentsArrive(c) PROVE Alone(e)'
  <2>1. phase[c] # "idle" /\ Running(c, "env")
    BY <1>5 DEF EnvironmentsArrive, Shape, Running
  <2> QED BY <1>3, <1>5, <2>1 DEF EnvironmentsArrive, closeVars, history
<1>6. ASSUME NEW c \in Calls, EnvironmentsRejected(c) PROVE Alone(e)'
  <2>1. phase[c] # "idle" /\ Running(c, "env")
    BY <1>6 DEF EnvironmentsRejected, Shape, Running
  <2> QED BY <1>3, <1>6, <2>1 DEF EnvironmentsRejected, closeVars, history
<1>7. ASSUME NEW c \in Calls, NEW p \in Gathered, Arrives(c, p) PROVE Alone(e)'
  <2>1. phase[c] # "idle" /\ Running(c, p)
    BY <1>7 DEF Arrives, Shape, Running
  <2> QED BY <1>3, <1>7, <2>1 DEF Arrives, Ends, closeVars, history
<1>8. ASSUME NEW c \in Calls, NEW p \in Parts, FetchFails(c, p) PROVE Alone(e)'
  <2>1. phase[c] # "idle" /\ Running(c, p)
    BY <1>8 DEF FetchFails, Shape, Running
  <2> QED BY <1>3, <1>8, <2>1 DEF FetchFails, closeVars, history
<1>9. ASSUME NEW c \in Calls, Cancel(c) PROVE Alone(e)'
  <2>1. phase[c] # "idle" /\ Busy(c)
    BY <1>9 DEF Cancel, Busy
  <2> QED BY <1>3, <1>9, <2>1 DEF Cancel, closeVars, history
<1>10. CASE Close
  BY <1>10 DEF Close, Alone
<1> QED
  BY <1>1, <1>2, <1>4, <1>5, <1>6, <1>7, <1>8, <1>9, <1>10
     DEF Next, FetchEnds, TokensArrive, DeploymentArrives, Publish, CloseForgets, Finished, vars,
         callVars, closeVars, history

---------------------------------------------------------------------------
(* What a call in no company has stored *)

LEMMA FreshStep ==
  ASSUME Types, \A c \in Calls : Shape(c) /\ Alone(c) /\ Fresh(c), [Next]_vars, NEW e \in Calls
  PROVE  Fresh(e)'
<1> USE ClientAssumption DEF Types, Parts, Gathered
<1>t. UNCHANGED <<tokens, since>> => (HasTokens(e)' <=> HasTokens(e))
  BY DEF HasTokens, TokensOf
\* Beside a call in no company nothing runs.
<1>0. ASSUME company[e] = "none", phase[e] # "idle", NEW c \in Calls,
             Busy(c) \/ \E p \in Parts : Running(c, p)
      PROVE  c = e
  BY <1>0 DEF Alone
<1>1. ASSUME NEW c \in Calls, Begin(c) \/ Read(c) \/ ReadCached(c) PROVE Fresh(e)'
  <2>1. /\ Joins(c) /\ closer' = closer /\ version' = version
        /\ \A d \in Calls \ {c} : phase'[d] = phase[d] /\ stage'[d] = stage[d]
    BY <1>1 DEF Begin, Read, ReadCached, closeVars
  <2>2. since'[e] <= version' /\ (phase'[e] # "idle" => since'[e] >= 1)
    BY <2>1 DEF Joins, Fresh
  <2>3. CASE company'[e] = "none" /\ kind'[e] # "read"
    <3>1. e = c
      BY <2>1, <2>3, JoinsAlone
    <3>2. Begin(c)
      BY <1>1, <2>3, <3>1 DEF Read, ReadCached
    <3>3. stage'[e]["env"] = "asked" /\ \A p \in Gathered : stage'[e][p] = "idle"
      BY <3>1, <3>2 DEF Begin, Shape
    <3> QED BY <2>2, <3>3 DEF Fresh
  <2>4. CASE ~(company'[e] = "none" /\ kind'[e] # "read")
    BY <2>2, <2>4 DEF Fresh
  <2> QED BY <2>3, <2>4
<1>2. ASSUME NEW c \in Calls, NEW p \in Parts, Serve(c, p) PROVE Fresh(e)'
  BY <1>2, <1>t DEF Serve, Fresh, dataVars, history
<1>3. ASSUME NEW c \in Calls, EnvironmentsArrive(c) PROVE Fresh(e)'
  <2>1. Running(c, "env")
    BY <1>3 DEF EnvironmentsArrive, Running
  <2>2. CASE kind[c] = "read"
    BY <1>0, <1>3, <1>t, <2>1, <2>2 DEF EnvironmentsArrive, Shape, Fresh, dataVars, history
  <2>3. CASE kind[c] # "read"
    BY <1>0, <1>3, <1>t, <2>1, <2>3 DEF EnvironmentsArrive, Shape, Fresh, dataVars, history
  <2> QED BY <2>2, <2>3
<1>4. ASSUME NEW c \in Calls, EnvironmentsRejected(c) PROVE Fresh(e)'
  <2>1. Running(c, "env")
    BY <1>4 DEF EnvironmentsRejected, Running
  <2> QED BY <1>0, <1>4, <1>t, <2>1 DEF EnvironmentsRejected, Shape, Fresh, dataVars, history
<1>5. ASSUME NEW c \in Calls, TokensArrive(c) PROVE Fresh(e)'
  <2>1. Running(c, "tokens") /\ phase[c] # "idle" /\ (phase'[e] # "idle" => phase[e] # "idle")
    BY <1>5 DEF TokensArrive, Arrives, Ends, Running, Shape
  <2>2. UNCHANGED <<since, company, kind, version>>
    BY <1>5 DEF TokensArrive, Arrives, Ends, history
  <2>3. since'[e] <= version' /\ (phase'[e] # "idle" => since'[e] >= 1)
    BY <2>1, <2>2 DEF Fresh
  <2>4. CASE company[e] = "none" /\ phase[e] # "idle" /\ kind[e] # "read"
    <3>1. c = e
      BY <1>0, <2>1, <2>4
    <3>2. PICK v \in 1 .. MaxVersion : v = answer[e]["tokens"]
      BY <1>5, <2>4, <3>1 DEF TokensArrive, Arrives, Fresh
    <3>3. Lists[v] \subseteq Symbols
      BY ListsAssumption
    <3>4. TokensOf(v)'
      <4>1. tokens' = [s \in Symbols |-> IF s \in Lists[v] THEN v ELSE tokens[s]]
        BY <1>5, <3>1, <3>2 DEF TokensArrive
      <4> QED BY <3>3, <4>1 DEF TokensOf
    <3>5. HasTokens(e)'
      <4>1. v >= since[e]
        BY <1>5, <2>4, <3>1, <3>2 DEF TokensArrive, Arrives, Fresh
      <4> QED BY <2>2, <3>4, <4>1 DEF HasTokens
    <3>6. /\ UNCHANGED <<provider, deployed>>
          /\ \A p \in {"env", "deploy"} : stage'[e][p] = stage[e][p] /\ answer'[e][p] = answer[e][p]
          /\ stage'[e]["tokens"] = "done"
      BY <1>5, <3>1 DEF TokensArrive, Arrives, Ends
    <3> QED BY <2>2, <2>3, <2>4, <3>5, <3>6 DEF Fresh
  <2>5. CASE ~(company[e] = "none" /\ phase[e] # "idle" /\ kind[e] # "read")
    BY <2>1, <2>2, <2>3, <2>5 DEF Fresh
  <2> QED BY <2>4, <2>5
<1>6. ASSUME NEW c \in Calls, DeploymentArrives(c) PROVE Fresh(e)'
  <2>1. Running(c, "deploy")
    BY <1>6 DEF DeploymentArrives, Arrives, Running
  <2> QED BY <1>0, <1>6, <1>t, <2>1 DEF DeploymentArrives, Arrives, Ends, Shape, Fresh, history
<1>7. ASSUME NEW c \in Calls, NEW p \in Parts, FetchFails(c, p) PROVE Fresh(e)'
  BY <1>7, <1>t DEF FetchFails, Running, Shape, Fresh, Busy, dataVars, history
<1>8. ASSUME NEW c \in Calls, Cancel(c) PROVE Fresh(e)'
  BY <1>8, <1>t DEF Cancel, Running, Busy, Fresh, dataVars, history
<1>9. CASE Publish
  BY <1>9, <1>t DEF Publish, Fresh, callVars, dataVars, history
<1>10. CASE Close
  <2>1. company'[e] = "calls" /\ UNCHANGED <<since, version>>
    BY <1>10 DEF Close
  <2>2. phase'[e] # "idle" => phase[e] # "idle"
    BY <1>10 DEF Close, Busy
  <2> QED BY <2>1, <2>2 DEF Fresh
<1>11. CASE CloseForgets
  BY <1>11, <1>t DEF CloseForgets, Fresh, callVars, dataVars, history
<1>12. CASE UNCHANGED vars
  BY <1>12, <1>t DEF vars, Fresh, callVars, dataVars, history
<1> QED
  BY <1>1, <1>2, <1>3, <1>4, <1>5, <1>6, <1>7, <1>8, <1>9, <1>10, <1>11, <1>12
     DEF Next, FetchEnds, Finished

---------------------------------------------------------------------------
(* The theorems *)

LEMMA ClientInvStep == ClientInv /\ [Next]_vars => ClientInv'
BY TypesStep, ShapeStep, BoundStep, AloneStep, FreshStep DEF ClientInv

THEOREM ClientInvCorrect == Spec => []ClientInv
BY ClientInvInit, ClientInvStep, PTL DEF Spec

\* The variables keep their types, and a call is as far as its fetches are.
THEOREM ClientTypeCorrect == Spec => []ClientTypeOK
<1>1. ClientInv => ClientTypeOK
  BY DEF ClientInv, Types, Stages, Shape, ClientTypeOK, Parts, Gathered, Orphaned, Busy, Running
<1> QED BY <1>1, ClientInvCorrect, PTL

\* When the providers in place are those of a refresh that succeeded, the contract was
\* built on them, whatever other refreshes, orphaned fetches and closes came in between.
THEOREM ContractsFollowCorrect == Spec => []ContractsFollowProviders
<1>1. ClientInv => ContractsFollowProviders
  BY ClientAssumption
     DEF ClientInv, Types, Shape, BoundOK, ContractsFollowProviders, Parts, Gathered
<1> QED BY <1>1, ClientInvCorrect, PTL

\* A refresh that succeeded and that nothing disturbed leaves the providers, the deployments
\* and every token the backend lists at least as new as the backend was when it began, the
\* tokens all of one version.
THEOREM RefreshTakesEffectCorrect == Spec => []RefreshTakesEffect
<1>1. ClientInv => RefreshTakesEffect
  BY DEF ClientInv, Types, Shape, Fresh, HasTokens, RefreshTakesEffect, HoldsSince, Parts,
         Gathered
<1> QED BY <1>1, ClientInvCorrect, PTL
=============================================================================
