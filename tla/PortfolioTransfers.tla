------------------------- MODULE PortfolioTransfers -------------------------
(***************************************************************************)
(* core/transfer.py: what the methods that move tokens send.  A transfer   *)
(* names a token, an amount and perhaps a chain; the SDK turns the amount  *)
(* into base units with the decimals of one of the token's listings, and   *)
(* the contract moves what it is told to.  Nonce, fees, allowances and     *)
(* receipts are those of TxPipeline and Allowances.                        *)
(***************************************************************************)
EXTENDS Balances, Integers

CONSTANTS
  IcmChains,  \* chains of the ICM bridge
  Slack       \* bound on what two amounts that are equal as floats differ by

ASSUME SlackAssumption == Slack \in Nat

VARIABLES
  quantity, bridge,  \* the base units and the bridge of a transfer
  sent      \* the transaction broadcast, or None

transferVars == <<quantity, bridge, sent>>

Moves == {"add_gas", "remove_gas", "transfer_portfolio", "transfer_token", "deposit", "withdraw"}

TransferInit ==
  /\ quantity = [k \in Calls |-> None] /\ bridge = [k \in Calls |-> None]
  /\ sent = [k \in Calls |-> None]

-----------------------------------------------------------------------------
(* The decimals of the amount *)

\* _resolve_deposit_decimals: the L1 vouches, with 18 decimals, for a token that the
\* client's own chain does not list.
DepositDecimals(t) ==
  IF OnOwnChain(t) = None /\ Decimals(t, L1) # None THEN Default ELSE OnOwnChain(t)

\* Mutant: a withdrawal is encoded with the decimals of the L1.
UnitsBySubnet(q, c) ==
  CASE q.kind \in {"add_gas", "remove_gas"} -> Default
    [] q.kind \in {"transfer_portfolio", "withdraw"} -> OrDefault(Decimals(q.token, L1))
    [] q.kind = "transfer_token" -> PortfolioUnits(q.token)
    [] q.kind = "deposit" -> DepositDecimals(q.token)

\* The decimals the amount is encoded with; None when the method refuses the token.
Units(q, c) ==
  CASE q.kind \in {"add_gas", "remove_gas"} -> Default
    [] q.kind = "transfer_portfolio" -> OrDefault(Decimals(q.token, L1))
    [] q.kind = "transfer_token" -> PortfolioUnits(q.token)
    [] q.kind = "withdraw" -> Decimals(q.token, c)
    [] q.kind = "deposit" -> DepositDecimals(q.token)

-----------------------------------------------------------------------------
(* A transfer *)

\* Mutant: a deposit goes to whatever chain the reference names.
OnChainAnywhere(q, r) == r.ok

\* A deposit is only made on the client's own chain.
OnChain(q, r) == r.ok /\ (q.kind = "deposit" => r.chain.id = active)

\* The first part of a method, up to what it awaits first.
Transfer(k, q) ==
  /\ phase[k] = "idle" /\ q.kind \in Moves
  /\ LET r == Resolve(config, q.ref, active, FALSE)
         named == q.kind \in {"deposit", "withdraw"}
         c == IF named /\ OnChain(q, r) THEN r.chain ELSE None
         u == IF named /\ c = None THEN None ELSE Units(q, c) IN
     /\ ask' = [ask EXCEPT ![k] = q]
     /\ who' = [who EXCEPT ![k] = account]
     /\ Begins(k, Len(shelf))
     /\ chain' = [chain EXCEPT ![k] = c]
     /\ IF u = None
        THEN End(k, Failed) /\ UNCHANGED <<todo, quantity, bridge>>
        ELSE /\ quantity' = [quantity EXCEPT ![k] = ToBase(q.amount, u)]
             /\ bridge' = [bridge EXCEPT ![k] =
                  IF ~named THEN None ELSE IF c \in IcmChains /\ ~q.lz THEN "icm" ELSE "lz"]
             /\ IF q.kind = "transfer_portfolio"
                THEN /\ todo' = [todo EXCEPT ![k] = {<<Portfolio, q.token>>}]
                     /\ phase' = [phase EXCEPT ![k] = "reading"]
                ELSE UNCHANGED todo /\ phase' = [phase EXCEPT ![k] = "sending"]
             /\ UNCHANGED answer
  /\ UNCHANGED <<worldVars, cacheVars, units, rows, batch, sent>>

\* Mutant: the balance is read and not compared.
SufficesRead(k, p, off) == rows[k][p].ok

Suffices(k, p, off) == rows[k][p].ok /\ rows[k][p].value + off >= ask[k].amount

\* transfer_portfolio compares, as floats, the balance it read, which may be some seconds
\* old, and the amount.
CheckBalance(k) ==
  /\ phase[k] = "reading" /\ todo[k] = {} /\ ask[k].kind = "transfer_portfolio"
  /\ \E off \in (-Slack)..Slack :
       IF Suffices(k, <<Portfolio, ask[k].token>>, off)
       THEN phase' = [phase EXCEPT ![k] = "sending"] /\ UNCHANGED answer
       ELSE End(k, Failed)
  /\ UNCHANGED <<worldVars, cacheVars, ask, chain, who, todo, units, rows, batch, began,
                 transferVars>>

\* Where a transfer takes from.
Source(k) ==
  CASE ask[k].kind \in {"transfer_portfolio", "transfer_token", "withdraw"} ->
         <<Portfolio, ask[k].token>>
    [] ask[k].kind = "add_gas" -> <<Portfolio, "ALOT">>
    [] ask[k].kind = "remove_gas" -> <<L1, "ALOT">>
    [] ask[k].kind = "deposit" -> <<chain[k], ask[k].token>>

\* ... and where what it took is at once: the rest is over a bridge.
Credited(k, a, p) ==
  \/ ask[k].kind \in {"transfer_portfolio", "transfer_token"} /\ a = ask[k].to /\ p = Source(k)
  \/ ask[k].kind = "add_gas" /\ a = who[k] /\ p = <<L1, "ALOT">>
  \/ ask[k].kind = "remove_gas" /\ a = who[k] /\ p = <<Portfolio, "ALOT">>

\* transfer_portfolio and deposit leave it to the signature who pays; the others name the
\* account they began with, which the contract wants to be the signer.
NamesPayer(k) == ask[k].kind \notin {"transfer_portfolio", "deposit"}

\* The transaction is signed by the account there is by now, sent and mined: it moves what
\* it says, or reverts.
Send(k) ==
  /\ phase[k] = "sending"
  /\ LET covered == /\ NamesPayer(k) => who[k] = account
                    /\ ledger[account][Source(k)] >= quantity[k]
         out(a, p) == IF a = account /\ p = Source(k) THEN quantity[k] ELSE 0
         in(a, p) == IF Credited(k, a, p) THEN quantity[k] ELSE 0 IN
     /\ sent' = [sent EXCEPT ![k] = [from |-> account, place |-> Source(k),
                                     quantity |-> quantity[k], moved |-> covered]]
     /\ ledger' = IF ~covered THEN ledger ELSE
          [a \in Accounts |-> [p \in Places |-> ledger[a][p] - out(a, p) + in(a, p)]]
     /\ had' = [a \in Accounts |-> [p \in Places |-> had[a][p] \cup {ledger'[a][p]}]]
     /\ End(k, [ok |-> covered])
  /\ UNCHANGED <<config, active, listing, account, shelf, changes, worth, cacheVars, ask,
                 chain, who, todo, units, rows, batch, began, quantity, bridge>>

\* A step of the transaction fails before it is sent.
SendFails(k) ==
  /\ phase[k] = "sending"
  /\ End(k, Failed)
  /\ UNCHANGED <<worldVars, cacheVars, ask, chain, who, todo, units, rows, batch, began,
                 transferVars>>

TransferStep(k) ==
  \/ \E q \in Requests[k] : Transfer(k, q)
  \/ CheckBalance(k) \/ Send(k) \/ SendFails(k)
=============================================================================
