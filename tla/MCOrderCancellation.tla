----------------------- MODULE MCOrderCancellation -----------------------
(* Two internal ids, one of which is also used as a client id, and a client *)
(* id of its own. *)
EXTENDS OrderCancellation

CONSTANTS k1, i1, i2, c1

MCWords == {i1, i2, c1}
MCInternalIds == {i1, i2}
Ref(form, word) == [form |-> form, word |-> word]
\* An id alone in every form it has (the other internal id is no different), and lists in
\* which an id recurs as the other kind.
MCInputs ==
  {<<Ref("text", c1)>>, <<Ref("hex", c1)>>} \cup
  {<<Ref(f, i1)>> : f \in Forms \ {"text"}} \cup
  {<<Ref("hex", i1), Ref("hex", c1)>>, <<Ref("text", c1), Ref("int", i2)>>,
   <<Ref("hex", i2), Ref("hex", i2)>>}
\* Rows as the tests give them: a signed order's with numbers, one of strings without a
\* pair, one in camel case, and one in the SDK's own spelling.
MCStyles ==
  {[keys |-> "rest", amounts |-> "number", paired |-> TRUE],
   [keys |-> "rest", amounts |-> "text", paired |-> FALSE],
   [keys |-> "camel", amounts |-> "text", paired |-> TRUE],
   [keys |-> "canonical", amounts |-> "number", paired |-> TRUE]}
MCLookups == <<"getOrderByClientOrderId", "getOrderByClientId">>
=============================================================================
