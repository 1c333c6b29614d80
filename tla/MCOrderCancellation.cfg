SPECIFICATION Spec
CONSTANTS
  k1 = k1
  i1 = i1
  i2 = i2
  c1 = c1
  Calls = {k1}
  Methods = {"cancel_order", "replace_order", "cancel_add_list", "get_order", "get_order_by_client_id", "cancel_order_by_client_id", "cancel_list_orders_by_client_id", "cancel_list_orders", "cancel_all_orders", "get_open_orders"}
  Words <- MCWords
  InternalIds <- MCInternalIds
  Forms = {"int", "hex", "text", "padded digits"}
  ClientLookups <- MCLookups
  Inputs <- MCInputs
  Size = 2
  BaseUnit = 10
  Pair = "P"
  PairId = "pid"
  None = None
  Styles <- MCStyles
CHECK_DEADLOCK FALSE
INVARIANTS
  OnlyNamedAreClosed
  ReportedIsClosed
  ShownInUnits
