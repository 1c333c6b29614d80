---------------------------- MODULE MCClientState ----------------------------
(***************************************************************************)
(* Instance of ClientState for TLC: two calls, a backend that changes      *)
(* once, from a list of tokens to one that keeps a token, drops one and    *)
(* adds one, and one close.                                                *)
(***************************************************************************)
EXTENDS ClientState

CONSTANTS c1, c2, kept, dropped, added

MCCalls == {c1, c2}
MCSymbols == {kept, dropped, added}
MCLists == <<{kept, dropped}, {kept, added}>>
=============================================================================
