---------------------------- MODULE MCAsyncCache ----------------------------
(***************************************************************************)
(* Instance of AsyncCache for TLC: two clients share a cache that has room *)
(* for one entry.  A call of each asks for the pairs, which change once,   *)
(* another evicts them, and a third client bypasses the cache.             *)
(***************************************************************************)
EXTENDS AsyncCache

CONSTANTS a1, b1, b2, x1, ClientA, ClientB, ClientX, pairs, tokens

MCCallers == {a1, b1, b2, x1}
MCClients == {ClientA, ClientB, ClientX}
MCBypassing == {ClientX}
MCKeys == {pairs, tokens}
MCKeyOf == [c \in MCCallers |-> IF c \in {a1, b1} THEN pairs ELSE tokens]
MCMaxVersion == [k \in MCKeys |-> IF k = pairs THEN 2 ELSE 1]
MCClientOf == [c \in MCCallers |->
                 IF c = a1 THEN ClientA ELSE IF c = x1 THEN ClientX ELSE ClientB]
=============================================================================
