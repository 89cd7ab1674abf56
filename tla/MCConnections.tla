---------------------------- MODULE MCConnections ---------------------------
EXTENDS Connections, TLC

CONSTANTS c1, c2, c3

\* Peer a dials us and is dialled through a relay; peer b is dialled.
MCPeerOf == c1 :> "a" @@ c2 :> "a" @@ c3 :> "b"

\* Three /56 of one /48; one of them twice; an IPv4 address twice; loopback twice,
\* beside an address of its /48.
MCSources ==
    {c1 :> x @@ c2 :> y @@ c3 :> z :
        <<x, y, z>> \in {<<"n1", "n2", "n3">>, <<"n1", "n1", "n2">>, <<"v4", "n1", "v4">>,
                         <<"lo", "n1", "lo">>}}

MCAllV4 == c1 :> "v4" @@ c2 :> "v4" @@ c3 :> "v4"

MCWide == [n \in {"n1", "n2", "n3", "lo"} |-> "w"] @@ [n \in {"v4"} |-> "none"]

\* With shares of a half, cap 1 has no mark below it (the code: caps up to 9), cap 2
\* trims at the cap, and cap 4 admits two handshakes, more than MinTransient.  Every mix
\* of caps 0 and 2 and sources without callbacks, one address thrice, and a host with two callbacks.
MCSettings ==
    [maxConns : {0, 2}, perIP : {0, 1}, callbacks : {{}}, source : MCSources,
     kept : {{"a", "b"}}]
    \cup [maxConns : {0}, perIP : {1}, callbacks : {{}}, source : {MCAllV4}, kept : {{}}]
    \cup [maxConns : {1, 4}, perIP : {0}, callbacks : {{}}, source : {MCAllV4},
          kept : {{"a", "b"}}]
    \cup [maxConns : {2}, perIP : {0}, callbacks : {{1, 2}}, source : {MCAllV4}, kept : {{}}]
=============================================================================
