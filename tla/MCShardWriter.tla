--------------------------- MODULE MCShardWriter ----------------------------
EXTENDS ShardWriter, TLC
CONSTANTS w1, w2, c1, c2, c3
OwnWriter == c1 :> w1 @@ c2 :> w2
OneCaller == c1 :> w1
SharedAndOwn == c1 :> w1 @@ c2 :> w1 @@ c3 :> w2
Writes == [c \in Caller |-> {"write"}]
OneFlushesOneCloses == c1 :> {"write", "flush"} @@ c2 :> {"write", "close"} @@ c3 :> {"write"}
TwoCallers == {c1 :> c2 @@ c2 :> c1}
TwoProcesses == {c1 :> c2 @@ c2 :> c1 @@ w1 :> w2 @@ w2 :> w1}
=============================================================================
