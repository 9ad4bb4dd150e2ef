--------------------------- MODULE MCAsyncByteStream ---------------------------
(* Model values for checking AsyncByteStream with TLC: a blocking and a       *)
(* non-blocking configuration of different sizes.                             *)
EXTENDS AsyncByteStream

MCFirstConfig == [size |-> 2, prealloc |-> 2, nonBlocking |-> FALSE]
MCConfigs == {MCFirstConfig, [size |-> 3, prealloc |-> 1, nonBlocking |-> TRUE]}
=============================================================================
