--------------------------- MODULE MCParamMaster ---------------------------
(* Two handlers, one of which needs two messages for its tree, and values   *)
(* of different length, so that a packet may be followed by the rest of an  *)
(* older one.                                                              *)
EXTENDS ParamMaster

CONSTANTS h1, h2, short, long

MCHandlers == {h1, h2}
MCPieces == (h1 :> 2) @@ (h2 :> 1)
MCValues == {short, long}
MCSize == (short :> 2) @@ (long :> 5)
MCEscaped == {<<5, 4>>}
\* A save when only h1 was known.
MCOldSaves == {<<>>, <<[piece |-> <<h1, 1>>, value |-> long, seq |-> 0, last |-> FALSE],
                 [piece |-> <<h1, 2>>, value |-> long, seq |-> 1, last |-> TRUE]>>}
=============================================================================
