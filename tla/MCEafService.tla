--------------------------- MODULE MCEafService ---------------------------
(***************************************************************************)
(* Instances of EafService for TLC: service tables, senders and receivers  *)
(* of the requests, and response messages that may yield.                  *)
(***************************************************************************)
EXTENDS EafServiceProperties

CONSTANTS a, b, l, c, q, r, u

\* Two groups of one service each.
PairTable == <<<<a>>, <<b>>>>
\* One group: an eager service and a lazy one.
SoloTable == <<<<a, l>>>>

Capacity1 == [s \in Service |-> 1]

\* q goes from a to b; r and u come from outside to b, and are interchangeable.
PairFrom == (q :> a) @@ (r :> External) @@ (u :> External)
PairTo == [m \in Request |-> b]
PairSymmetry == Permutations({r, u})

SoloFrom == (q :> a) @@ (r :> External)
SoloTo == (q :> l) @@ (r :> a)

SoloVeto == {[kind |-> "rsp", id |-> q]}
SoloYield == {Req(r)}

\* r comes from outside to b, whose handler sends q to a.
BackFrom == (q :> b) @@ (r :> External)
BackTo == (q :> a) @@ (r :> b)

\* q comes from outside to a, whose thread may exit EAF before b's has started.
ExitFrom == (q :> External)
ExitTo == (q :> a)

=============================================================================
