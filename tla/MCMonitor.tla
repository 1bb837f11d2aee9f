------------------------------ MODULE MCMonitor ------------------------------
(***************************************************************************)
(* Instances of Monitor for TLC: two services in two groups, and a thread  *)
(* of its own that sends as the second service too.                        *)
(***************************************************************************)
EXTENDS MonitorProperties, TLC

CONSTANTS s1, s2, w1, w2, lp, nobody

TwoServices == <<s1, s2>>
TwoGroups == (s1 :> 1) @@ (s2 :> 2)
EachItsOwn == (w1 :> {s1}) @@ (w2 :> {s2}) @@ (lp :> {})

\* Each service sends from its group; a thread of libuv sends as the second one, too.
ByGroups == (w1 :> {<<s1, s2>>}) @@ (w2 :> {<<s2, s1>>}) @@ (lp :> {})
SecondIsShared == (w1 :> {}) @@ (w2 :> {<<s2, s1>>}) @@ (lp :> {<<s2, s1>>})
FewSends == (w1 :> 2) @@ (w2 :> 1) @@ (lp :> 1)
==============================================================================
