------------------------- MODULE PowerpackProperties -------------------------
(***************************************************************************)
(* What should hold between the loop thread, the user's thread and the     *)
(* hooks, and what the header promises and a failing hook breaks.          *)
(***************************************************************************)
EXTENDS Powerpack

Call == {"idle", "load", "cleanup", "exit", "join"}
TypeOK ==
    /\ initialized \in BOOLEAN /\ injected \in BOOLEAN
    /\ ToSet(table) \subseteq Hook /\ up \subseteq Hook
    /\ point \in [Point -> [sem_req : Nat, sem_rsp : Nat, have_rsp : BOOLEAN, rsp : {0, -1}]]
    /\ async \in {"none", "active", "closed"} /\ async_sent \in BOOLEAN
    /\ pc \in {"none", "wait_init", "call_init", "loop", "wait_exit", "answer_exit", "gone"}
    /\ idx \in Nat
    /\ main \in Call /\ wait \in {"nothing", "answer"}
    /\ eaf \in {"none", "init", "busy", "exit"} /\ cycle \in 0 .. MaxCycle

Failed == point["init"].rsp = -1

\* powerpack.h:56 and 66, as long as no hook fails: every hook of the table is
\* initialised before a service is, and closed only after all services are gone,
\* although the loop thread does both and only the two points tell it when.
HooksAroundServices ==
    [][/\ (eaf' = "busy" /\ injected' /\ ~Failed') => ToSet(table') \subseteq up'
       /\ (eaf \in {"busy", "exit"} /\ ~Failed) => up \subseteq up']_vars

\* Requests and answers pair off at both points, in every cycle of init and exit:
\* no token of a point is left when the thread is joined, none is posted twice.
TokensPaired ==
    /\ TypeOK
    /\ \A p \in Point : point[p].sem_req + point[p].sem_rsp <= 1
    /\ pc = "none" => \A p \in Point : point[p].sem_req = 0 /\ point[p].sem_rsp = 0
    /\ pc = "none" => up = {} /\ async = "none"

\* eaf_load, eaf_cleanup and eaf_powerpack_exit return, when the loop was reached and
\* no hook has failed: what happens otherwise is CleanupReturns below.
Reached == main = "load" \/ pc \notin {"none", "wait_init", "gone"} \/ point["exit"].have_rsp
CallsReturn == (main # "idle" /\ Reached /\ ~Failed) ~> (main = "idle" \/ Failed)

-----------------------------------------------------------------------------
\* service.h:330 "Wait for EAF exit and cleanup all resources": eaf_cleanup
\* returns, also when a hook could not be initialised (powerpack.h:59) or the user
\* never came to load EAF.
CleanupReturns == (main = "cleanup") ~> (main = "idle")
=============================================================================
