------------------------------ MODULE Mailbox ------------------------------
(***************************************************************************)
(* What the service runtime promises about messages, without threads,      *)
(* states, semaphores or locks: every service serves the messages sent to  *)
(* it one at a time and in the order in which they were accepted, each at  *)
(* most once; a message it is serving is kept until its handler is done,   *)
(* however often that handler yields.  A service that is gone drops what   *)
(* it had, and serves nothing any more.                                    *)
(***************************************************************************)
EXTENDS Sequences, SequencesExt

CONSTANTS Service, Msg, NoMsg, Dest(_)

VARIABLES
    inbox,      \* inbox[s]: accepted messages that s has not begun to serve
    serving,    \* serving[s]: the message s is serving, or NoMsg
    accepted,   \* messages accepted so far
    closed,     \* messages that are done with
    gone        \* services that are gone

vars == <<inbox, serving, accepted, closed, gone>>

Init ==
    /\ inbox = [s \in Service |-> <<>>]
    /\ serving = [s \in Service |-> NoMsg]
    /\ accepted = {}
    /\ closed = {}
    /\ gone = {}

\* A message is accepted once, by the service it is for.
Accept(m) ==
    /\ m \notin accepted /\ Dest(m) \in Service
    /\ inbox' = [inbox EXCEPT ![Dest(m)] = Append(@, m)]
    /\ accepted' = accepted \cup {m}
    /\ UNCHANGED <<serving, closed, gone>>

\* A service that is serving nothing begins to serve the oldest message.
Serve(s) ==
    /\ s \notin gone
    /\ serving[s] = NoMsg
    /\ inbox[s] # <<>>
    /\ serving' = [serving EXCEPT ![s] = Head(inbox[s])]
    /\ inbox' = [inbox EXCEPT ![s] = Tail(@)]
    /\ UNCHANGED <<accepted, closed, gone>>

Finish(s) ==
    /\ serving[s] # NoMsg
    /\ closed' = closed \cup {serving[s]}
    /\ serving' = [serving EXCEPT ![s] = NoMsg]
    /\ UNCHANGED <<inbox, accepted, gone>>

\* The services of S are gone, with all they had not finished.
Discard(S) ==
    /\ gone' = gone \cup S
    /\ closed' = closed \cup UNION {ToSet(inbox[s]) \cup ({serving[s]} \ {NoMsg}) : s \in S}
    /\ inbox' = [s \in Service |-> IF s \in S THEN <<>> ELSE inbox[s]]
    /\ serving' = [s \in Service |-> IF s \in S THEN NoMsg ELSE serving[s]]
    /\ UNCHANGED accepted

Next ==
    \/ \E m \in Msg : Accept(m)
    \/ \E s \in Service : Serve(s) \/ Finish(s)
    \/ \E S \in SUBSET Service : Discard(S)

Spec == Init /\ [][Next]_vars
=============================================================================
