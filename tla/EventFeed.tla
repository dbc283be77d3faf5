----------------------------- MODULE EventFeed -----------------------------
(***************************************************************************)
(* What the event stream of a run promises the client: the events of the   *)
(* run reach it in the order of their ids, every one of them, once each.   *)
(***************************************************************************)
EXTENDS Naturals

CONSTANT Ids        \* the ids of events

VARIABLES log,       \* the ids of the committed events
          received   \* the ids the client has applied

Init == log = {} /\ received = {}

Commit == \E id \in Ids : /\ \A x \in log : x < id
                          /\ log' = log \cup {id}
                          /\ UNCHANGED received

Receive == \E id \in log \ received : /\ \A x \in log \ received : id <= x
                                      /\ received' = received \cup {id}
                                      /\ UNCHANGED log

Next == Commit \/ Receive

Spec == Init /\ [][Next]_<<log, received>>
=============================================================================
