-------------------------- MODULE PublishedConfig --------------------------
(***************************************************************************)
(* What the replication of the configuration promises, without saying how  *)
(* configurations travel.  One coordinator owns the configuration and      *)
(* publishes a sequence of ever newer values of it; every other host has a *)
(* view of it, which is at any time one of the values published so far, as *)
(* a whole, or nothing.  A view may go back to an older value: nothing in  *)
(* the code compares the age of two configurations.                        *)
(***************************************************************************)
EXTENDS Integers

CONSTANTS
    Replicas,           \* the hosts that are not the coordinator
    Configs,            \* every configuration
    Newer(_, _),        \* Newer(c, d): configuration d is younger than c
    First,              \* the configuration the cluster is created with
    Nothing             \* the view of a host without a configuration

VARIABLES
    current,    \* the coordinator's configuration
    published,  \* the configurations the coordinator has had
    view        \* the configuration of each other host

vars == <<current, published, view>>

Init ==
    /\ current = First
    /\ published = {First}
    /\ view = [h \in Replicas |-> Nothing]

\* The coordinator replaces its configuration by a younger one.
Publish ==
    /\ current' \in Configs
    /\ Newer(current, current')
    /\ published' = published \cup {current'}
    /\ UNCHANGED view

\* A host replaces its view by a value the coordinator has published.
Adopt(h) ==
    \E c \in published :
        /\ view' = [view EXCEPT ![h] = c]
        /\ UNCHANGED <<current, published>>

\* A host loses its view.
Forget(h) ==
    /\ view' = [view EXCEPT ![h] = Nothing]
    /\ UNCHANGED <<current, published>>

Next == Publish \/ \E h \in Replicas : Adopt(h) \/ Forget(h)

Spec == Init /\ [][Next]_vars
=============================================================================
