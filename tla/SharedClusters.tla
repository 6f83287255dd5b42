--------------------------- MODULE SharedClusters ----------------------------
(***************************************************************************)
(* What the store of connections promises, without counters and handles:   *)
(* an alias names one cluster handle from the time it is published until   *)
(* the module shuts down, a published handle is destroyed only when no     *)
(* alias names it any more, and a private handle is never named by one.    *)
(* ConnectionStore is shown to implement this.                             *)
(***************************************************************************)
CONSTANTS Alias, Cluster, NoCluster

VARIABLES
    up,         \* the module has not begun to shut down
    directory,  \* alias -> the cluster handle it names
    kind        \* of each handle: unused, private to one object, or shared

avars == <<up, directory, kind>>

Named(c) == {a \in Alias : directory[a] = c}

AInit ==
    /\ up = TRUE
    /\ directory = [a \in Alias |-> NoCluster]
    /\ kind = [c \in Cluster |-> "unused"]

\* A new shared handle is named by all its aliases at once.
Publish(c, names) ==
    /\ up /\ kind[c] = "unused" /\ names # {}
    /\ \A a \in names : directory[a] = NoCluster
    /\ directory' = [a \in Alias |-> IF a \in names THEN c ELSE directory[a]]
    /\ kind' = [kind EXCEPT ![c] = "shared"]
    /\ UNCHANGED up

Acquire(c) ==
    /\ up /\ kind[c] = "unused"
    /\ kind' = [kind EXCEPT ![c] = "private"]
    /\ UNCHANGED <<up, directory>>

Release(c) ==
    /\ up /\ kind[c] = "private"
    /\ kind' = [kind EXCEPT ![c] = "unused"]
    /\ UNCHANGED <<up, directory>>

GoDown ==
    /\ up /\ up' = FALSE
    /\ UNCHANGED <<directory, kind>>

\* The last name of a handle takes the handle with it, or leaves it behind.
Withdraw(a) ==
    LET c == directory[a]
    IN  /\ ~up /\ c # NoCluster
        /\ directory' = [directory EXCEPT ![a] = NoCluster]
        /\ \/ UNCHANGED kind
           \/ Named(c) = {a} /\ kind' = [kind EXCEPT ![c] = "unused"]
        /\ UNCHANGED up

ANext ==
    \/ \E c \in Cluster : \/ \E names \in SUBSET Alias : Publish(c, names)
                          \/ Acquire(c) \/ Release(c)
    \/ GoDown
    \/ \E a \in Alias : Withdraw(a)

ASpec == AInit /\ [][ANext]_avars

=============================================================================
