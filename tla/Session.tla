------------------------------- MODULE Session -------------------------------
(***************************************************************************)
(* What a parcel session promises its members, without sockets, messages   *)
(* or a daemon that can block: a group that changes by one client at a     *)
(* time, a new key after every change, made among exactly its members      *)
(* before anybody else may come or go, and members that take up the keys   *)
(* made for them in order and without leaving one out.                     *)
(*                                                                         *)
(* README.md ("Key Exchange") has a new key "whenever the number of        *)
(* clients changes", which is MinGroup = 1.  n_party_server makes none for *)
(* a single client: the system implements this module with MinGroup = 2.   *)
(***************************************************************************)
EXTENDS Naturals, Sequences, FiniteSets

CONSTANTS
    Client,
    MinGroup  \* the smallest group that gets a key

VARIABLES
    open,    \* is there a daemon?
    group,   \* the clients at the daemon
    due,     \* is a key to be made for the group?
    roster,  \* roster[k]: who takes part in making key k
    holds    \* the newest key each client has; 0: none

vars == <<open, group, due, roster, holds>>

Init ==
    /\ open = TRUE /\ group = {} /\ due = FALSE
    /\ roster = << {} >>
    /\ holds = [c \in Client |-> 0]

Change(g) ==
    /\ open /\ ~due
    /\ group' = g
    /\ due' = (Cardinality(g) >= MinGroup)
    /\ UNCHANGED <<open, roster, holds>>

Join(c) == c \notin group /\ Change(group \cup {c})

Leave(c) == c \in group /\ Change(group \ {c})

Closed == open' = FALSE /\ group' = {} /\ due' = FALSE

\* The daemon ends; what has been learned stays.
Close == open /\ Closed /\ UNCHANGED <<roster, holds>>

\* A new key is announced to the group; the daemon may end on the way.
Rekey ==
    /\ open /\ due
    /\ \/ roster' = Append(roster, group) /\ due' = FALSE /\ UNCHANGED <<open, group>>
       \/ Closed /\ \E g \in SUBSET group : roster' = Append(roster, g)
    /\ UNCHANGED holds

\* The keys made with c that c does not have yet
Ahead(c) == {k \in DOMAIN roster : k > holds[c] /\ c \in roster[k]}

Learn(c) ==
    /\ \E k \in Ahead(c) : /\ \A j \in Ahead(c) : k <= j
                           /\ holds' = [holds EXCEPT ![c] = k]
    /\ UNCHANGED <<open, group, due, roster>>

Next == Close \/ Rekey \/ \E c \in Client : Join(c) \/ Leave(c) \/ Learn(c)

Spec == Init /\ [][Next]_vars

=============================================================================
