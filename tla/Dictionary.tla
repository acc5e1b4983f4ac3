----------------------------- MODULE Dictionary -----------------------------
(***************************************************************************)
(* What the hash table of urcu/rculfhash.h promises its updaters: nodes    *)
(* come and go one at a time, a replacement is a single step, and if only  *)
(* the unique additions are used no two nodes ever have the same key.      *)
(***************************************************************************)
CONSTANTS Nodes, Key(_)

VARIABLES content, unique    \* unique: no others than unique additions are used
vars == <<content, unique>>

Init == content = {} /\ unique \in BOOLEAN

Insert(n) == /\ n \notin content
             /\ unique => \A m \in content : Key(m) # Key(n)
             /\ content' = content \cup {n}

Delete(n) == /\ n \in content
             /\ content' = content \ {n}

Replace(o, n) == /\ o \in content /\ n \notin content
                 /\ Key(o) = Key(n)
                 /\ content' = (content \ {o}) \cup {n}

Next == /\ \/ \E n \in Nodes : Insert(n) \/ Delete(n)
           \/ \E o, n \in Nodes : Replace(o, n)
        /\ UNCHANGED unique

Spec == Init /\ [][Next]_vars
=============================================================================
