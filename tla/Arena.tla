-------------------------------- MODULE Arena --------------------------------
(***************************************************************************)
(* What an arena allocator promises its clients, without chunks, pointers  *)
(* or sizes: arenas are opened and closed; a grant gives an open arena a   *)
(* place that is apart from every other granted place; grants end only by  *)
(* the client's own call on their arena.                                   *)
(***************************************************************************)
CONSTANTS
    Name,          \* names an arena can have
    Place,         \* places in memory that can be granted
    Apart(_, _)    \* two places share no byte

VARIABLES
    open,          \* the open arenas
    grants         \* the current grants: records [arena, at]

vars == <<open, grants>>

GrantOf(a, at) == [arena |-> a, at |-> at]

Of(a) == {g \in grants : g.arena = a}

Free(at, others) == \A g \in others : Apart(at, g.at)

Init == open = {} /\ grants = {}

Open(a) ==
    /\ a \notin open
    /\ open' = open \cup {a}
    /\ UNCHANGED grants

Grant(a) ==
    /\ a \in open
    /\ \E g \in grants' :
          /\ g = GrantOf(a, g.at) /\ g.at \in Place
          /\ Free(g.at, grants)
          /\ grants' = grants \cup {g}
    /\ UNCHANGED open

(* A grant is replaced by one that is apart from all the others; it may    *)
(* overlap the place it replaces.                                          *)
Regrant(a) ==
    /\ a \in open
    /\ \E old \in Of(a), g \in grants' :
          /\ g = GrantOf(a, g.at) /\ g.at \in Place
          /\ Free(g.at, grants \ {old})
          /\ grants' = (grants \ {old}) \cup {g}
    /\ UNCHANGED open

(* The client gives up some grants of a.                                   *)
Release(a) ==
    /\ a \in open
    /\ grants \ Of(a) \subseteq grants' /\ grants' \subseteq grants
    /\ UNCHANGED open

Close(a) ==
    /\ a \in open
    /\ open' = open \ {a}
    /\ grants' = grants \ Of(a)

(* Arena b ends and its grants go on in a.                                 *)
Absorb(a, b) ==
    /\ a \in open /\ b \in open /\ a # b
    /\ open' = open \ {b}
    /\ grants' = (grants \ Of(b)) \cup {GrantOf(a, g.at) : g \in Of(b)}

Next ==
    \/ \E a \in Name :
          Open(a) \/ Grant(a) \/ Regrant(a) \/ Release(a) \/ Close(a)
    \/ \E a, b \in Name : Absorb(a, b)

Spec == Init /\ [][Next]_vars
=============================================================================
