------------------------- MODULE MCSenderoVersions -------------------------
(* Definitions a sendero starts from in the runs of SenderoVersions. *)
EXTENDS SenderoVersions

CONSTANTS a, b, c, worker, strict

Arc(x, y, p) == [src |-> x, dst |-> y, policy |-> p, on |-> TRUE]

Node(p, fork) == [agent |-> worker, policy |-> p, join |-> fork, snapshot |-> Unseen]

\* An older definition: both nodes inherit different policies, a along two
\* connections that agree.
OldBranch ==
    [nodes |-> [n \in {a, b} |-> Node(Inherit, NoFork)],
     edges |-> {Arc(Start, a, Plain), Arc(a, b, strict), Arc(a, End, strict), Arc(b, End, Plain)}]

\* The start node forks to a and b, which c joins; a inherits.
ForkAndJoin ==
    [nodes |-> [n \in {a, b, c} |->
                   Node(IF n = a THEN Inherit ELSE strict, IF n = c THEN <<1, Start>> ELSE NoFork)],
     edges |-> {Arc(Start, a, Plain), Arc(Start, b, Plain), Arc(a, c, strict), Arc(b, c, Plain),
                Arc(c, End, Plain)}]

OldAndForked == {OldBranch, ForkAndJoin}

\* What a replacement may draw: the nodes of OldBranch swapped, or two branches.
SwappedOrSplit ==
    {{<<Start, b>>, <<b, a>>, <<a, End>>},
     {<<Start, a>>, <<Start, b>>, <<a, End>>, <<b, End>>}}
=============================================================================
