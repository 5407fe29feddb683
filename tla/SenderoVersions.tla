-------------------------- MODULE SenderoVersions --------------------------
(***************************************************************************)
(* Authoring one sendero: its versions, the edits of a draft and its       *)
(* publication (packages/core/src/lifecycle/versions.ts, commands/senderos *)
(* and internal/senderos).  A command is one transaction and one action.   *)
(*                                                                         *)
(* The node of an author's name n in version v has the id <<v, n>>: a copy *)
(* of a version has ids of its own. What a node demands (objective and     *)
(* completion gates) is one value, its policy; Inherit stands for a node   *)
(* without an objective, as built-in and older definitions have, whose     *)
(* policy is that of its outgoing connections. A new connection has the    *)
(* policy Plain, whichever nodes it connects. Labels, positions,           *)
(* requirements, outcomes, all but one end node and parallel connections   *)
(* are left out. So are timestamps: an edit that is undone leaves the      *)
(* fingerprint of the draft as it was.                                     *)
(***************************************************************************)
EXTENDS SenderoGraph, Sequences

CONSTANTS End,               \* the end node
          Names,             \* names of agent nodes
          Agents,            \* agent definitions
          Bodies,            \* instructions an agent may have
          Policies,          \* policies a node may have
          Plain,             \* the policy of a new connection
          Inherit,
          Editors,           \* clients that review before they publish
          Unseen,
          Seeds,             \* published definitions the sendero may start from
          Drawings,          \* sets of arcs a replacement graph may have
          MaxVersions,       \* bound: versions
          MaxEdits           \* bound: edits and agent definitions

ASSUME PoliciesAssumption == Plain \in Policies /\ Inherit \notin Policies

ASSUME EditorsAssumption == Unseen \notin Editors

ASSUME NamesAssumption == Start # End /\ Names \cap {Start, End} = {}

ASSUME BodiesAssumption == Bodies # {}

ASSUME BoundsAssumption == MaxVersions \in Nat /\ MaxEdits \in Nat

\* What a replacement may name.
ASSUME DrawingsAssumption ==
    \A arcs \in Drawings : arcs \subseteq (Names \cup {Start}) \X (Names \cup {End})

VARIABLES versions,          \* sequence of sendero_versions with their nodes and edges
          current,           \* senderos.current_version
          agents,            \* agents: instructions and whether the agent is active
          seen,              \* what each editor last read
          edits              \* edits so far, for the bound

vars == <<versions, current, agents, seen, edits>>

Edge(s, d, p) == [src |-> s, dst |-> d, policy |-> p, on |-> TRUE]

\* seedBuiltInSenderos inserts published versions with their snapshots.
Seeded(s) ==
    versions = <<[status |-> "published", edges |-> s.edges, reviewed |-> Unseen,
                  nodes |-> [n \in DOMAIN s.nodes |->
                                [s.nodes[n] EXCEPT !.snapshot = agents[s.nodes[n].agent].body]]]>>

\* newSendero without a definition: a draft with one connection.
New ==
    versions = <<[status |-> "draft", edges |-> {Edge(Start, End, Plain)}, reviewed |-> Unseen,
                  nodes |-> [n \in {} |-> n]]>>

Init ==
    /\ agents = [a \in Agents |-> [body |-> CHOOSE b \in Bodies : TRUE, active |-> TRUE]]
    /\ New \/ \E s \in Seeds : Seeded(s)
    /\ current = 1
    /\ seen = [r \in Editors |-> Unseen]
    /\ edits = 0

-----------------------------------------------------------------------------
(* Graphs of a version. *)

Drafts == {v \in DOMAIN versions : versions[v].status = "draft"}

Out(g, n) == {e \in g.edges : e.src = n}
In(g, n)  == {e \in g.edges : e.dst = n}

ActivePolicies(g, n) == {e.policy : e \in {f \in Out(g, n) : f.on}}

\* preservedNodePolicy: it refuses active edges that disagree.
Promotable(g, n) ==
    n \in DOMAIN g.nodes /\ g.nodes[n].policy = Inherit => Cardinality(ActivePolicies(g, n)) <= 1

Preserved(g, n) ==
    IF g.nodes[n].policy # Inherit \/ ActivePolicies(g, n) = {} THEN g.nodes[n].policy
    ELSE CHOOSE p \in ActivePolicies(g, n) : TRUE

\* The nodes S get policies of their own before their connections change.
Promoted(g, S) ==
    [n \in DOMAIN g.nodes |->
        IF n \in S THEN [g.nodes[n] EXCEPT !.policy = Preserved(g, n)] ELSE g.nodes[n]]

\* A version as executableGraph reads it; a join that names a node of another
\* version names none of this one.
Executed(v, g) ==
    [agents |-> DOMAIN g.nodes, ends |-> {End}, protocol |-> 2, maxActivations |-> 100,
     edges |-> {[src |-> e.src, dst |-> e.dst, outcome |-> AnyOutcome] : e \in {f \in g.edges : f.on}},
     policy |-> [n \in DOMAIN g.nodes |-> {}],
     join |-> [n \in DOMAIN g.nodes |->
                  LET fork == g.nodes[n].join IN
                  IF fork # NoFork /\ fork[1] = v THEN fork[2] ELSE fork]]

\* executableGraph: the structure, and one policy for every node that inherits.
ExecutableVersion(v, g) ==
    /\ ExecutableGraph(Executed(v, g))
    /\ \A n \in DOMAIN g.nodes : Promotable(g, n)

Executable(v) == ExecutableVersion(v, versions[v])

\* Connections and joins name nodes of their own version.
Attached(v, g) ==
    /\ \A e \in g.edges : e.src \in DOMAIN g.nodes \cup {Start} /\ e.dst \in DOMAIN g.nodes \cup {End}
    /\ \A n \in DOMAIN g.nodes :
          g.nodes[n].join \in {NoFork} \cup ({v} \X ((DOMAIN g.nodes \ {n}) \cup {Start, End}))

EdgeRows == [src : Names \cup {Start}, dst : Names \cup {End}, policy : Policies, on : BOOLEAN]

NodeRows(v) == [agent : Agents, policy : Policies \cup {Inherit}, snapshot : Bodies \cup {Unseen},
                join : {NoFork} \cup ({v} \X (Names \cup {Start, End}))]

\* Definitions are bundled, or were published by an older release, as ones
\* that can be executed.
ASSUME SeedsAssumption ==
    \A s \in Seeds :
        /\ DOMAIN s.nodes \subseteq Names /\ s.nodes \in [DOMAIN s.nodes -> NodeRows(1)]
        /\ s.edges \subseteq EdgeRows
        /\ Attached(1, s) /\ ExecutableVersion(1, s)

Available(v) == \A n \in DOMAIN versions[v].nodes : agents[versions[v].nodes[n].agent].active

\* assertConnectedSendero looks at all edges, active or not.
AllConnected(g, edges) ==
    LET arcs == {<<e.src, e.dst>> : e \in edges} IN
    /\ DOMAIN g.nodes \subseteq Reachable(arcs, {Start}, {})
    /\ DOMAIN g.nodes \subseteq Reachable(Reversed(arcs), {End}, {})

-----------------------------------------------------------------------------
(* Editing a draft. *)

EditBound == edits < MaxEdits /\ edits' = edits + 1

\* editableGraph and requireDraft refuse a version that is published.
Save(v, nodes, edges) ==
    /\ v \in Drafts
    /\ versions' = [versions EXCEPT ![v].nodes = nodes, ![v].edges = edges]
    /\ EditBound
    /\ UNCHANGED <<current, agents, seen>>

\* addAgentToSendero: the new node splits the connection from s to t if there
\* is one; the first part keeps what the connection said.
AddAgent(v, n, a, p, s, t) ==
    LET g == versions[v]
        split == {e \in g.edges : e.src = s /\ e.dst = t}
        incoming == IF split = {} THEN {Edge(s, n, Plain)} ELSE {[e EXCEPT !.dst = n] : e \in split}
        node == [agent |-> a, policy |-> p, join |-> NoFork, snapshot |-> Unseen]
    IN  /\ n \notin DOMAIN g.nodes
        /\ s \in DOMAIN g.nodes \cup {Start} /\ t \in DOMAIN g.nodes \cup {End} /\ s # t
        /\ Promotable(g, s)
        /\ Save(v, [m \in DOMAIN g.nodes \cup {n} |-> IF m = n THEN node ELSE Promoted(g, {s})[m]],
                   (g.edges \ split) \cup incoming \cup {Edge(n, t, Plain)})

\* removeAgentFromSendero: what led to the node leads on to its successors.
RemoveAgent(v, n) ==
    LET g == versions[v]
        sources == {e.src : e \in In(g, n)}
        bridges == {[b EXCEPT !.dst = f.dst] : b \in In(g, n), f \in Out(g, n)}
        reconnected == {e \in bridges : /\ n \notin {e.src, e.dst}
                                        /\ \A h \in g.edges : <<h.src, h.dst>> # <<e.src, e.dst>>}
    IN  /\ n \in DOMAIN g.nodes
        /\ \A m \in DOMAIN g.nodes : g.nodes[m].join # <<v, n>>
        /\ \A m \in sources : Promotable(g, m)
        /\ Save(v, [m \in DOMAIN g.nodes \ {n} |-> Promoted(g, sources)[m]],
                   (g.edges \ (In(g, n) \cup Out(g, n))) \cup reconnected)

\* Mutant: the source of the new connection keeps inheriting.
ConnectUnpromoted(v, s, t) ==
    LET g == versions[v] IN
    /\ s \in DOMAIN g.nodes \cup {Start} /\ t \in DOMAIN g.nodes \cup {End}
    /\ \A e \in g.edges : <<e.src, e.dst>> # <<s, t>>
    /\ Save(v, g.nodes, g.edges \cup {Edge(s, t, Plain)})

\* connectSenderoAgents.
Connect(v, s, t) ==
    LET g == versions[v] IN
    /\ s \in DOMAIN g.nodes \cup {Start} /\ t \in DOMAIN g.nodes \cup {End}
    /\ \A e \in g.edges : <<e.src, e.dst>> # <<s, t>>
    /\ Promotable(g, s)
    /\ Save(v, Promoted(g, {s}), g.edges \cup {Edge(s, t, Plain)})

\* disconnectSenderoAgents.
Disconnect(v, e) ==
    LET g == versions[v] IN
    /\ AllConnected(g, g.edges \ {e})
    /\ Promotable(g, e.src)
    /\ Save(v, Promoted(g, {e.src}), g.edges \ {e})

\* updateSenderoEdge: completion or status of a connection.
UpdateEdge(v, e, p, on) ==
    Save(v, versions[v].nodes, (versions[v].edges \ {e}) \cup {[e EXCEPT !.policy = p, !.on = on]})

\* Mutant: the version is not looked at.
UpdateNodeAnywhere(v, n, p, fork) ==
    /\ fork \in {NoFork} \cup ({v} \X ((DOMAIN versions[v].nodes \cup {Start, End}) \ {n}))
    /\ versions' = [versions EXCEPT ![v].nodes[n] = [@ EXCEPT !.policy = p, !.join = fork]]
    /\ EditBound
    /\ UNCHANGED <<current, agents, seen>>

\* updateSenderoNode: objective and completion, or the paired fork.
UpdateNode(v, n, p, fork) ==
    /\ fork \in {NoFork} \cup ({v} \X ((DOMAIN versions[v].nodes \cup {Start, End}) \ {n}))
    /\ Save(v, [versions[v].nodes EXCEPT ![n] = [@ EXCEPT !.policy = p, !.join = fork]],
               versions[v].edges)

\* setCompletionPolicy writes the node and its first connection.
SetCompletionPolicy(v, n, e, p) ==
    /\ e \in Out(versions[v], n)
    /\ Save(v, [versions[v].nodes EXCEPT ![n].policy = p],
               (versions[v].edges \ {e}) \cup {[e EXCEPT !.policy = p]})

\* replaceSenderoDraft with a graph that says nothing of policies and joins:
\* nodes that stay keep theirs, and a join must keep its fork.
Replace(v, arcs, a) ==
    LET g == versions[v]
        kept(n) == n \in DOMAIN g.nodes
        nodes == (UNION {{x[1], x[2]} : x \in arcs}) \ {Start, End}
        policy(n) == IF ~kept(n) \/ Preserved(g, n) = Inherit THEN Plain ELSE Preserved(g, n)
        replaced == [n \in nodes |-> [agent |-> IF kept(n) THEN g.nodes[n].agent ELSE a,
                                      policy |-> policy(n), snapshot |-> Unseen,
                                      join |-> IF kept(n) THEN g.nodes[n].join ELSE NoFork]]
    IN  /\ \A n \in nodes : Promotable(g, n)
        /\ \A n \in nodes : replaced[n].join \in {NoFork} \cup ({v} \X (nodes \cup {Start, End}))
        /\ Save(v, replaced, {e \in g.edges : <<e.src, e.dst>> \in arcs} \cup
                    {Edge(x[1], x[2], Plain) :
                        x \in {y \in arcs : \A e \in g.edges : <<e.src, e.dst>> # y}})

-----------------------------------------------------------------------------
(* Versions. *)

\* Mutant: the copy keeps the ids of its model.
DraftKeepingJoins ==
    /\ Len(versions) < MaxVersions /\ Drafts = {}
    /\ versions' = Append(versions,
          [versions[current] EXCEPT !.status = "draft", !.reviewed = Unseen,
              !.nodes = [n \in DOMAIN versions[current].nodes |->
                            [versions[current].nodes[n] EXCEPT !.snapshot = Unseen]]])
    /\ UNCHANGED <<current, agents, seen, edits>>

\* draftSendero copies the current version with new ids, unless there is a
\* draft.
Draft ==
    LET g == versions[current]
        own(fork) == IF fork = NoFork THEN NoFork ELSE <<Len(versions) + 1, fork[2]>>
    IN  /\ Len(versions) < MaxVersions /\ Drafts = {}
        /\ versions' = Append(versions,
              [status |-> "draft", edges |-> g.edges, reviewed |-> Unseen,
               nodes |-> [n \in DOMAIN g.nodes |->
                             [g.nodes[n] EXCEPT !.snapshot = Unseen, !.join = own(g.nodes[n].join)]]])
        /\ UNCHANGED <<current, agents, seen, edits>>

\* What a read of version v fingerprints: the definition and the agents it
\* would snapshot.
Content(v) ==
    [version |-> v, nodes |-> versions[v].nodes, edges |-> versions[v].edges,
     agents |-> [n \in DOMAIN versions[v].nodes |-> agents[versions[v].nodes[n].agent]]]

\* getSenderoGraph of the draft.
Review(r, v) ==
    /\ v \in Drafts /\ seen[r] # Content(v)
    /\ seen' = [seen EXCEPT ![r] = Content(v)]
    /\ UNCHANGED <<versions, current, agents, edits>>

\* Mutant: the fingerprint leaves the agents out.
UnchangedGraph(r, v) ==
    /\ seen[r] # Unseen
    /\ <<seen[r].version, seen[r].nodes, seen[r].edges>> = <<v, versions[v].nodes, versions[v].edges>>

\* The draft is what r read, with expectedVersionId and expectedRevision.
UnchangedSince(r, v) == seen[r] = Content(v)

Snapshots(v) ==
    [n \in DOMAIN versions[v].nodes |->
        [versions[v].nodes[n] EXCEPT !.snapshot = agents[versions[v].nodes[n].agent].body]]

\* Mutant: the graph is not validated.
PublishUnchecked(v, reviewed) ==
    /\ v \in Drafts /\ Available(v)
    /\ versions' = [versions EXCEPT ![v].status = "published", ![v].nodes = Snapshots(v),
                                    ![v].reviewed = reviewed]
    /\ current' = v
    /\ UNCHANGED <<agents, seen, edits>>

\* publishSendero: a refusal by the validator rolls everything back.
Publish(v, reviewed) ==
    /\ v \in Drafts /\ Executable(v) /\ Available(v)
    /\ versions' = [versions EXCEPT ![v].status = "published", ![v].nodes = Snapshots(v),
                                    ![v].reviewed = reviewed]
    /\ current' = v
    /\ UNCHANGED <<agents, seen, edits>>

\* updateAgent: instructions or status of an agent that versions refer to.
UpdateAgent(a, body, active) ==
    /\ agents' = [agents EXCEPT ![a] = [body |-> body, active |-> active]]
    /\ EditBound
    /\ UNCHANGED <<versions, current, seen>>

-----------------------------------------------------------------------------
NodeEdit(v) ==
    \E n \in DOMAIN versions[v].nodes :
        \/ RemoveAgent(v, n)
        \/ \E fork \in {NoFork} \cup ({v} \X (Names \cup {Start, End})) :
              UpdateNode(v, n, versions[v].nodes[n].policy, fork)
        \/ \E p \in Policies : UpdateNode(v, n, p, versions[v].nodes[n].join)
        \/ \E p \in Policies, e \in versions[v].edges : SetCompletionPolicy(v, n, e, p)

EdgeEdit(v) ==
    \/ \E e \in versions[v].edges :
          Disconnect(v, e) \/ \E p \in Policies, on \in BOOLEAN : UpdateEdge(v, e, p, on)
    \/ \E s \in Names \cup {Start}, t \in Names \cup {End} :
          \/ Connect(v, s, t)
          \/ \E n \in Names, a \in Agents, p \in Policies : AddAgent(v, n, a, p, s, t)

Edit ==
    \E v \in DOMAIN versions :
        \/ NodeEdit(v) \/ EdgeEdit(v)
        \/ \E arcs \in Drawings, a \in Agents : Replace(v, arcs, a)

Release ==
    \/ Draft
    \/ \E v \in DOMAIN versions :
          \/ Publish(v, Unseen)
          \/ \E r \in Editors : Review(r, v) \/ (UnchangedSince(r, v) /\ Publish(v, seen[r]))

Next ==
    \/ Edit \/ Release
    \/ \E a \in Agents, body \in Bodies, active \in BOOLEAN : UpdateAgent(a, body, active)

Spec == Init /\ [][Next]_vars

-----------------------------------------------------------------------------
(* Properties. *)

\* Connections and joins name nodes of the version they belong to, whatever
\* was removed, replaced or copied before.
NothingDangles == \A v \in DOMAIN versions : Attached(v, versions[v])

\* A sendero has at most one draft, its last version, and executes the version
\* published last.
OneDraft ==
    /\ Drafts \subseteq {Len(versions)}
    /\ current = IF DOMAIN versions = Drafts THEN 1 ELSE Len(versions) - Cardinality(Drafts)

\* Rows have their types and refer to rows of their own version, there is one
\* draft at most, and a published version carries the instructions of its
\* agents: goals never read those of later edits.
TypeOK ==
    /\ NothingDangles /\ OneDraft
    /\ current \in DOMAIN versions
    /\ \A r \in Editors : seen[r] = Unseen \/ seen[r].version \in DOMAIN versions
    /\ agents \in [Agents -> [body : Bodies, active : BOOLEAN]]
    /\ edits \in 0 .. MaxEdits
    /\ \A v \in DOMAIN versions :
          /\ versions[v].status \in {"draft", "published"}
          /\ DOMAIN versions[v].nodes \subseteq Names
          /\ \A n \in DOMAIN versions[v].nodes :
                LET node == versions[v].nodes[n] IN
                /\ node.agent \in Agents /\ node.policy \in Policies \cup {Inherit}
                /\ node.snapshot \in IF versions[v].status = "published" THEN Bodies ELSE {Unseen}

\* Whatever edits led to it, a version that goals may be pinned to is one that
\* executableGraph accepts, for ever: a goal can always load its definition.
PublishedExecutable ==
    \A v \in DOMAIN versions \ Drafts : Executable(v)

\* A publication fenced by a revision publishes the definition the editor saw
\* and snapshots the instructions the editor saw, although agents are edited
\* apart from senderos.
ReviewedPublished ==
    \A v \in DOMAIN versions \ Drafts :
        LET r == versions[v].reviewed IN
        r # Unseen =>
            /\ r.version = v /\ r.edges = versions[v].edges
            /\ \A n \in DOMAIN versions[v].nodes :
                  [versions[v].nodes[n] EXCEPT !.snapshot = Unseen] = r.nodes[n]
            /\ \A n \in DOMAIN versions[v].nodes : versions[v].nodes[n].snapshot = r.agents[n].body

\* No step changes a published version or takes one away.
PublishedFrozen ==
    [][\A v \in DOMAIN versions \ Drafts :
          v \in DOMAIN versions' /\ versions'[v] = versions[v]]_vars

\* The policy a node runs under: its own or that of its active connections,
\* Inherit when these disagree or there is none.
Effective(g, n) == IF Promotable(g, n) THEN Preserved(g, n) ELSE Inherit

Keeps(g, h) ==
    \A n \in DOMAIN g.nodes \cap DOMAIN h.nodes :
        Effective(g, n) # Inherit => Effective(h, n) = Effective(g, n)

Topology(g) == <<DOMAIN g.nodes, {<<e.src, e.dst>> : e \in g.edges}>>

\* Adding, removing, connecting, disconnecting and replacing nodes never
\* changes the policy of a node that stays, and a draft starts with the
\* policies of its model (docs/lifecycle-contract.md: "Inserting or removing
\* neighboring nodes must not silently transfer or clear those policies").
PoliciesStay ==
    [][/\ \A v \in DOMAIN versions :
             Topology(versions'[v]) # Topology(versions[v]) => Keeps(versions[v], versions'[v])
       /\ Len(versions') > Len(versions) => Keeps(versions[current], versions'[Len(versions')])]_vars
=============================================================================
