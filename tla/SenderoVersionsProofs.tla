----------------------- MODULE SenderoVersionsProofs -----------------------
(***************************************************************************)
(* Authoring, for any definitions, agents, policies and editors and any    *)
(* number of versions and edits: published definitions are immutable,      *)
(* executable and what their editor reviewed, and policies stay with their *)
(* nodes.  A step that touches a version saves or publishes one draft, or  *)
(* appends one; IInv says what every version is (Row), as a draft and once *)
(* it is published.                                                        *)
(***************************************************************************)
EXTENDS SenderoVersions, SequenceTheorems, FiniteSetTheorems, TLAPS

IsSequence(s) == s \in Seq({s[i] : i \in DOMAIN s})

\* The invariant behind it: versions are never lost from the middle.
Sequenced == IsSequence(versions)

\* Only version v may have changed, and it is a draft.
OnlyDraft(v) ==
    /\ v \in Drafts
    /\ DOMAIN versions' = DOMAIN versions
    /\ \A w \in DOMAIN versions \ {v} : versions'[w] = versions[w]

LEMMA FunctionIsSequence ==
    ASSUME NEW n \in Nat, NEW t, NEW S, t \in [1 .. n -> S]
    PROVE  IsSequence(t)
<1> DEFINE T == {t[i] : i \in DOMAIN t}
<1>1. t \in [1 .. n -> T] OBVIOUS
<1> HIDE DEF T
<1>2. t \in Seq(T) BY <1>1, SeqDef
<1> QED BY <1>2 DEF T, IsSequence

LEMMA Rewritten ==
    ASSUME NEW s, IsSequence(s), NEW v, NEW x
    PROVE  IsSequence([s EXCEPT ![v] = x])
<1> DEFINE S == {s[i] : i \in DOMAIN s}
<1> DEFINE t == [s EXCEPT ![v] = x]
<1>1. s \in Seq(S) BY DEF IsSequence
<1> HIDE DEF S
<1>2. s \in [1 .. Len(s) -> S] /\ Len(s) \in Nat BY <1>1, LenProperties
<1>3. t \in [1 .. Len(s) -> S \cup {x}] BY <1>2
<1> HIDE DEF t
<1>4. IsSequence(t) BY <1>2, <1>3, FunctionIsSequence
<1> QED BY <1>4 DEF t

LEMMA Extended ==
    ASSUME NEW s, IsSequence(s), NEW x
    PROVE  /\ IsSequence(Append(s, x))
           /\ Len(Append(s, x)) = Len(s) + 1 /\ Append(s, x)[Len(s) + 1] = x
           /\ DOMAIN s \subseteq DOMAIN Append(s, x)
           /\ \A i \in DOMAIN s : Append(s, x)[i] = s[i]
<1> DEFINE S == {s[i] : i \in DOMAIN s}
<1> DEFINE T == S \cup {x}
<1>1. s \in Seq(S) BY DEF IsSequence
<1> HIDE DEF S
<1>2. s \in Seq(T) BY <1>1, SeqMonotonic, S \subseteq T
<1>3. x \in T OBVIOUS
<1> HIDE DEF T
<1>4. /\ Append(s, x) \in Seq(T) /\ Len(Append(s, x)) = Len(s) + 1
      /\ \A i \in 1 .. Len(s) : Append(s, x)[i] = s[i]
      /\ Append(s, x)[Len(s) + 1] = x
  BY <1>2, <1>3, AppendProperties
<1>5. DOMAIN s = 1 .. Len(s) /\ Len(s) \in Nat BY <1>2, LenProperties
<1>6. /\ Append(s, x) \in [1 .. Len(s) + 1 -> T]
      /\ DOMAIN Append(s, x) = 1 .. Len(s) + 1
  BY <1>4, LenProperties
<1>7. Len(s) + 1 \in Nat BY <1>5
<1>8. IsSequence(Append(s, x)) BY <1>6, <1>7, FunctionIsSequence, Zenon
<1> QED BY <1>4, <1>5, <1>6, <1>8

-----------------------------------------------------------------------------
(* Steps. *)

LEMMA SaveTouches ==
    ASSUME NEW v, NEW nodes, NEW edges, Sequenced, Save(v, nodes, edges)
    PROVE  OnlyDraft(v) /\ Sequenced'
<1> DEFINE x == [[versions[v] EXCEPT !.nodes = nodes] EXCEPT !.edges = edges]
<1>1. v \in Drafts /\ v \in DOMAIN versions BY DEF Save, Drafts
<1>2. versions' = [versions EXCEPT ![v] = x] BY <1>1 DEF Save
<1> HIDE DEF x
<1>3. Sequenced' BY <1>2, Rewritten DEF Sequenced
<1> QED BY <1>1, <1>2, <1>3 DEF OnlyDraft

LEMMA PublishTouches ==
    ASSUME NEW v, NEW reviewed, Sequenced, Publish(v, reviewed)
    PROVE  OnlyDraft(v) /\ Sequenced'
<1> DEFINE x == [[[versions[v] EXCEPT !.status = "published"] EXCEPT !.nodes = Snapshots(v)]
                     EXCEPT !.reviewed = reviewed]
<1>1. v \in Drafts /\ v \in DOMAIN versions BY DEF Publish, Drafts
<1>2. versions' = [versions EXCEPT ![v] = x] BY <1>1 DEF Publish
<1> HIDE DEF x
<1>3. Sequenced' BY <1>2, Rewritten DEF Sequenced
<1> QED BY <1>1, <1>2, <1>3 DEF OnlyDraft

LEMMA DraftExtends ==
    ASSUME Sequenced, Draft
    PROVE  /\ Sequenced' /\ DOMAIN versions \subseteq DOMAIN versions'
           /\ \A v \in DOMAIN versions : versions'[v] = versions[v]
<1>1. PICK x : versions' = Append(versions, x) BY DEF Draft
<1> QED BY <1>1, Extended DEF Sequenced

\* Every edit ends in Save.
LEMMA EditTouches ==
    ASSUME Sequenced, Edit
    PROVE  \E v : OnlyDraft(v) /\ Sequenced'
<1>1. PICK v \in DOMAIN versions :
        NodeEdit(v) \/ EdgeEdit(v) \/ \E arcs \in Drawings, a \in Agents : Replace(v, arcs, a)
  BY DEF Edit
<1>2. ASSUME NEW n, RemoveAgent(v, n) PROVE OnlyDraft(v) /\ Sequenced'
  <2>1. PICK nodes, edges : Save(v, nodes, edges) BY <1>2, SMT DEF RemoveAgent
  <2> QED BY <2>1, SaveTouches
<1>3. ASSUME NEW n, NEW p, NEW fork, UpdateNode(v, n, p, fork) PROVE OnlyDraft(v) /\ Sequenced'
  BY <1>3, SaveTouches, Zenon DEF UpdateNode
<1>4. ASSUME NEW n, NEW e, NEW p, SetCompletionPolicy(v, n, e, p) PROVE OnlyDraft(v) /\ Sequenced'
  BY <1>4, SaveTouches, Zenon DEF SetCompletionPolicy
<1>5. ASSUME NEW e, Disconnect(v, e) PROVE OnlyDraft(v) /\ Sequenced'
  BY <1>5, SaveTouches, Zenon DEF Disconnect
<1>6. ASSUME NEW e, NEW p, NEW on, UpdateEdge(v, e, p, on) PROVE OnlyDraft(v) /\ Sequenced'
  BY <1>6, SaveTouches, Zenon DEF UpdateEdge
<1>7. ASSUME NEW s, NEW t, Connect(v, s, t) PROVE OnlyDraft(v) /\ Sequenced'
  BY <1>7, SaveTouches, Zenon DEF Connect
<1>8. ASSUME NEW n, NEW a, NEW p, NEW s, NEW t, AddAgent(v, n, a, p, s, t)
      PROVE  OnlyDraft(v) /\ Sequenced'
  BY <1>8, SaveTouches, Zenon DEF AddAgent
<1>9. ASSUME NEW arcs, NEW a, Replace(v, arcs, a) PROVE OnlyDraft(v) /\ Sequenced'
  BY <1>9, SaveTouches, Zenon DEF Replace
<1>10. CASE NodeEdit(v) BY <1>2, <1>3, <1>4, <1>10 DEF NodeEdit
<1>11. CASE EdgeEdit(v) BY <1>5, <1>6, <1>7, <1>8, <1>11 DEF EdgeEdit
<1> QED BY <1>1, <1>9, <1>10, <1>11

-----------------------------------------------------------------------------
(* The theorem. *)

LEMMA InitSequenced == Init => Sequenced
<1> SUFFICES ASSUME Init PROVE Sequenced OBVIOUS
<1>1. PICK x : versions = <<x>> BY DEF Init, New, Seeded
<1>2. versions \in [1 .. 1 -> {x}] BY <1>1
<1> QED BY <1>2, FunctionIsSequence DEF Sequenced

\* A step keeps the versions in sequence and leaves all but drafts alone.
LEMMA StepFreezes ==
    ASSUME Sequenced, [Next]_vars
    PROVE  /\ Sequenced'
           /\ \A v \in DOMAIN versions \ Drafts :
                 v \in DOMAIN versions' /\ versions'[v] = versions[v]
<1>1. CASE Edit BY <1>1, EditTouches DEF OnlyDraft
<1>2. CASE Draft BY <1>2, DraftExtends
<1>3. ASSUME NEW v, NEW reviewed, Publish(v, reviewed)
      PROVE  OnlyDraft(v) /\ Sequenced'
  BY <1>3, PublishTouches
<1>4. ASSUME NEW r, NEW v, Review(r, v) PROVE versions' = versions BY <1>4 DEF Review
<1>5. CASE Release
  <2>1. CASE versions' = versions BY <2>1 DEF Sequenced
  <2>2. CASE \E v : OnlyDraft(v) /\ Sequenced' BY <2>2 DEF OnlyDraft
  <2> QED BY <1>2, <1>3, <1>4, <1>5, <2>1, <2>2 DEF Release
<1>6. ASSUME NEW a, NEW body, NEW active, UpdateAgent(a, body, active) PROVE versions' = versions
  BY <1>6 DEF UpdateAgent
<1>7. CASE versions' = versions BY <1>7 DEF Sequenced
<1> QED BY <1>1, <1>5, <1>6, <1>7 DEF Next, vars

\* A published version stays as it is, under every edit, draft, publication
\* and agent edit (versions.ts: "Published definitions are immutable").
THEOREM PublishedStaysFrozen == Spec => PublishedFrozen
<1>1. Sequenced /\ [Next]_vars => Sequenced' BY StepFreezes
<1>2. Sequenced /\ [Next]_vars =>
        [\A v \in DOMAIN versions \ Drafts :
            v \in DOMAIN versions' /\ versions'[v] = versions[v]]_vars
  BY StepFreezes
<1> QED BY <1>1, <1>2, InitSequenced, PTL DEF Spec, PublishedFrozen

-----------------------------------------------------------------------------
(* What every version is, as a draft and once it is published. *)

Fits(v, nodes, edges) ==
    /\ DOMAIN nodes \subseteq Names /\ nodes \in [DOMAIN nodes -> NodeRows(v)]
    /\ edges \subseteq EdgeRows
    /\ \A e \in edges : e.src \in DOMAIN nodes \cup {Start} /\ e.dst \in DOMAIN nodes \cup {End}
    /\ \A n \in DOMAIN nodes :
          nodes[n].join \in {NoFork} \cup ({v} \X ((DOMAIN nodes \ {n}) \cup {Start, End}))

\* The editor read what is published, and its agents as they are pinned.
Reviewed(v, g) ==
    LET r == g.reviewed IN
    /\ r.version = v /\ r.edges = g.edges
    /\ \A n \in DOMAIN g.nodes :
          /\ [g.nodes[n] EXCEPT !.snapshot = Unseen] = r.nodes[n]
          /\ g.nodes[n].snapshot = r.agents[n].body

Shape(g) ==
    g = [status |-> g.status, edges |-> g.edges, reviewed |-> g.reviewed, nodes |-> g.nodes]

Row(v, g) ==
    /\ Shape(g) /\ g.status \in {"draft", "published"}
    /\ Fits(v, g.nodes, g.edges)
    /\ g.status = "draft" => \A n \in DOMAIN g.nodes : g.nodes[n].snapshot = Unseen
    /\ g.status = "published" =>
          /\ \A n \in DOMAIN g.nodes : g.nodes[n].snapshot \in Bodies
          /\ ExecutableVersion(v, g)
          /\ g.reviewed # Unseen => Reviewed(v, g)

\* The draft, if there is one, is the last version; goals execute the one before.
LastIsDraft ==
    \/ Drafts = {} /\ current = Len(versions)
    \/ Drafts = {Len(versions)} /\ current = IF Len(versions) = 1 THEN 1 ELSE Len(versions) - 1

IInv ==
    /\ Sequenced /\ Len(versions) >= 1
    /\ \A v \in DOMAIN versions : Row(v, versions[v])
    /\ LastIsDraft
    /\ agents \in [Agents -> [body : Bodies, active : BOOLEAN]]
    /\ edits \in 0 .. MaxEdits
    /\ seen = [r \in Editors |-> seen[r]]
    /\ \A r \in Editors : seen[r] = Unseen \/ seen[r].version \in DOMAIN versions

LEMMA SequenceDomain ==
  ASSUME NEW s, IsSequence(s)
  PROVE  Len(s) \in Nat /\ DOMAIN s = 1 .. Len(s)
BY LenProperties DEF IsSequence

LEMMA SameLength ==
  ASSUME NEW s, NEW t, IsSequence(s), IsSequence(t), DOMAIN s = DOMAIN t
  PROVE  Len(s) = Len(t)
<1> DEFINE m == Len(s)
           n == Len(t)
<1>1. m \in Nat /\ n \in Nat /\ 1 .. m = 1 .. n
  BY SequenceDomain
<1> HIDE DEF m, n
<1>2. \A i \in Int : i \in 1 .. m <=> i \in 1 .. n
  BY <1>1
<1>3. CASE m < n
  BY <1>1, <1>2, <1>3
<1>4. CASE n < m
  BY <1>1, <1>2, <1>4
<1>5. m = n
  BY <1>1, <1>3, <1>4
<1> QED
  BY <1>5 DEF m, n

LEMMA Numbered ==
  ASSUME IInv
  PROVE  /\ Len(versions) \in Nat /\ DOMAIN versions = 1 .. Len(versions)
         /\ Len(versions) >= 1 /\ current \in DOMAIN versions
<1>1. Len(versions) \in Nat /\ DOMAIN versions = 1 .. Len(versions) /\ Len(versions) >= 1
  BY SequenceDomain DEF IInv, Sequenced
<1> QED
  BY <1>1 DEF IInv, LastIsDraft

\* Executability depends on the ends of the connections and on joins and policies.
LEMMA SameExecutable ==
  ASSUME NEW v, NEW g, NEW h, h.edges = g.edges, DOMAIN h.nodes = DOMAIN g.nodes,
         \A n \in DOMAIN g.nodes : /\ h.nodes[n].join = g.nodes[n].join
                                   /\ h.nodes[n].policy = g.nodes[n].policy,
         ExecutableVersion(v, g)
  PROVE  ExecutableVersion(v, h)
<1>1. Executed(v, h) = Executed(v, g)
  BY DEF Executed
<1>2. \A n : Out(h, n) = Out(g, n)
  BY DEF Out
<1>3. \A n \in DOMAIN g.nodes : ActivePolicies(h, n) = ActivePolicies(g, n)
  BY <1>2 DEF ActivePolicies
<1>4. \A n \in DOMAIN h.nodes : Promotable(h, n)
  BY <1>3 DEF ExecutableVersion, Promotable
<1> QED
  BY <1>1, <1>4 DEF ExecutableVersion

-----------------------------------------------------------------------------
(* Policies: a node keeps the one it runs under. *)

LEMMA SameEffective ==
  ASSUME NEW g, NEW h, NEW n \in DOMAIN g.nodes, n \in DOMAIN h.nodes,
         h.nodes[n].policy = g.nodes[n].policy, Out(h, n) = Out(g, n)
  PROVE  Effective(h, n) = Effective(g, n)
<1>1. ActivePolicies(h, n) = ActivePolicies(g, n)
  BY DEF ActivePolicies
<1> QED
  BY <1>1 DEF Effective, Promotable, Preserved

LEMMA PromotedEffective ==
  ASSUME NEW g, NEW h, NEW n \in DOMAIN g.nodes, n \in DOMAIN h.nodes, Promotable(g, n),
         h.nodes[n].policy = Preserved(g, n), Effective(g, n) # Inherit
  PROVE  Effective(h, n) = Effective(g, n)
<1>1. Effective(g, n) = Preserved(g, n)
  BY DEF Effective
<1>2. h.nodes[n].policy # Inherit
  BY <1>1
<1>3. Promotable(h, n) /\ Preserved(h, n) = h.nodes[n].policy
  BY <1>2 DEF Promotable, Preserved
<1> QED
  BY <1>1, <1>3 DEF Effective

\* A change of connections that promotes every node whose connections it touches.
LEMMA ChangeKeeps ==
  ASSUME NEW g, NEW h,
         \A n \in DOMAIN g.nodes \cap DOMAIN h.nodes :
            \/ Promotable(g, n) /\ h.nodes[n].policy = Preserved(g, n)
            \/ h.nodes[n].policy = g.nodes[n].policy /\ Out(h, n) = Out(g, n)
  PROVE  Keeps(g, h)
<1> SUFFICES ASSUME NEW n \in DOMAIN g.nodes \cap DOMAIN h.nodes, Effective(g, n) # Inherit
             PROVE  Effective(h, n) = Effective(g, n)
  BY DEF Keeps
<1>1. CASE Promotable(g, n) /\ h.nodes[n].policy = Preserved(g, n)
  BY <1>1, PromotedEffective
<1>2. CASE h.nodes[n].policy = g.nodes[n].policy /\ Out(h, n) = Out(g, n)
  BY <1>2, SameEffective
<1> QED
  BY <1>1, <1>2

LEMMA PreservedTyped ==
  ASSUME NEW v, NEW g, Fits(v, g.nodes, g.edges), NEW n \in DOMAIN g.nodes
  PROVE  Preserved(g, n) \in Policies \cup {Inherit}
<1>1. g.nodes[n].policy \in Policies \cup {Inherit}
  BY DEF Fits, NodeRows
<1>2. ActivePolicies(g, n) \subseteq Policies
  BY DEF Fits, EdgeRows, ActivePolicies, Out
<1> QED
  BY <1>1, <1>2 DEF Preserved

\* Promotion changes nothing but policies.
LEMMA PromotedFields ==
  ASSUME NEW v, NEW g, Fits(v, g.nodes, g.edges), NEW S
  PROVE  /\ DOMAIN Promoted(g, S) = DOMAIN g.nodes
         /\ \A n \in DOMAIN g.nodes :
               LET node == Promoted(g, S)[n] IN
               /\ node \in NodeRows(v)
               /\ node.join = g.nodes[n].join /\ node.snapshot = g.nodes[n].snapshot
               /\ node.policy = IF n \in S THEN Preserved(g, n) ELSE g.nodes[n].policy
<1>1. DOMAIN Promoted(g, S) = DOMAIN g.nodes
  BY DEF Promoted
<1>2. ASSUME NEW n \in DOMAIN g.nodes
      PROVE  LET node == Promoted(g, S)[n] IN
             /\ node \in NodeRows(v)
             /\ node.join = g.nodes[n].join /\ node.snapshot = g.nodes[n].snapshot
             /\ node.policy = IF n \in S THEN Preserved(g, n) ELSE g.nodes[n].policy
  <2> DEFINE p == Preserved(g, n)
  <2>1. p \in Policies \cup {Inherit}
    BY PreservedTyped
  <2>2. g.nodes[n] \in NodeRows(v)
    BY DEF Fits
  <2>3. Promoted(g, S)[n] = IF n \in S THEN [g.nodes[n] EXCEPT !.policy = p] ELSE g.nodes[n]
    BY DEF Promoted
  <2> HIDE DEF p
  <2>4. CASE n \in S
    BY <2>1, <2>2, <2>3, <2>4 DEF NodeRows, p
  <2>5. CASE n \notin S
    BY <2>2, <2>3, <2>5
  <2> QED
    BY <2>4, <2>5
<1> QED
  BY <1>1, <1>2

-----------------------------------------------------------------------------
(* Every edit leaves a draft whose connections and joins are its own, and    *)
(* the policies of the nodes that stay.                                     *)

\* What version v is after a save.
Saved(v, h) ==
    /\ v \in Drafts /\ versions' = [versions EXCEPT ![v] = h]
    /\ Shape(h) /\ h.status = "draft"
    /\ edits' \in 0 .. MaxEdits
    /\ UNCHANGED <<current, agents, seen>>

GoodDraft(v, h) ==
    /\ Fits(v, h.nodes, h.edges)
    /\ \A n \in DOMAIN h.nodes : h.nodes[n].snapshot = Unseen
    /\ Topology(h) # Topology(versions[v]) => Keeps(versions[v], h)

LEMMA DraftRow ==
  ASSUME IInv, NEW v \in Drafts
  PROVE  /\ v \in DOMAIN versions /\ Row(v, versions[v]) /\ versions[v].status = "draft"
         /\ Fits(v, versions[v].nodes, versions[v].edges)
         /\ \A n \in DOMAIN versions[v].nodes : versions[v].nodes[n].snapshot = Unseen
BY DEF IInv, Drafts, Row

LEMMA ShapeKept ==
  ASSUME NEW g, Shape(g), NEW nodes, NEW edges
  PROVE  [[g EXCEPT !.nodes = nodes] EXCEPT !.edges = edges] =
            [status |-> g.status, edges |-> edges, reviewed |-> g.reviewed, nodes |-> nodes]
<1> DEFINE a == g.status
           b == g.edges
           c == g.reviewed
           d == g.nodes
           h == [[g EXCEPT !.nodes = nodes] EXCEPT !.edges = edges]
<1>1. g = [status |-> a, edges |-> b, reviewed |-> c, nodes |-> d]
  BY DEF Shape
<1> HIDE DEF a, b, c, d
<1>2. [g EXCEPT !.nodes = nodes] \in [status : {a}, edges : {b}, reviewed : {c}, nodes : {nodes}]
  BY <1>1
<1>3. h \in [status : {a}, edges : {edges}, reviewed : {c}, nodes : {nodes}]
  BY <1>2
<1> HIDE DEF h
<1>4. h = [status |-> a, edges |-> edges, reviewed |-> c, nodes |-> nodes]
  BY <1>3
<1> QED
  BY <1>4, Zenon DEF a, c, h

LEMMA SaveShape ==
  ASSUME IInv, NEW v, NEW nodes, NEW edges, Save(v, nodes, edges)
  PROVE  \E h : Saved(v, h) /\ h.nodes = nodes /\ h.edges = edges
<1> DEFINE g == versions[v]
           h == [[versions[v] EXCEPT !.nodes = nodes] EXCEPT !.edges = edges]
<1>1. v \in Drafts /\ v \in DOMAIN versions
  BY DEF Save, Drafts
<1>2. Shape(g) /\ g.status = "draft"
  BY <1>1, DraftRow DEF Row
<1>3. versions' = [versions EXCEPT ![v] = h]
  BY <1>1 DEF Save
<1>4. h = [status |-> g.status, edges |-> edges, reviewed |-> g.reviewed, nodes |-> nodes]
  BY <1>2, ShapeKept
<1>5. Shape(h) /\ h.status = "draft" /\ h.nodes = nodes /\ h.edges = edges
  BY <1>2, <1>4 DEF Shape
<1>6. edits' \in 0 .. MaxEdits
  BY BoundsAssumption DEF Save, EditBound, IInv
<1>7. UNCHANGED <<current, agents, seen>>
  BY DEF Save
<1> HIDE DEF h
<1>8. Saved(v, h)
  BY <1>1, <1>3, <1>5, <1>6, <1>7 DEF Saved
<1> QED
  BY <1>5, <1>8

LEMMA ConnectGood ==
  ASSUME IInv, NEW v, NEW s, NEW t, Connect(v, s, t)
  PROVE  \E h : Saved(v, h) /\ GoodDraft(v, h)
<1> DEFINE g == versions[v]
           new == Edge(s, t, Plain)
<1>1. /\ s \in DOMAIN g.nodes \cup {Start} /\ t \in DOMAIN g.nodes \cup {End}
      /\ Promotable(g, s)
      /\ Save(v, Promoted(g, {s}), g.edges \cup {new})
  BY DEF Connect
<1>2. PICK h : Saved(v, h) /\ h.nodes = Promoted(g, {s}) /\ h.edges = g.edges \cup {new}
  BY <1>1, SaveShape
<1>3. Fits(v, g.nodes, g.edges) /\ \A n \in DOMAIN g.nodes : g.nodes[n].snapshot = Unseen
  BY <1>2, DraftRow DEF Saved
<1> HIDE DEF g
<1>4. /\ DOMAIN h.nodes = DOMAIN g.nodes
      /\ \A n \in DOMAIN g.nodes :
            /\ h.nodes[n] \in NodeRows(v)
            /\ h.nodes[n].join = g.nodes[n].join /\ h.nodes[n].snapshot = g.nodes[n].snapshot
            /\ h.nodes[n].policy = IF n \in {s} THEN Preserved(g, n) ELSE g.nodes[n].policy
  BY <1>2, <1>3, PromotedFields
<1>5. new \in EdgeRows /\ new.src = s /\ new.dst = t
  BY <1>1, <1>3, PoliciesAssumption DEF Edge, EdgeRows, Fits
<1>6. h.nodes \in [DOMAIN h.nodes -> NodeRows(v)]
  <2>1. h.nodes = [n \in DOMAIN g.nodes |-> h.nodes[n]]
    BY <1>2 DEF Promoted
  <2> QED
    BY <1>4, <2>1
<1> HIDE DEF new
<1>7. Fits(v, h.nodes, h.edges)
  BY <1>1, <1>2, <1>3, <1>4, <1>5, <1>6 DEF Fits
<1>8. Keeps(g, h)
  <2>1. ASSUME NEW n \in DOMAIN g.nodes, n # s PROVE Out(h, n) = Out(g, n)
    BY <1>2, <1>5, <2>1 DEF Out
  <2> QED
    BY <1>1, <1>4, <2>1, ChangeKeeps
<1> QED
  BY <1>2, <1>3, <1>4, <1>7, <1>8 DEF GoodDraft, g

LEMMA DisconnectGood ==
  ASSUME IInv, NEW v, NEW e \in versions[v].edges, Disconnect(v, e)
  PROVE  \E h : Saved(v, h) /\ GoodDraft(v, h)
<1> DEFINE g == versions[v]
           s == e.src
<1>1. Promotable(g, s) /\ Save(v, Promoted(g, {s}), g.edges \ {e})
  BY DEF Disconnect
<1>2. PICK h : Saved(v, h) /\ h.nodes = Promoted(g, {s}) /\ h.edges = g.edges \ {e}
  BY <1>1, SaveShape
<1>3. Fits(v, g.nodes, g.edges) /\ \A n \in DOMAIN g.nodes : g.nodes[n].snapshot = Unseen
  BY <1>2, DraftRow DEF Saved
<1> HIDE DEF g
<1>4. /\ DOMAIN h.nodes = DOMAIN g.nodes
      /\ \A n \in DOMAIN g.nodes :
            /\ h.nodes[n] \in NodeRows(v)
            /\ h.nodes[n].join = g.nodes[n].join /\ h.nodes[n].snapshot = g.nodes[n].snapshot
            /\ h.nodes[n].policy = IF n \in {s} THEN Preserved(g, n) ELSE g.nodes[n].policy
  BY <1>2, <1>3, PromotedFields
<1>5. h.nodes \in [DOMAIN h.nodes -> NodeRows(v)]
  <2>1. h.nodes = [n \in DOMAIN g.nodes |-> h.nodes[n]]
    BY <1>2 DEF Promoted
  <2> QED
    BY <1>4, <2>1
<1>6. Fits(v, h.nodes, h.edges)
  BY <1>2, <1>3, <1>4, <1>5 DEF Fits
<1>7. Keeps(g, h)
  <2>1. ASSUME NEW n \in DOMAIN g.nodes, n # s PROVE Out(h, n) = Out(g, n)
    BY <1>2, <2>1 DEF Out
  <2> HIDE DEF s
  <2> QED
    BY <1>1, <1>4, <2>1, ChangeKeeps
<1> QED
  BY <1>2, <1>3, <1>4, <1>6, <1>7 DEF GoodDraft, g

\* Edits of what a connection or a node says leave the topology alone.
LEMMA UpdateEdgeGood ==
  ASSUME IInv, NEW v, NEW e \in versions[v].edges, NEW p \in Policies, NEW on \in BOOLEAN,
         UpdateEdge(v, e, p, on)
  PROVE  \E h : Saved(v, h) /\ GoodDraft(v, h)
<1> DEFINE g == versions[v]
           f == [e EXCEPT !.policy = p, !.on = on]
<1>1. Save(v, g.nodes, (g.edges \ {e}) \cup {f})
  BY DEF UpdateEdge
<1>2. PICK h : Saved(v, h) /\ h.nodes = g.nodes /\ h.edges = (g.edges \ {e}) \cup {f}
  BY <1>1, SaveShape
<1>3. Fits(v, g.nodes, g.edges) /\ \A n \in DOMAIN g.nodes : g.nodes[n].snapshot = Unseen
  BY <1>2, DraftRow DEF Saved
<1>4. f \in EdgeRows /\ f.src = e.src /\ f.dst = e.dst
  BY <1>3 DEF Fits, EdgeRows
<1>5. e \in g.edges
  OBVIOUS
<1> HIDE DEF g, f
<1>6. Fits(v, h.nodes, h.edges)
  BY <1>2, <1>3, <1>4, <1>5 DEF Fits
<1>7. Topology(h) = Topology(g)
  <2>1. {<<x.src, x.dst>> : x \in h.edges} = {<<x.src, x.dst>> : x \in g.edges}
    BY <1>2, <1>4, <1>5
  <2> QED
    BY <1>2, <2>1 DEF Topology
<1> QED
  BY <1>2, <1>3, <1>6, <1>7 DEF GoodDraft, g

LEMMA UpdateNodeGood ==
  ASSUME IInv, NEW v, NEW n \in DOMAIN versions[v].nodes,
         NEW p \in Policies \cup {versions[v].nodes[n].policy}, NEW fork, UpdateNode(v, n, p, fork)
  PROVE  \E h : Saved(v, h) /\ GoodDraft(v, h)
<1> DEFINE g == versions[v]
           x == [g.nodes[n] EXCEPT !.policy = p, !.join = fork]
<1>1. /\ fork \in {NoFork} \cup ({v} \X ((DOMAIN g.nodes \cup {Start, End}) \ {n}))
      /\ Save(v, [g.nodes EXCEPT ![n] = x], g.edges)
  BY DEF UpdateNode
<1>2. PICK h : Saved(v, h) /\ h.nodes = [g.nodes EXCEPT ![n] = x] /\ h.edges = g.edges
  BY <1>1, SaveShape
<1>3. Fits(v, g.nodes, g.edges) /\ \A m \in DOMAIN g.nodes : g.nodes[m].snapshot = Unseen
  BY <1>2, DraftRow DEF Saved
<1>4. DOMAIN g.nodes \subseteq Names /\ g.nodes[n] \in NodeRows(v)
  BY <1>3 DEF Fits
<1>5. fork \in {NoFork} \cup ({v} \X (Names \cup {Start, End}))
  BY <1>1, <1>4
<1>6. p \in Policies \cup {Inherit}
  BY <1>4 DEF NodeRows
<1>7. x \in NodeRows(v) /\ x.join = fork /\ x.snapshot = g.nodes[n].snapshot
  BY <1>4, <1>5, <1>6 DEF NodeRows
<1> HIDE DEF g, x
<1>8. /\ DOMAIN h.nodes = DOMAIN g.nodes
      /\ \A m \in DOMAIN g.nodes : h.nodes[m] = IF m = n THEN x ELSE g.nodes[m]
  BY <1>2
<1>9. h.nodes \in [DOMAIN h.nodes -> NodeRows(v)]
  BY <1>2, <1>3, <1>7, <1>8 DEF Fits
<1>10. Fits(v, h.nodes, h.edges)
  BY <1>1, <1>2, <1>3, <1>7, <1>8, <1>9 DEF Fits
<1>11. Topology(h) = Topology(g)
  BY <1>2, <1>8 DEF Topology
<1> QED
  BY <1>2, <1>3, <1>7, <1>8, <1>10, <1>11 DEF GoodDraft, g

LEMMA SetCompletionGood ==
  ASSUME IInv, NEW v, NEW n \in DOMAIN versions[v].nodes, NEW e \in versions[v].edges,
         NEW p \in Policies, SetCompletionPolicy(v, n, e, p)
  PROVE  \E h : Saved(v, h) /\ GoodDraft(v, h)
<1> DEFINE g == versions[v]
           f == [e EXCEPT !.policy = p]
           x == [g.nodes[n] EXCEPT !.policy = p]
<1>1. Save(v, [g.nodes EXCEPT ![n] = x], (g.edges \ {e}) \cup {f})
  BY DEF SetCompletionPolicy
<1>2. PICK h : Saved(v, h) /\ h.nodes = [g.nodes EXCEPT ![n] = x]
               /\ h.edges = (g.edges \ {e}) \cup {f}
  BY <1>1, SaveShape
<1>3. Fits(v, g.nodes, g.edges) /\ \A m \in DOMAIN g.nodes : g.nodes[m].snapshot = Unseen
  BY <1>2, DraftRow DEF Saved
<1>4. f \in EdgeRows /\ f.src = e.src /\ f.dst = e.dst
  BY <1>3 DEF Fits, EdgeRows
<1>5. e \in g.edges /\ g.nodes[n] \in NodeRows(v)
  BY <1>3 DEF Fits
<1>6. x \in NodeRows(v) /\ x.join = g.nodes[n].join /\ x.snapshot = g.nodes[n].snapshot
  BY <1>5 DEF NodeRows
<1> HIDE DEF g, f, x
<1>7. /\ DOMAIN h.nodes = DOMAIN g.nodes
      /\ \A m \in DOMAIN g.nodes : h.nodes[m] = IF m = n THEN x ELSE g.nodes[m]
  BY <1>2
<1>8. h.nodes \in [DOMAIN h.nodes -> NodeRows(v)]
  BY <1>2, <1>3, <1>6, <1>7 DEF Fits
<1>9. Fits(v, h.nodes, h.edges)
  BY <1>2, <1>3, <1>4, <1>5, <1>6, <1>7, <1>8 DEF Fits
<1>10. Topology(h) = Topology(g)
  <2>1. {<<y.src, y.dst>> : y \in h.edges} = {<<y.src, y.dst>> : y \in g.edges}
    BY <1>2, <1>4, <1>5
  <2> QED
    BY <1>7, <2>1 DEF Topology
<1> QED
  BY <1>2, <1>3, <1>6, <1>7, <1>9, <1>10 DEF GoodDraft, g

LEMMA AddAgentGood ==
  ASSUME IInv, NEW v, NEW n \in Names, NEW a \in Agents, NEW p \in Policies, NEW s, NEW t,
         AddAgent(v, n, a, p, s, t)
  PROVE  \E h : Saved(v, h) /\ GoodDraft(v, h)
<1> DEFINE g == versions[v]
           split == {e \in g.edges : e.src = s /\ e.dst = t}
           incoming == IF split = {} THEN {Edge(s, n, Plain)} ELSE {[e EXCEPT !.dst = n] : e \in split}
           outgoing == Edge(n, t, Plain)
           node == [agent |-> a, policy |-> p, join |-> NoFork, snapshot |-> Unseen]
           N == [m \in DOMAIN g.nodes \cup {n} |-> IF m = n THEN node ELSE Promoted(g, {s})[m]]
           E == (g.edges \ split) \cup incoming \cup {outgoing}
<1>1. /\ n \notin DOMAIN g.nodes
      /\ s \in DOMAIN g.nodes \cup {Start} /\ t \in DOMAIN g.nodes \cup {End}
      /\ Promotable(g, s) /\ Save(v, N, E)
  BY DEF AddAgent
<1> HIDE DEF N, E
<1>2. PICK h : Saved(v, h) /\ h.nodes = N /\ h.edges = E
  BY <1>1, SaveShape
<1>3. Fits(v, g.nodes, g.edges) /\ \A m \in DOMAIN g.nodes : g.nodes[m].snapshot = Unseen
  BY <1>2, DraftRow DEF Saved
<1> HIDE DEF g
<1>4. s \in Names \cup {Start} /\ t \in Names \cup {End} /\ n # Start /\ n # End /\ n # s
  BY <1>1, <1>3, NamesAssumption DEF Fits
<1>5. outgoing \in EdgeRows /\ outgoing.src = n /\ outgoing.dst = t
  BY <1>4, PoliciesAssumption DEF Edge, EdgeRows
<1>6. \A f \in incoming : f \in EdgeRows /\ f.src = s /\ f.dst = n
  <2>1. CASE split = {}
    <3>1. Edge(s, n, Plain) \in EdgeRows /\ Edge(s, n, Plain).src = s /\ Edge(s, n, Plain).dst = n
      BY <1>4, PoliciesAssumption DEF Edge, EdgeRows
    <3> QED
      BY <2>1, <3>1
  <2>2. CASE split # {}
    <3>1. ASSUME NEW e \in split
          PROVE  [e EXCEPT !.dst = n] \in EdgeRows /\ [e EXCEPT !.dst = n].src = s
                 /\ [e EXCEPT !.dst = n].dst = n
      <4>1. e \in EdgeRows /\ e.src = s
        BY <1>3 DEF Fits
      <4> QED
        BY <4>1 DEF EdgeRows
    <3> QED
      BY <2>2, <3>1
  <2> QED
    BY <2>1, <2>2
<1>7. node \in NodeRows(v) /\ node.join = NoFork /\ node.snapshot = Unseen
  BY DEF NodeRows
<1> HIDE DEF incoming, outgoing, node
<1>8. /\ DOMAIN Promoted(g, {s}) = DOMAIN g.nodes
      /\ \A m \in DOMAIN g.nodes :
            LET x == Promoted(g, {s})[m] IN
            /\ x \in NodeRows(v)
            /\ x.join = g.nodes[m].join /\ x.snapshot = g.nodes[m].snapshot
            /\ x.policy = IF m \in {s} THEN Preserved(g, m) ELSE g.nodes[m].policy
  BY <1>3, PromotedFields
<1>9. /\ DOMAIN h.nodes = DOMAIN g.nodes \cup {n}
      /\ h.nodes[n] = node
      /\ \A m \in DOMAIN g.nodes : h.nodes[m] = Promoted(g, {s})[m]
  BY <1>1, <1>2 DEF N
<1>10. h.nodes \in [DOMAIN h.nodes -> NodeRows(v)]
  <2>1. h.nodes = [m \in DOMAIN h.nodes |-> h.nodes[m]]
    BY <1>2, <1>9 DEF N
  <2>2. \A m \in DOMAIN h.nodes : h.nodes[m] \in NodeRows(v)
    BY <1>7, <1>8, <1>9
  <2> QED
    BY <2>1, <2>2
<1>11. \A f \in h.edges : \/ f \in g.edges
                          \/ f \in EdgeRows /\ f.src = s /\ f.dst = n
                          \/ f \in EdgeRows /\ f.src = n /\ f.dst = t
  BY <1>2, <1>5, <1>6 DEF E
<1>12. Fits(v, h.nodes, h.edges)
  <2>1. DOMAIN h.nodes \subseteq Names /\ h.edges \subseteq EdgeRows
    BY <1>3, <1>9, <1>11 DEF Fits
  <2>2. \A f \in h.edges : f.src \in DOMAIN h.nodes \cup {Start} /\ f.dst \in DOMAIN h.nodes \cup {End}
    BY <1>1, <1>3, <1>9, <1>11 DEF Fits
  <2>3. ASSUME NEW m \in DOMAIN h.nodes
        PROVE  h.nodes[m].join \in {NoFork} \cup ({v} \X ((DOMAIN h.nodes \ {m}) \cup {Start, End}))
    <3>1. CASE m = n
      BY <1>7, <1>9, <3>1
    <3>2. CASE m \in DOMAIN g.nodes
      <4>1. h.nodes[m].join = g.nodes[m].join
        BY <1>8, <1>9, <3>2
      <4>2. g.nodes[m].join \in {NoFork} \cup ({v} \X ((DOMAIN g.nodes \ {m}) \cup {Start, End}))
        BY <1>3, <3>2 DEF Fits
      <4> QED
        BY <1>9, <4>1, <4>2
    <3> QED
      BY <1>9, <3>1, <3>2
  <2> QED
    BY <1>10, <2>1, <2>2, <2>3 DEF Fits
<1>13. Keeps(g, h)
  <2>1. ASSUME NEW m \in DOMAIN g.nodes, m # s PROVE Out(h, m) = Out(g, m)
    <3>1. m # n
      BY <1>1
    <3>2. \A f : f \in h.edges /\ f.src = m <=> f \in g.edges /\ f.src = m
      BY <1>2, <1>5, <1>6, <2>1, <3>1 DEF E
    <3> QED
      BY <3>2 DEF Out
  <2>2. ASSUME NEW m \in DOMAIN g.nodes \cap DOMAIN h.nodes
        PROVE  \/ Promotable(g, m) /\ h.nodes[m].policy = Preserved(g, m)
               \/ h.nodes[m].policy = g.nodes[m].policy /\ Out(h, m) = Out(g, m)
    <3>1. h.nodes[m].policy = IF m \in {s} THEN Preserved(g, m) ELSE g.nodes[m].policy
      BY <1>8, <1>9
    <3> QED
      BY <1>1, <2>1, <3>1
  <2> QED
    BY <2>2, ChangeKeeps, Zenon
<1>14. \A m \in DOMAIN h.nodes : h.nodes[m].snapshot = Unseen
  BY <1>3, <1>7, <1>8, <1>9
<1> QED
  BY <1>2, <1>12, <1>13, <1>14 DEF GoodDraft, g

\* A bridge leads from a predecessor of the node that goes to a successor.
LEMMA RemoveAgentGood ==
  ASSUME IInv, NEW v, NEW n \in DOMAIN versions[v].nodes, RemoveAgent(v, n)
  PROVE  \E h : Saved(v, h) /\ GoodDraft(v, h)
<1> DEFINE g == versions[v]
           sources == {e.src : e \in In(g, n)}
           bridges == {[b EXCEPT !.dst = f.dst] : b \in In(g, n), f \in Out(g, n)}
           reconnected == {e \in bridges : /\ n \notin {e.src, e.dst}
                                           /\ \A x \in g.edges : <<x.src, x.dst>> # <<e.src, e.dst>>}
           N == [m \in DOMAIN g.nodes \ {n} |-> Promoted(g, sources)[m]]
           E == (g.edges \ (In(g, n) \cup Out(g, n))) \cup reconnected
<1>1. /\ \A m \in DOMAIN g.nodes : g.nodes[m].join # <<v, n>>
      /\ \A m \in sources : Promotable(g, m)
      /\ Save(v, N, E)
  BY DEF RemoveAgent
<1> HIDE DEF N, E
<1>2. PICK h : Saved(v, h) /\ h.nodes = N /\ h.edges = E
  BY <1>1, SaveShape
<1>3. Fits(v, g.nodes, g.edges) /\ \A m \in DOMAIN g.nodes : g.nodes[m].snapshot = Unseen
  BY <1>2, DraftRow DEF Saved
<1> HIDE DEF g
<1>4. \A x \in reconnected : /\ x \in EdgeRows /\ x.src \in sources
                             /\ x.src # n /\ x.dst # n
                             /\ x.src \in DOMAIN g.nodes \cup {Start}
                             /\ x.dst \in DOMAIN g.nodes \cup {End}
  <2>1. ASSUME NEW b \in In(g, n), NEW f \in Out(g, n)
        PROVE  LET x == [b EXCEPT !.dst = f.dst] IN
               /\ x \in EdgeRows /\ x.src \in sources
               /\ x.src \in DOMAIN g.nodes \cup {Start} /\ x.dst \in DOMAIN g.nodes \cup {End}
    <3>1. b \in g.edges /\ f \in g.edges /\ b \in EdgeRows /\ f \in EdgeRows
      BY <1>3 DEF In, Out, Fits
    <3>2. b.src \in DOMAIN g.nodes \cup {Start} /\ f.dst \in DOMAIN g.nodes \cup {End}
      BY <1>3, <3>1 DEF Fits
    <3>3. LET x == [b EXCEPT !.dst = f.dst] IN x \in EdgeRows /\ x.src = b.src /\ x.dst = f.dst
      BY <3>1 DEF EdgeRows
    <3>4. b.src \in sources
      OBVIOUS
    <3> QED
      BY <3>2, <3>3, <3>4
  <2>2. ASSUME NEW x \in reconnected
        PROVE  /\ x \in EdgeRows /\ x.src \in sources
               /\ x.src # n /\ x.dst # n
               /\ x.src \in DOMAIN g.nodes \cup {Start}
               /\ x.dst \in DOMAIN g.nodes \cup {End}
    <3>1. x \in bridges /\ x.src # n /\ x.dst # n
      OBVIOUS
    <3>2. PICK b \in In(g, n), f \in Out(g, n) : x = [b EXCEPT !.dst = f.dst]
      BY <3>1
    <3> HIDE DEF reconnected, bridges, sources
    <3> QED
      BY <2>1, <3>1, <3>2
  <2> QED
    BY <2>2
<1> HIDE DEF reconnected
<1>5. ASSUME NEW S
      PROVE  /\ DOMAIN Promoted(g, S) = DOMAIN g.nodes
             /\ \A m \in DOMAIN g.nodes :
                   /\ Promoted(g, S)[m] \in NodeRows(v)
                   /\ Promoted(g, S)[m].join = g.nodes[m].join
                   /\ Promoted(g, S)[m].snapshot = g.nodes[m].snapshot
                   /\ Promoted(g, S)[m].policy = IF m \in S THEN Preserved(g, m) ELSE g.nodes[m].policy
  <2> HIDE DEF sources, bridges
  <2>1. Fits(v, g.nodes, g.edges)
    BY <1>3
  <2>2. DOMAIN Promoted(g, S) = DOMAIN g.nodes
    BY <2>1, PromotedFields
  <2>3. ASSUME NEW m \in DOMAIN g.nodes
        PROVE  /\ Promoted(g, S)[m] \in NodeRows(v)
               /\ Promoted(g, S)[m].join = g.nodes[m].join
               /\ Promoted(g, S)[m].snapshot = g.nodes[m].snapshot
               /\ Promoted(g, S)[m].policy = IF m \in S THEN Preserved(g, m) ELSE g.nodes[m].policy
    BY <2>1, PromotedFields
  <2> QED
    BY <2>2, <2>3
<1>6. DOMAIN h.nodes = DOMAIN g.nodes \ {n}
  BY <1>2 DEF N
<1>7. ASSUME NEW m \in DOMAIN h.nodes
       PROVE  /\ h.nodes[m] \in NodeRows(v)
              /\ h.nodes[m].join = g.nodes[m].join
              /\ h.nodes[m].snapshot = g.nodes[m].snapshot
              /\ h.nodes[m].policy = IF m \in sources THEN Preserved(g, m) ELSE g.nodes[m].policy
  <2>1. h.nodes[m] = Promoted(g, sources)[m]
    BY <1>2, <1>6 DEF N
  <2> HIDE DEF sources
  <2> QED
    BY <1>5, <1>6, <2>1
<1>8. h.nodes \in [DOMAIN h.nodes -> NodeRows(v)]
  <2>1. h.nodes = [m \in DOMAIN h.nodes |-> h.nodes[m]]
    BY <1>2, <1>6 DEF N
  <2> QED
    BY <1>7, <2>1
<1>9. \A f \in h.edges : f \in reconnected \/ (f \in g.edges /\ f.src # n /\ f.dst # n)
  BY <1>2 DEF E, In, Out
<1>10. Fits(v, h.nodes, h.edges)
  <2>1. DOMAIN h.nodes \subseteq Names /\ h.edges \subseteq EdgeRows
    BY <1>3, <1>4, <1>6, <1>9 DEF Fits
  <2>2. \A f \in h.edges : f.src \in DOMAIN h.nodes \cup {Start} /\ f.dst \in DOMAIN h.nodes \cup {End}
    BY <1>3, <1>4, <1>6, <1>9 DEF Fits
  <2>3. ASSUME NEW m \in DOMAIN h.nodes
        PROVE  h.nodes[m].join \in {NoFork} \cup ({v} \X ((DOMAIN h.nodes \ {m}) \cup {Start, End}))
    <3>1. h.nodes[m].join = g.nodes[m].join /\ g.nodes[m].join # <<v, n>>
      BY <1>1, <1>6, <1>7
    <3>2. g.nodes[m].join \in {NoFork} \cup ({v} \X ((DOMAIN g.nodes \ {m}) \cup {Start, End}))
      BY <1>3, <1>6 DEF Fits
    <3> QED
      BY <1>6, <3>1, <3>2
  <2> QED
    BY <1>8, <2>1, <2>2, <2>3 DEF Fits
<1>11. Keeps(g, h)
  <2>1. ASSUME NEW m \in DOMAIN h.nodes, m \notin sources PROVE Out(h, m) = Out(g, m)
    <3>1. \A f \in g.edges : f.src = m => f.src # n /\ f.dst # n
      BY <1>6, <2>1 DEF In
    <3>2. \A f : f \in h.edges /\ f.src = m <=> f \in g.edges /\ f.src = m
      BY <1>2, <1>4, <2>1, <3>1 DEF E, In, Out
    <3> QED
      BY <3>2 DEF Out
  <2>2. ASSUME NEW m \in DOMAIN g.nodes \cap DOMAIN h.nodes
        PROVE  \/ Promotable(g, m) /\ h.nodes[m].policy = Preserved(g, m)
               \/ h.nodes[m].policy = g.nodes[m].policy /\ Out(h, m) = Out(g, m)
    <3>1. h.nodes[m].policy = IF m \in sources THEN Preserved(g, m) ELSE g.nodes[m].policy
      BY <1>7
    <3> HIDE DEF sources
    <3> QED
      BY <1>1, <2>1, <3>1
  <2> QED
    BY <2>2, ChangeKeeps, Zenon
<1>12. \A m \in DOMAIN h.nodes : h.nodes[m].snapshot = Unseen
  BY <1>3, <1>6, <1>7
<1> QED
  BY <1>2, <1>10, <1>11, <1>12 DEF GoodDraft, g

\* A replacement keeps the policies and joins of the nodes that stay.
LEMMA ReplaceGood ==
  ASSUME IInv, NEW v, NEW arcs \in Drawings, NEW a \in Agents, Replace(v, arcs, a)
  PROVE  \E h : Saved(v, h) /\ GoodDraft(v, h)
<1> DEFINE g == versions[v]
           nodes == (UNION {{x[1], x[2]} : x \in arcs}) \ {Start, End}
           policy(n) == IF ~(n \in DOMAIN g.nodes) \/ Preserved(g, n) = Inherit
                        THEN Plain ELSE Preserved(g, n)
           row(n) == [agent |-> IF n \in DOMAIN g.nodes THEN g.nodes[n].agent ELSE a,
                      policy |-> policy(n), snapshot |-> Unseen,
                      join |-> IF n \in DOMAIN g.nodes THEN g.nodes[n].join ELSE NoFork]
           N == [n \in nodes |-> row(n)]
           added == {Edge(x[1], x[2], Plain) :
                        x \in {y \in arcs : \A e \in g.edges : <<e.src, e.dst>> # y}}
           E == {e \in g.edges : <<e.src, e.dst>> \in arcs} \cup added
<1>1. /\ \A n \in nodes : Promotable(g, n)
      /\ \A n \in nodes : N[n].join \in {NoFork} \cup ({v} \X (nodes \cup {Start, End}))
      /\ Save(v, N, E)
  BY DEF Replace
<1>2. \A n \in nodes : N[n] = row(n)
  OBVIOUS
<1> HIDE DEF N, E
<1>3. PICK h : Saved(v, h) /\ h.nodes = N /\ h.edges = E
  BY <1>1, SaveShape
<1>4. Fits(v, g.nodes, g.edges)
  BY <1>3, DraftRow DEF Saved
<1>5. DOMAIN h.nodes = nodes
  BY <1>3 DEF N
<1> HIDE DEF g
<1>6. \A x \in arcs : /\ x \in (Names \cup {Start}) \X (Names \cup {End})
                      /\ x[1] \in Names \cup {Start} /\ x[2] \in Names \cup {End}
  BY DrawingsAssumption
<1>7. ASSUME NEW n \in nodes PROVE n \in Names
  <2>1. PICK x \in arcs : n \in {x[1], x[2]}
    OBVIOUS
  <2>2. n \notin {Start, End}
    BY Zenon
  <2> HIDE DEF nodes
  <2> QED
    BY <1>6, <2>1, <2>2
<1>8. ASSUME NEW x \in arcs PROVE x[1] \in nodes \cup {Start} /\ x[2] \in nodes \cup {End}
  <2> DEFINE U == UNION {{y[1], y[2]} : y \in arcs}
  <2>1. x[1] \in U /\ x[2] \in U
    OBVIOUS
  <2>2. x[1] # End /\ x[2] # Start
    BY <1>6, NamesAssumption
  <2>3. nodes = U \ {Start, End}
    OBVIOUS
  <2> HIDE DEF U, nodes
  <2> QED
    BY <2>1, <2>2, <2>3
<1>9. \A x \in arcs : LET e == Edge(x[1], x[2], Plain) IN
                      e \in EdgeRows /\ e.src = x[1] /\ e.dst = x[2]
  BY <1>6, PoliciesAssumption DEF Edge, EdgeRows
<1>10. ASSUME NEW n \in nodes
       PROVE  /\ row(n) \in NodeRows(v) /\ row(n).snapshot = Unseen /\ row(n).policy = policy(n)
              /\ row(n).join = IF n \in DOMAIN g.nodes THEN g.nodes[n].join ELSE NoFork
  <2>1. policy(n) \in Policies
    <3>1. n \in DOMAIN g.nodes => Preserved(g, n) \in Policies \cup {Inherit}
      BY <1>4, PreservedTyped
    <3> QED
      BY <3>1, PoliciesAssumption
  <2>2. n \in DOMAIN g.nodes => g.nodes[n] \in NodeRows(v)
    BY <1>4 DEF Fits
  <2> HIDE DEF policy
  <2> QED
    BY <2>1, <2>2 DEF NodeRows
<1>11. \A n \in nodes : h.nodes[n] = row(n)
  BY <1>2, <1>3
<1> HIDE DEF nodes, row
<1>12. h.nodes \in [DOMAIN h.nodes -> NodeRows(v)]
  <2>1. h.nodes = [n \in DOMAIN h.nodes |-> h.nodes[n]]
    BY <1>3, <1>5 DEF N
  <2> QED
    BY <1>5, <1>10, <1>11, <2>1
<1>13. Fits(v, h.nodes, h.edges)
  <2>1. ASSUME NEW e \in h.edges
        PROVE  e \in EdgeRows /\ <<e.src, e.dst>> \in arcs
    <3>1. CASE e \in g.edges /\ <<e.src, e.dst>> \in arcs
      BY <1>4, <3>1 DEF Fits
    <3>2. CASE e \in added
      <4>1. PICK x \in arcs : e = Edge(x[1], x[2], Plain)
        BY <3>2
      <4>2. x = <<x[1], x[2]>>
        BY <1>6
      <4> QED
        BY <1>9, <4>1, <4>2
    <3> QED
      BY <1>3, <3>1, <3>2 DEF E
  <2>2. ASSUME NEW e \in h.edges
        PROVE  e.src \in nodes \cup {Start} /\ e.dst \in nodes \cup {End}
    BY <1>8, <2>1
  <2>3. ASSUME NEW n \in nodes
        PROVE  h.nodes[n].join \in {NoFork} \cup ({v} \X ((nodes \ {n}) \cup {Start, End}))
    <3>1. h.nodes[n].join \in {NoFork} \cup ({v} \X (nodes \cup {Start, End}))
      BY <1>1, <1>3
    <3>2. h.nodes[n].join = IF n \in DOMAIN g.nodes THEN g.nodes[n].join ELSE NoFork
      BY <1>10, <1>11
    <3>3. n \in DOMAIN g.nodes =>
            g.nodes[n].join \in {NoFork} \cup ({v} \X ((DOMAIN g.nodes \ {n}) \cup {Start, End}))
      BY <1>4 DEF Fits
    <3> QED
      BY <3>1, <3>2, <3>3
  <2> QED
    BY <1>5, <1>7, <1>12, <2>1, <2>2, <2>3 DEF Fits
<1>14. Keeps(g, h)
  <2> SUFFICES ASSUME NEW n \in DOMAIN g.nodes \cap DOMAIN h.nodes, Effective(g, n) # Inherit
               PROVE  Effective(h, n) = Effective(g, n)
    BY DEF Keeps
  <2>1. n \in nodes /\ Promotable(g, n)
    BY <1>1, <1>5
  <2>2. Preserved(g, n) # Inherit
    BY <2>1 DEF Effective
  <2>3. h.nodes[n].policy = Preserved(g, n)
    BY <1>10, <1>11, <2>1, <2>2
  <2> QED
    BY <2>1, <2>3, PromotedEffective
<1>15. \A n \in DOMAIN h.nodes : h.nodes[n].snapshot = Unseen
  BY <1>5, <1>10, <1>11
<1> QED
  BY <1>3, <1>13, <1>14, <1>15 DEF GoodDraft, g

\* What PoliciesStay says of a step.
Stay ==
    /\ \A v \in DOMAIN versions :
          Topology(versions'[v]) # Topology(versions[v]) => Keeps(versions[v], versions'[v])
    /\ Len(versions') > Len(versions) => Keeps(versions[current], versions'[Len(versions')])

LEMMA EditGood ==
  ASSUME IInv, Edit
  PROVE  \E v, h : Saved(v, h) /\ GoodDraft(v, h)
<1>1. PICK v \in DOMAIN versions :
        NodeEdit(v) \/ EdgeEdit(v) \/ \E arcs \in Drawings, a \in Agents : Replace(v, arcs, a)
  BY DEF Edit
<1>2. CASE NodeEdit(v)
  <2>1. PICK n \in DOMAIN versions[v].nodes :
          \/ RemoveAgent(v, n)
          \/ \E fork \in {NoFork} \cup ({v} \X (Names \cup {Start, End})) :
                UpdateNode(v, n, versions[v].nodes[n].policy, fork)
          \/ \E p \in Policies : UpdateNode(v, n, p, versions[v].nodes[n].join)
          \/ \E p \in Policies, e \in versions[v].edges : SetCompletionPolicy(v, n, e, p)
    BY <1>2 DEF NodeEdit
  <2>2. ASSUME NEW p \in Policies \cup {versions[v].nodes[n].policy}, NEW fork,
               UpdateNode(v, n, p, fork)
        PROVE  \E h : Saved(v, h) /\ GoodDraft(v, h)
    BY <2>2, UpdateNodeGood
  <2>3. CASE RemoveAgent(v, n)
    BY <2>3, RemoveAgentGood
  <2>4. CASE \E p \in Policies, e \in versions[v].edges : SetCompletionPolicy(v, n, e, p)
    BY <2>4, SetCompletionGood
  <2> QED
    BY <2>1, <2>2, <2>3, <2>4
<1>3. CASE EdgeEdit(v)
  <2>1. CASE \E e \in versions[v].edges : Disconnect(v, e)
    BY <2>1, DisconnectGood
  <2>2. CASE \E e \in versions[v].edges, p \in Policies, on \in BOOLEAN : UpdateEdge(v, e, p, on)
    BY <2>2, UpdateEdgeGood
  <2>3. CASE \E s \in Names \cup {Start}, t \in Names \cup {End} : Connect(v, s, t)
    BY <2>3, ConnectGood
  <2>4. CASE \E s \in Names \cup {Start}, t \in Names \cup {End} :
               \E n \in Names, a \in Agents, p \in Policies : AddAgent(v, n, a, p, s, t)
    BY <2>4, AddAgentGood
  <2> QED
    BY <1>3, <2>1, <2>2, <2>3, <2>4 DEF EdgeEdit
<1>4. CASE \E arcs \in Drawings, a \in Agents : Replace(v, arcs, a)
  BY <1>4, ReplaceGood
<1> QED
  BY <1>1, <1>2, <1>3, <1>4

LEMMA SavedKeeps ==
  ASSUME IInv, NEW v, NEW h, Saved(v, h), GoodDraft(v, h)
  PROVE  IInv' /\ Stay
<1>1. /\ v \in DOMAIN versions /\ versions[v].status = "draft"
      /\ versions' = [versions EXCEPT ![v] = h]
  BY DEF Saved, Drafts
<1>2. /\ DOMAIN versions' = DOMAIN versions /\ versions'[v] = h
      /\ \A w \in DOMAIN versions \ {v} : versions'[w] = versions[w]
  BY <1>1
<1>3. Sequenced'
  BY <1>1, Rewritten DEF IInv, Sequenced
<1>4. Len(versions') = Len(versions) /\ Len(versions) \in Nat /\ Len(versions) >= 1
  BY <1>3, <1>2, SameLength, Numbered DEF IInv, Sequenced
<1>5. UNCHANGED <<current, agents, seen>> /\ edits' \in 0 .. MaxEdits
      /\ Shape(h) /\ h.status = "draft"
  BY DEF Saved
<1>6. Row(v, h)
  BY <1>5 DEF Row, GoodDraft
<1>7. \A w \in DOMAIN versions' : Row(w, versions'[w])
  BY <1>2, <1>6 DEF IInv
<1>8. Drafts' = Drafts
  <2>1. \A w \in DOMAIN versions : versions'[w].status = versions[w].status
    BY <1>1, <1>2, <1>5
  <2> QED
    BY <1>2, <2>1 DEF Drafts
<1>9. LastIsDraft'
  BY <1>4, <1>5, <1>8 DEF IInv, LastIsDraft
<1>10. IInv'
  BY <1>2, <1>3, <1>4, <1>5, <1>7, <1>9 DEF IInv
<1>11. Stay
  <2>1. ASSUME NEW w \in DOMAIN versions, Topology(versions'[w]) # Topology(versions[w])
        PROVE  Keeps(versions[w], versions'[w])
    BY <1>2, <2>1 DEF GoodDraft
  <2> QED
    BY <1>4, <2>1 DEF Stay
<1> QED
  BY <1>10, <1>11

-----------------------------------------------------------------------------
(* Publication pins the instructions and says nothing else. *)

LEMMA Pinned ==
  ASSUME NEW v, NEW nodes, NEW edges, Fits(v, nodes, edges),
         agents \in [Agents -> [body : Bodies, active : BOOLEAN]],
         NEW pinned,
         pinned = [n \in DOMAIN nodes |-> [nodes[n] EXCEPT !.snapshot = agents[nodes[n].agent].body]]
  PROVE  /\ Fits(v, pinned, edges) /\ DOMAIN pinned = DOMAIN nodes
         /\ \A n \in DOMAIN nodes :
               /\ pinned[n].join = nodes[n].join /\ pinned[n].policy = nodes[n].policy
               /\ pinned[n].snapshot = agents[nodes[n].agent].body
               /\ pinned[n].snapshot \in Bodies
               /\ nodes[n].snapshot = Unseen => [pinned[n] EXCEPT !.snapshot = Unseen] = nodes[n]
<1>1. DOMAIN pinned = DOMAIN nodes
  OBVIOUS
<1>2. ASSUME NEW n \in DOMAIN nodes
      PROVE  /\ pinned[n] \in NodeRows(v)
             /\ pinned[n].join = nodes[n].join /\ pinned[n].policy = nodes[n].policy
             /\ pinned[n].snapshot = agents[nodes[n].agent].body
             /\ pinned[n].snapshot \in Bodies
             /\ nodes[n].snapshot = Unseen => [pinned[n] EXCEPT !.snapshot = Unseen] = nodes[n]
  <2> DEFINE x == nodes[n]
             b == agents[x.agent].body
             y == [x EXCEPT !.snapshot = b]
  <2>1. x \in NodeRows(v)
    BY DEF Fits
  <2>2. b \in Bodies
    BY <2>1 DEF NodeRows
  <2>3. pinned[n] = y
    BY Zenon
  <2> HIDE DEF x, b
  <2>4. /\ y \in NodeRows(v) /\ y.join = x.join /\ y.policy = x.policy /\ y.agent = x.agent
        /\ y.snapshot = b
    BY <2>1, <2>2 DEF NodeRows
  <2> DEFINE z == [y EXCEPT !.snapshot = Unseen]
  <2> HIDE DEF y
  <2>5. z \in NodeRows(v) /\ z.join = x.join /\ z.policy = x.policy /\ z.agent = x.agent
        /\ z.snapshot = Unseen
    BY <2>4 DEF NodeRows
  <2> HIDE DEF z
  <2>6. x.snapshot = Unseen => z = x
    BY <2>1, <2>5 DEF NodeRows
  <2>7. x.snapshot = Unseen => [y EXCEPT !.snapshot = Unseen] = x
    BY <2>6, Zenon DEF z
  <2> QED
    BY <2>2, <2>3, <2>4, <2>7, Zenon DEF x, b
<1>3. pinned \in [DOMAIN pinned -> NodeRows(v)]
  BY <1>1, <1>2
<1>4. \A n \in DOMAIN pinned :
        pinned[n].join \in {NoFork} \cup ({v} \X ((DOMAIN pinned \ {n}) \cup {Start, End}))
  BY <1>1, <1>2 DEF Fits
<1>5. Fits(v, pinned, edges)
  BY <1>1, <1>3, <1>4 DEF Fits
<1> QED
  BY <1>1, <1>2, <1>5

LEMMA PublishedShape ==
  ASSUME NEW g, Shape(g), NEW nodes, NEW reviewed
  PROVE  [[[g EXCEPT !.status = "published"] EXCEPT !.nodes = nodes] EXCEPT !.reviewed = reviewed] =
            [status |-> "published", edges |-> g.edges, reviewed |-> reviewed, nodes |-> nodes]
<1> DEFINE a == g.status
           b == g.edges
           c == g.reviewed
           d == g.nodes
           h == [[[g EXCEPT !.status = "published"] EXCEPT !.nodes = nodes] EXCEPT !.reviewed = reviewed]
<1>1. g = [status |-> a, edges |-> b, reviewed |-> c, nodes |-> d]
  BY DEF Shape
<1> HIDE DEF a, b, c, d
<1>2. [g EXCEPT !.status = "published"] \in
        [status : {"published"}, edges : {b}, reviewed : {c}, nodes : {d}]
  BY <1>1
<1>3. [[g EXCEPT !.status = "published"] EXCEPT !.nodes = nodes] \in
        [status : {"published"}, edges : {b}, reviewed : {c}, nodes : {nodes}]
  BY <1>2
<1>4. h \in [status : {"published"}, edges : {b}, reviewed : {reviewed}, nodes : {nodes}]
  BY <1>3
<1> HIDE DEF h
<1>5. h = [status |-> "published", edges |-> b, reviewed |-> reviewed, nodes |-> nodes]
  BY <1>4
<1> QED
  BY <1>5, Zenon DEF b, h

\* reviewed is Unseen or what the editor read, which Publish finds unchanged.
LEMMA PublishKeeps ==
  ASSUME IInv, NEW v, NEW reviewed, reviewed = Unseen \/ reviewed = Content(v), Publish(v, reviewed)
  PROVE  IInv' /\ Stay
<1> DEFINE g == versions[v]
           S == Snapshots(v)
           h == [[[versions[v] EXCEPT !.status = "published"] EXCEPT !.nodes = Snapshots(v)]
                    EXCEPT !.reviewed = reviewed]
<1>1. v \in Drafts /\ v \in DOMAIN versions /\ Executable(v)
  BY DEF Publish, Drafts
<1>2. versions' = [versions EXCEPT ![v] = h]
  BY <1>1 DEF Publish
<1>3. current' = v /\ UNCHANGED <<agents, seen, edits>>
  BY DEF Publish
<1>4. Row(v, g) /\ g.status = "draft" /\ Fits(v, g.nodes, g.edges)
      /\ \A n \in DOMAIN g.nodes : g.nodes[n].snapshot = Unseen
  BY <1>1, DraftRow
<1>5. h = [status |-> "published", edges |-> g.edges, reviewed |-> reviewed, nodes |-> S]
  <2>1. Shape(g)
    BY <1>4 DEF Row
  <2> QED
    BY <2>1, PublishedShape
<1>6. h.status = "published" /\ h.edges = g.edges /\ h.reviewed = reviewed /\ h.nodes = S /\ Shape(h)
  BY <1>5 DEF Shape
<1> HIDE DEF h
<1>7. /\ Fits(v, S, g.edges) /\ DOMAIN S = DOMAIN g.nodes
      /\ \A n \in DOMAIN g.nodes :
            /\ S[n].join = g.nodes[n].join /\ S[n].policy = g.nodes[n].policy
            /\ S[n].snapshot = agents[g.nodes[n].agent].body
            /\ S[n].snapshot \in Bodies
            /\ [S[n] EXCEPT !.snapshot = Unseen] = g.nodes[n]
  <2>1. S = [n \in DOMAIN g.nodes |-> [g.nodes[n] EXCEPT !.snapshot = agents[g.nodes[n].agent].body]]
    BY DEF Snapshots
  <2>2. agents \in [Agents -> [body : Bodies, active : BOOLEAN]]
    BY DEF IInv
  <2> HIDE DEF g, S
  <2>3. Fits(v, S, g.edges) /\ DOMAIN S = DOMAIN g.nodes
    BY <1>4, <2>1, <2>2, Pinned
  <2>4. ASSUME NEW n \in DOMAIN g.nodes
        PROVE  /\ S[n].join = g.nodes[n].join /\ S[n].policy = g.nodes[n].policy
               /\ S[n].snapshot = agents[g.nodes[n].agent].body
               /\ S[n].snapshot \in Bodies
               /\ g.nodes[n].snapshot = Unseen => [S[n] EXCEPT !.snapshot = Unseen] = g.nodes[n]
    BY <1>4, <2>1, <2>2, Pinned
  <2> QED
    BY <1>4, <2>3, <2>4
<1>8. ExecutableVersion(v, h)
  <2>1. ExecutableVersion(v, g)
    BY <1>1 DEF Executable
  <2> HIDE DEF g, S
  <2>2. h.edges = g.edges /\ DOMAIN h.nodes = DOMAIN g.nodes
    BY <1>6, <1>7
  <2>3. \A n \in DOMAIN g.nodes : /\ h.nodes[n].join = g.nodes[n].join
                                  /\ h.nodes[n].policy = g.nodes[n].policy
    BY <1>6, <1>7
  <2> QED
    BY <2>1, <2>2, <2>3, SameExecutable, Zenon
<1>9. reviewed # Unseen => Reviewed(v, h)
  <2> SUFFICES ASSUME reviewed # Unseen PROVE Reviewed(v, h)
    OBVIOUS
  <2>1. reviewed = Content(v)
    OBVIOUS
  <2>2. /\ reviewed.version = v /\ reviewed.edges = g.edges /\ reviewed.nodes = g.nodes
        /\ \A n \in DOMAIN g.nodes : reviewed.agents[n] = agents[g.nodes[n].agent]
    BY <2>1 DEF Content
  <2> HIDE DEF g, S
  <2> QED
    BY <1>6, <1>7, <2>2 DEF Reviewed
<1> HIDE DEF S
<1>10. Row(v, h)
  BY <1>6, <1>7, <1>8, <1>9 DEF Row
<1>11. /\ DOMAIN versions' = DOMAIN versions /\ versions'[v] = h
       /\ \A w \in DOMAIN versions \ {v} : versions'[w] = versions[w]
  BY <1>1, <1>2
<1>12. Sequenced'
  BY <1>2, Rewritten DEF IInv, Sequenced
<1>13. Len(versions') = Len(versions) /\ Len(versions) \in Nat /\ Len(versions) >= 1
  BY <1>12, <1>11, SameLength, Numbered DEF IInv, Sequenced
<1>14. \A w \in DOMAIN versions' : Row(w, versions'[w])
  BY <1>10, <1>11 DEF IInv
<1>15. v = Len(versions) /\ Drafts = {v}
  BY <1>1 DEF IInv, LastIsDraft
<1>16. Drafts' = {}
  <2>1. \A w \in DOMAIN versions \ {v} : versions[w].status # "draft"
    BY <1>15 DEF Drafts
  <2> QED
    BY <1>6, <1>11, <2>1 DEF Drafts
<1>17. LastIsDraft'
  BY <1>3, <1>13, <1>15, <1>16 DEF LastIsDraft
<1>18. IInv'
  BY <1>3, <1>11, <1>12, <1>13, <1>14, <1>17 DEF IInv
<1>19. Stay
  <2>1. Topology(h) = Topology(g)
    BY <1>6, <1>7 DEF Topology
  <2>2. \A w \in DOMAIN versions : Topology(versions'[w]) = Topology(versions[w])
    BY <1>11, <2>1
  <2> QED
    BY <1>13, <2>2 DEF Stay
<1> QED
  BY <1>18, <1>19

\* A draft is its model with joins of its own.
LEMMA DraftKeeps ==
  ASSUME IInv, Draft
  PROVE  IInv' /\ Stay
<1> DEFINE g == versions[current]
           L == Len(versions) + 1
           own(fork) == IF fork = NoFork THEN NoFork ELSE <<L, fork[2]>>
           row(n) == [g.nodes[n] EXCEPT !.snapshot = Unseen, !.join = own(g.nodes[n].join)]
           N == [n \in DOMAIN g.nodes |-> row(n)]
           h == [status |-> "draft", edges |-> g.edges, reviewed |-> Unseen, nodes |-> N]
<1>1. Drafts = {} /\ versions' = Append(versions, h) /\ UNCHANGED <<current, agents, seen, edits>>
  BY DEF Draft
<1>2. /\ Len(versions) \in Nat /\ DOMAIN versions = 1 .. Len(versions) /\ Len(versions) >= 1
      /\ current \in DOMAIN versions
  BY Numbered
<1>3. current = Len(versions)
  BY <1>1 DEF IInv, LastIsDraft
<1>4. Fits(current, g.nodes, g.edges)
  BY <1>2 DEF IInv, Row
<1>5. h.status = "draft" /\ h.edges = g.edges /\ h.reviewed = Unseen /\ h.nodes = N /\ Shape(h)
  BY DEF Shape
<1>6. DOMAIN N = DOMAIN g.nodes /\ \A n \in DOMAIN g.nodes : N[n] = row(n)
  OBVIOUS
<1>7. N = [n \in DOMAIN N |-> N[n]]
  OBVIOUS
<1> HIDE DEF g, L, h, N
<1>8. ASSUME NEW n \in DOMAIN g.nodes
      PROVE  /\ N[n] \in NodeRows(L) /\ N[n].snapshot = Unseen
             /\ N[n].policy = g.nodes[n].policy
             /\ N[n].join \in {NoFork} \cup ({L} \X ((DOMAIN g.nodes \ {n}) \cup {Start, End}))
  <2> DEFINE x == g.nodes[n]
             f == own(x.join)
  <2>1. x \in NodeRows(current) /\ DOMAIN g.nodes \subseteq Names
    BY <1>4 DEF Fits
  <2>2. x.join \in {NoFork} \cup ({current} \X ((DOMAIN g.nodes \ {n}) \cup {Start, End}))
    BY <1>4 DEF Fits
  <2> HIDE DEF x
  <2>3. f \in {NoFork} \cup ({L} \X ((DOMAIN g.nodes \ {n}) \cup {Start, End}))
    BY <2>2
  <2>4. N[n] = [x EXCEPT !.snapshot = Unseen, !.join = f]
    BY <1>6, Zenon DEF x
  <2> HIDE DEF f, own, row
  <2>5. f \in {NoFork} \cup ({L} \X (Names \cup {Start, End}))
    BY <2>1, <2>3
  <2>6. /\ N[n] \in NodeRows(L) /\ N[n].snapshot = Unseen /\ N[n].policy = x.policy
        /\ N[n].join = f
    BY <2>1, <2>4, <2>5 DEF NodeRows
  <2> QED
    BY <2>3, <2>6 DEF x
<1> HIDE DEF row, own
<1>9. Fits(L, N, h.edges)
  <2>1. N \in [DOMAIN N -> NodeRows(L)]
    BY <1>6, <1>7, <1>8
  <2> QED
    BY <1>4, <1>5, <1>6, <1>8, <2>1 DEF Fits
<1>10. Row(L, h)
  BY <1>5, <1>6, <1>8, <1>9 DEF Row
<1>11. /\ Sequenced' /\ Len(versions') = L /\ versions'[L] = h
       /\ \A w \in DOMAIN versions : versions'[w] = versions[w]
  BY <1>1, Extended DEF IInv, Sequenced, L
<1>12. DOMAIN versions' = DOMAIN versions \cup {L} /\ L \in Nat /\ L >= 2 /\ L \notin DOMAIN versions
  <2>1. DOMAIN versions' = 1 .. L
    BY <1>11, SequenceDomain DEF Sequenced
  <2> QED
    BY <1>2, <2>1 DEF L
<1>13. \A w \in DOMAIN versions' : Row(w, versions'[w])
  BY <1>10, <1>11, <1>12 DEF IInv
<1>14. Drafts' = {L}
  <2>1. \A w \in DOMAIN versions : versions[w].status # "draft"
    BY <1>1 DEF Drafts
  <2> QED
    BY <1>5, <1>11, <1>12, <2>1 DEF Drafts
<1>15. LastIsDraft'
  BY <1>1, <1>2, <1>3, <1>11, <1>12, <1>14 DEF LastIsDraft, L
<1>16. IInv'
  BY <1>1, <1>11, <1>12, <1>13, <1>15 DEF IInv
<1>17. Keeps(g, h)
  <2>1. \A n : Out(h, n) = Out(g, n)
    BY <1>5 DEF Out
  <2> QED
    BY <1>5, <1>6, <1>8, <2>1, ChangeKeeps
<1>18. Stay
  BY <1>11, <1>17 DEF Stay, g
<1> QED
  BY <1>16, <1>18

-----------------------------------------------------------------------------
(* The invariant. *)

LEMMA InitIInv == Init => IInv
<1> SUFFICES ASSUME Init PROVE IInv
  OBVIOUS
<1>1. agents \in [Agents -> [body : Bodies, active : BOOLEAN]]
  BY BodiesAssumption DEF Init
<1>2. current = 1 /\ edits \in 0 .. MaxEdits /\ seen = [r \in Editors |-> seen[r]]
      /\ \A r \in Editors : seen[r] = Unseen
  BY BoundsAssumption DEF Init
<1>3. Sequenced
  BY InitSequenced
<1>4. ASSUME NEW g, versions = <<g>>, Row(1, g) PROVE IInv
  <2>1. Len(versions) = 1 /\ DOMAIN versions = {1} /\ versions[1] = g
    BY <1>4
  <2>2. g.status \in {"draft", "published"}
    BY <1>4 DEF Row
  <2>3. Drafts = {} \/ Drafts = {1}
    BY <2>1 DEF Drafts
  <2>4. LastIsDraft
    BY <1>2, <2>1, <2>3 DEF LastIsDraft
  <2> QED
    BY <1>1, <1>2, <1>3, <1>4, <2>1, <2>4 DEF IInv
<1>5. CASE New
  <2> DEFINE e == Edge(Start, End, Plain)
             N == [n \in {} |-> n]
             g == [status |-> "draft", edges |-> {e}, reviewed |-> Unseen, nodes |-> N]
  <2>1. versions = <<g>>
    BY <1>5 DEF New
  <2>2. e \in EdgeRows /\ e.src = Start /\ e.dst = End
    BY PoliciesAssumption DEF Edge, EdgeRows
  <2>3. DOMAIN N = {} /\ N \in [{} -> NodeRows(1)]
    OBVIOUS
  <2>4. g.status = "draft" /\ g.edges = {e} /\ g.nodes = N /\ Shape(g)
    BY DEF Shape
  <2> HIDE DEF e, N, g
  <2>5. Fits(1, N, {e})
    BY <2>2, <2>3 DEF Fits
  <2>6. Row(1, g)
    BY <2>3, <2>4, <2>5 DEF Row
  <2> QED
    BY <1>4, <2>1, <2>6
<1>6. ASSUME NEW s \in Seeds, Seeded(s) PROVE IInv
  <2> DEFINE N == [n \in DOMAIN s.nodes |->
                      [s.nodes[n] EXCEPT !.snapshot = agents[s.nodes[n].agent].body]]
             g == [status |-> "published", edges |-> s.edges, reviewed |-> Unseen, nodes |-> N]
  <2>1. versions = <<g>>
    BY <1>6 DEF Seeded
  <2>2. Fits(1, s.nodes, s.edges) /\ ExecutableVersion(1, s)
    BY SeedsAssumption DEF Fits, Attached
  <2>3. g.status = "published" /\ g.edges = s.edges /\ g.nodes = N /\ g.reviewed = Unseen /\ Shape(g)
    BY DEF Shape
  <2>4. /\ Fits(1, N, s.edges) /\ DOMAIN N = DOMAIN s.nodes
        /\ \A n \in DOMAIN s.nodes : /\ N[n].join = s.nodes[n].join
                                     /\ N[n].policy = s.nodes[n].policy
                                     /\ N[n].snapshot \in Bodies
    <3>1. N = [n \in DOMAIN s.nodes |->
                  [s.nodes[n] EXCEPT !.snapshot = agents[s.nodes[n].agent].body]]
      OBVIOUS
    <3> HIDE DEF N, g
    <3> QED
      BY <1>1, <2>2, <3>1, Pinned
  <2> HIDE DEF N, g
  <2>5. ExecutableVersion(1, g)
    BY <2>2, <2>3, <2>4, SameExecutable
  <2>6. Row(1, g)
    BY <2>3, <2>4, <2>5 DEF Row
  <2> QED
    BY <1>4, <2>1, <2>6
<1> QED
  BY <1>5, <1>6 DEF Init

LEMMA ReviewKeeps ==
  ASSUME IInv, NEW r \in Editors, NEW v, Review(r, v)
  PROVE  IInv' /\ versions' = versions
<1>1. v \in DOMAIN versions /\ Content(v).version = v
  BY DEF Review, Drafts, Content
<1>2. seen' = [seen EXCEPT ![r] = Content(v)] /\ UNCHANGED <<versions, current, agents, edits>>
  BY DEF Review
<1>3. seen' = [q \in Editors |-> seen'[q]]
  BY <1>2 DEF IInv
<1>4. \A q \in Editors : seen'[q] = Unseen \/ seen'[q].version \in DOMAIN versions
  BY <1>1, <1>2 DEF IInv
<1>5. Drafts' = Drafts
  BY <1>2 DEF Drafts
<1> QED
  BY <1>2, <1>3, <1>4, <1>5 DEF IInv, LastIsDraft, Sequenced

LEMMA UpdateAgentKeeps ==
  ASSUME IInv, NEW a \in Agents, NEW body \in Bodies, NEW active \in BOOLEAN,
         UpdateAgent(a, body, active)
  PROVE  IInv' /\ versions' = versions
<1>1. UNCHANGED <<versions, current, seen>> /\ edits' \in 0 .. MaxEdits
  BY BoundsAssumption DEF UpdateAgent, EditBound, IInv
<1>2. agents' \in [Agents -> [body : Bodies, active : BOOLEAN]]
  BY DEF UpdateAgent, IInv
<1>3. Drafts' = Drafts
  BY <1>1 DEF Drafts
<1> QED
  BY <1>1, <1>2, <1>3 DEF IInv, LastIsDraft, Sequenced

LEMMA NextKeeps ==
  ASSUME IInv, Next
  PROVE  IInv' /\ [Stay]_vars
<1>1. CASE Edit
  BY <1>1, EditGood, SavedKeeps
<1>2. CASE Draft
  BY <1>2, DraftKeeps
<1>3. ASSUME NEW v, NEW reviewed, reviewed = Unseen \/ reviewed = Content(v), Publish(v, reviewed)
      PROVE  IInv' /\ Stay
  BY <1>3, PublishKeeps
<1>4. CASE versions' = versions /\ IInv'
  <2>1. Len(versions) \in Nat
    BY Numbered
  <2>2. Stay
    BY <1>4, <2>1 DEF Stay
  <2> QED
    BY <1>4, <2>2
<1>5. CASE \E v \in DOMAIN versions, r \in Editors : Review(r, v)
  BY <1>4, <1>5, ReviewKeeps
<1>6. CASE \E v \in DOMAIN versions, r \in Editors : UnchangedSince(r, v) /\ Publish(v, seen[r])
  BY <1>3, <1>6 DEF UnchangedSince
<1>7. CASE \E a \in Agents, body \in Bodies, active \in BOOLEAN : UpdateAgent(a, body, active)
  BY <1>4, <1>7, UpdateAgentKeeps
<1>8. CASE \E v \in DOMAIN versions : Publish(v, Unseen)
  BY <1>3, <1>8
<1> QED
  BY <1>1, <1>2, <1>5, <1>6, <1>7, <1>8 DEF Next, Release

LEMMA Invariance == Spec => []IInv
<1>1. IInv /\ UNCHANGED vars => IInv'
  BY DEF vars, IInv, Sequenced, LastIsDraft, Drafts
<1>2. IInv /\ [Next]_vars => IInv'
  BY <1>1, NextKeeps
<1> QED
  BY <1>2, InitIInv, PTL DEF Spec

\* Rows have their types and name rows of their own version, there is at most
\* one draft and a published version carries the instructions of its agents.
THEOREM TypeCorrect == Spec => []TypeOK
<1>1. IInv => TypeOK
  <2> SUFFICES ASSUME IInv PROVE TypeOK
    OBVIOUS
  <2>1. /\ Len(versions) \in Nat /\ DOMAIN versions = 1 .. Len(versions) /\ Len(versions) >= 1
        /\ current \in DOMAIN versions
    BY Numbered
  <2>2. NothingDangles
    BY DEF IInv, Row, Fits, NothingDangles, Attached
  <2>3. OneDraft
    <3>1. CASE Drafts = {} /\ current = Len(versions)
      <4>1. Cardinality(Drafts) = 0 /\ DOMAIN versions # Drafts
        BY <2>1, <3>1, FS_EmptySet
      <4> QED
        BY <2>1, <3>1, <4>1 DEF OneDraft
    <3>2. CASE Drafts = {Len(versions)}
               /\ current = IF Len(versions) = 1 THEN 1 ELSE Len(versions) - 1
      <4>1. Cardinality(Drafts) = 1
        BY <3>2, FS_Singleton
      <4>2. DOMAIN versions = Drafts <=> Len(versions) = 1
        BY <2>1, <3>2
      <4> QED
        BY <2>1, <3>2, <4>1, <4>2 DEF OneDraft
    <3> QED
      BY <3>1, <3>2 DEF IInv, LastIsDraft
  <2>4. ASSUME NEW v \in DOMAIN versions
        PROVE  /\ versions[v].status \in {"draft", "published"}
               /\ DOMAIN versions[v].nodes \subseteq Names
               /\ \A n \in DOMAIN versions[v].nodes :
                     LET node == versions[v].nodes[n] IN
                     /\ node.agent \in Agents /\ node.policy \in Policies \cup {Inherit}
                     /\ node.snapshot \in IF versions[v].status = "published" THEN Bodies ELSE {Unseen}
    <3>1. Row(v, versions[v])
      BY DEF IInv
    <3>2. \A n \in DOMAIN versions[v].nodes : versions[v].nodes[n] \in NodeRows(v)
      BY <3>1 DEF Row, Fits
    <3>3. \A n \in DOMAIN versions[v].nodes :
            versions[v].nodes[n].agent \in Agents /\ versions[v].nodes[n].policy \in Policies \cup {Inherit}
      BY <3>2 DEF NodeRows
    <3> QED
      BY <3>1, <3>3 DEF Row, Fits
  <2>5. /\ agents \in [Agents -> [body : Bodies, active : BOOLEAN]] /\ edits \in 0 .. MaxEdits
        /\ \A r \in Editors : seen[r] = Unseen \/ seen[r].version \in DOMAIN versions
    BY DEF IInv
  <2> QED
    BY <2>1, <2>2, <2>3, <2>4, <2>5 DEF TypeOK
<1> QED
  BY <1>1, Invariance, PTL

\* A version that goals may be pinned to is one that executableGraph accepts,
\* whatever edits, drafts and agent edits came before or come after.
THEOREM PublishedAlwaysExecutable == Spec => []PublishedExecutable
<1>1. IInv => PublishedExecutable
  BY DEF IInv, PublishedExecutable, Drafts, Row, Executable
<1> QED
  BY <1>1, Invariance, PTL

\* A fenced publication publishes the definition and the instructions that the
\* editor read (expectedVersionId and expectedRevision of publishSendero).
THEOREM ReviewedAlwaysPublished == Spec => []ReviewedPublished
<1>1. ASSUME IInv, NEW v \in DOMAIN versions \ Drafts, versions[v].reviewed # Unseen
      PROVE  Reviewed(v, versions[v])
  BY <1>1 DEF IInv, Drafts, Row
<1>2. IInv => ReviewedPublished
  BY <1>1, Zenon DEF ReviewedPublished, Reviewed
<1> QED
  BY <1>2, Invariance, PTL

\* No change of a draft's nodes or connections, and no new draft, changes the
\* policy that a node which stays runs under.
THEOREM PoliciesAlwaysStay == Spec => PoliciesStay
<1>1. IInv /\ [Next]_vars => [Stay]_vars
  BY NextKeeps
<1>2. IInv /\ [Next]_vars =>
        [/\ \A v \in DOMAIN versions :
               Topology(versions'[v]) # Topology(versions[v]) => Keeps(versions[v], versions'[v])
         /\ Len(versions') > Len(versions) => Keeps(versions[current], versions'[Len(versions')])]_vars
  BY <1>1 DEF Stay
<1> QED
  BY <1>2, Invariance, PTL DEF Spec, PoliciesStay
=============================================================================
