-------------------------- MODULE RuntimeBootstrap --------------------------
(***************************************************************************)
(* Initialising Senderos homes that share one database: the senderos init  *)
(* command (shared/config.ts), the start of a Studio server                *)
(* (db/bootstrap.ts), both over the migrations, the registration of the    *)
(* execution context and the seeding of bundled agents and Senderos        *)
(* (bootstrap/*.ts), among authors who edit what was seeded.               *)
(*                                                                         *)
(* The file system and the database know nothing of each other: a bootstrap*)
(* is a sequence of steps, each a file write, a statement or a transaction *)
(* of its own, and its process may die or be refused between any two.      *)
(*                                                                         *)
(* One bundled Sendero uses every bundled agent.  A bundled agent's id and *)
(* its original slug are one value here.  Harness, paths, output settings  *)
(* and event rows are left out.                                            *)
(***************************************************************************)
EXTENDS Naturals, FiniteSets, Functions

CONSTANTS Homes,          \* home directories
          Names,          \* execution context names
          Bundled,        \* bundled agents
          Custom,         \* agents that authors create
          OtherSlugs,     \* slugs no bundled agent has
          Commands,       \* CLI processes
          Studio,         \* the Studio server
          MaxContexts,    \* bound: context ids drawn
          MaxEdits,       \* bound: authoring commands
          MaxFaults       \* bound: processes that die or are refused

ASSUME NamesApart == Bundled \cap (Custom \cup OtherSlugs) = {} /\ Studio \notin Commands

ASSUME BundledAssumption == Bundled # {}

ASSUME BoundsAssumption == MaxContexts \in Nat

VARIABLES config,         \* config.json of each home, if it exists
          migrated,       \* whether the schema is there
          contexts,       \* execution_contexts: name of each id
          agents,         \* agents: slug and instructions of each id
          transitions,    \* default transitions of each agent
          sendero,        \* instructions the published bundled Sendero pins
          proc,           \* the bootstraps and config commands under way
          drawn,          \* context ids generated so far
          edits, faults   \* authoring commands and faults so far

vars == <<config, migrated, contexts, agents, transitions, sendero, proc, drawn, edits, faults>>

Processes == Commands \cup {Studio}

Slugs == Bundled \cup OtherSlugs

NoHome == "none"

ASSUME HomesAssumption == NoHome \notin Homes

NoConfig == [context |-> 0, complete |-> FALSE]

NoName == "none"

Idle == [at |-> "idle", home |-> NoHome, context |-> 0, name |-> NoName, config |-> NoConfig]

NotSeeded == [b \in {} |-> "none"]

Init ==
    /\ config = [h \in Homes |-> NoConfig]
    /\ migrated = FALSE
    /\ contexts = <<>>
    /\ agents = <<>>
    /\ transitions = [a \in Bundled \cup Custom |-> 0]
    /\ sendero = NotSeeded
    /\ proc = [p \in Processes |-> Idle]
    /\ drawn = 0
    /\ edits = 0 /\ faults = 0

RuntimeExists(h) == config[h] # NoConfig

To(p, at) == proc' = [proc EXCEPT ![p].at = at]

\* A table with a row more.
WithRow(table, id, row) == [i \in DOMAIN table \cup {id} |-> IF i = id THEN row ELSE table[i]]

----------------------------------------------------------------------------
(* init --approve. *)

\* previewInit: without an id a new one is generated, also for a home that has
\* one already and also in the run that approves an earlier preview.
ContextId(given) == IF given = 0 THEN drawn + 1 ELSE given

StartInit(p, h, name, given) ==
    /\ proc[p].at = "idle"
    /\ given <= drawn /\ ContextId(given) <= MaxContexts
    /\ drawn' = IF given = 0 THEN drawn + 1 ELSE drawn
    /\ proc' = [proc EXCEPT ![p] = [Idle EXCEPT !.at = "config", !.home = h, !.name = name,
                                                !.context = ContextId(given)]]
    /\ UNCHANGED <<config, migrated, contexts, agents, transitions, sendero, edits, faults>>

\* initializeRuntime replaces the configuration before it looks at the database.
WriteConfig(p) ==
    /\ proc[p].at = "config"
    /\ config' = [config EXCEPT ![proc[p].home] = [context |-> proc[p].context, complete |-> FALSE]]
    /\ To(p, "migrate")
    /\ UNCHANGED <<migrated, contexts, agents, transitions, sendero, drawn, edits, faults>>

\* The Studio's first request prepares the shared database.
StartStudio ==
    /\ proc[Studio].at = "idle"
    /\ To(Studio, "migrate")
    /\ UNCHANGED <<config, migrated, contexts, agents, transitions, sendero, drawn, edits, faults>>

AfterSchema(p) == IF p = Studio THEN "agents" ELSE "register"

\* migrate: what was applied is read first.
ReadMigrations(p) ==
    /\ proc[p].at = "migrate"
    /\ To(p, IF migrated THEN AfterSchema(p) ELSE "apply")
    /\ UNCHANGED <<config, migrated, contexts, agents, transitions, sendero, drawn, edits, faults>>

\* Mutant: a failed preparation is remembered and answers every later request.
RemembersFailure(p) == [proc EXCEPT ![p] = [Idle EXCEPT !.at = IF p = Studio THEN "failed" ELSE "idle"]]

\* The command fails; the Studio forgets the preparation, so that the next
\* request starts it again.
Failed(p) == [proc EXCEPT ![p] = Idle]

\* Then the missing migrations run in one batch; a table that another process
\* created in between is an error.
ApplyMigrations(p) ==
    /\ proc[p].at = "apply"
    /\ proc' = IF migrated THEN Failed(p) ELSE [proc EXCEPT ![p].at = AfterSchema(p)]
    /\ migrated' = TRUE
    /\ UNCHANGED <<config, contexts, agents, transitions, sendero, drawn, edits, faults>>

Registered(c) == c \in DOMAIN contexts

NameTaken(n) == \E c \in DOMAIN contexts : contexts[c] = n

\* registerExecutionContext: an id that is registered must have the name, a new
\* one must bring a new name.
RegisterExecutionContext(p) ==
    LET c == proc[p].context
        n == proc[p].name IN
    /\ proc[p].at = "register"
    /\ proc' = CASE Registered(c) /\ contexts[c] = n -> [proc EXCEPT ![p].at = "agents", ![p].name = NoName]
                 [] ~Registered(c) /\ ~NameTaken(n)  -> [proc EXCEPT ![p].at = "insert"]
                 [] OTHER                            -> Failed(p)
    /\ UNCHANGED <<config, migrated, contexts, agents, transitions, sendero, drawn, edits, faults>>

\* Mutant: no unique index on the name.
InsertablePrimaryKey(c, n) == ~Registered(c)

\* The primary key and the unique index on the name.
Insertable(c, n) == ~Registered(c) /\ ~NameTaken(n)

\* The insert is a statement of its own, after both lookups.
InsertContext(p) ==
    LET c == proc[p].context
        n == proc[p].name IN
    /\ proc[p].at = "insert"
    /\ IF Insertable(c, n)
       THEN /\ contexts' = WithRow(contexts, c, n)
            /\ proc' = [proc EXCEPT ![p].at = "agents", ![p].name = NoName]
       ELSE proc' = Failed(p) /\ UNCHANGED contexts
    /\ UNCHANGED <<config, migrated, agents, transitions, sendero, drawn, edits, faults>>

----------------------------------------------------------------------------
(* Seeding, one transaction for the agents and one for the Senderos. *)

WithSlug(s) == {a \in DOMAIN agents : agents[a].slug = s}

\* The row a bundled agent is found by: its slug, or its id once it was renamed.
Found(b) == IF WithSlug(b) # {} THEN WithSlug(b) ELSE {b} \cap DOMAIN agents

BundledRow(b) == [slug |-> b, body |-> "bundled"]

\* Mutant: re-seeding restores the bundled definition.
SeededRestoring ==
    [a \in DOMAIN agents \cup {b \in Bundled : Found(b) = {}} |->
        IF a \in DOMAIN agents
        THEN IF agents[a].slug \in Bundled THEN [agents[a] EXCEPT !.body = "bundled"] ELSE agents[a]
        ELSE BundledRow(a)]

\* Bundled definitions are first-install examples: what exists stays as it is.
Seeded ==
    [a \in DOMAIN agents \cup {b \in Bundled : Found(b) = {}} |->
        IF a \in DOMAIN agents THEN agents[a] ELSE BundledRow(a)]

\* ensureDefaultTransition for the agents in A.
EnsureDefaultTransitions(A) ==
    [a \in DOMAIN transitions |-> IF a \in A /\ transitions[a] = 0 THEN 1 ELSE transitions[a]]

SeedBuiltInAgents(p) ==
    /\ proc[p].at = "agents"
    /\ agents' = Seeded
    /\ transitions' = EnsureDefaultTransitions(
                          UNION {IF Found(b) = {} THEN {b} ELSE Found(b) : b \in Bundled})
    /\ To(p, "senderos")
    /\ UNCHANGED <<config, migrated, contexts, sendero, drawn, edits, faults>>

\* What a publication pins: the instructions behind each slug.
Pins == [b \in Bundled |-> agents[CHOOSE a \in WithSlug(b) : TRUE].body]

SlugsThere == \A b \in Bundled : WithSlug(b) # {}

Finished(p) ==
    /\ proc' = [proc EXCEPT ![p] = IF p = Studio THEN [Idle EXCEPT !.at = "ready"] ELSE Idle]
    /\ config' = [h \in Homes |->
                     IF h = proc[p].home /\ config[h].context = proc[p].context
                     THEN [config[h] EXCEPT !.complete = TRUE] ELSE config[h]]

\* An existing Sendero is its owner's; a missing one needs every agent by slug.
SeedBuiltInSenderos(p) ==
    /\ proc[p].at = "senderos"
    /\ IF sendero # NotSeeded \/ SlugsThere
       THEN Finished(p) /\ sendero' = IF sendero = NotSeeded THEN Pins ELSE sendero
       ELSE proc' = Failed(p) /\ UNCHANGED <<config, sendero>>
    /\ UNCHANGED <<migrated, contexts, agents, transitions, drawn, edits, faults>>

\* A process dies, or a statement is refused because the database is busy or gone.
Fault(p) ==
    /\ proc[p].at \notin {"idle", "ready", "failed"} /\ faults < MaxFaults
    /\ faults' = faults + 1
    /\ proc' = Failed(p)
    /\ UNCHANGED <<config, migrated, contexts, agents, transitions, sendero, drawn, edits>>

\* A Studio that was ready is started anew.
RestartStudio ==
    /\ proc[Studio].at = "ready" /\ faults < MaxFaults
    /\ faults' = faults + 1
    /\ proc' = [proc EXCEPT ![Studio] = Idle]
    /\ UNCHANGED <<config, migrated, contexts, agents, transitions, sendero, drawn, edits>>

----------------------------------------------------------------------------
(* config set, on any path but the context id: the file is read and written *)
(* back as a whole.                                                         *)

ReadConfig(p, h) ==
    /\ proc[p].at = "idle" /\ RuntimeExists(h)
    /\ proc' = [proc EXCEPT ![p] = [Idle EXCEPT !.at = "set", !.home = h, !.config = config[h]]]
    /\ UNCHANGED <<config, migrated, contexts, agents, transitions, sendero, drawn, edits, faults>>

UpdateConfigPath(p) ==
    /\ proc[p].at = "set"
    /\ config' = [config EXCEPT ![proc[p].home] = proc[p].config]
    /\ proc' = [proc EXCEPT ![p] = Idle]
    /\ UNCHANGED <<migrated, contexts, agents, transitions, sendero, drawn, edits, faults>>

----------------------------------------------------------------------------
(* Authoring, each command a transaction; bound: MaxEdits of them.  A new    *)
(* agent has no default transition.                                         *)

Author ==
    /\ migrated /\ edits < MaxEdits
    /\ edits' = edits + 1
    /\ UNCHANGED <<config, migrated, contexts, proc, drawn, faults>>

CreateAgent(a, s) ==
    /\ Author
    /\ a \notin DOMAIN agents /\ WithSlug(s) = {}
    /\ agents' = WithRow(agents, a, [slug |-> s, body |-> "authored"])
    /\ UNCHANGED <<transitions, sendero>>

UpdateAgent(a, s) ==
    /\ Author
    /\ a \in DOMAIN agents
    /\ s # agents[a].slug => WithSlug(s) = {}
    /\ agents' = [agents EXCEPT ![a] = [slug |-> s, body |-> "authored"]]
    /\ UNCHANGED <<transitions, sendero>>

\* The agents are imported from a directory named on purpose: the definition
\* replaces the row with its slug, and a renamed agent's id cannot be reused.
ImportAgents ==
    /\ Author
    /\ \A b \in Bundled : WithSlug(b) = {} => b \notin DOMAIN agents
    /\ agents' = [a \in DOMAIN agents \cup {b \in Bundled : WithSlug(b) = {}} |->
                     IF a \in DOMAIN agents /\ agents[a].slug \notin Bundled THEN agents[a]
                     ELSE [slug |-> IF a \in DOMAIN agents THEN agents[a].slug ELSE a,
                           body |-> "bundled"]]
    /\ transitions' = EnsureDefaultTransitions(
                          UNION {IF WithSlug(b) = {} THEN {b} ELSE WithSlug(b) : b \in Bundled})
    /\ UNCHANGED sendero

\* A new version of the bundled Sendero pins what its agents say now.
PublishSendero ==
    /\ Author
    /\ sendero # NotSeeded /\ SlugsThere
    /\ sendero' = Pins
    /\ UNCHANGED <<agents, transitions>>

----------------------------------------------------------------------------
Bootstrap(p) ==
    \/ WriteConfig(p) \/ ReadMigrations(p) \/ ApplyMigrations(p)
    \/ RegisterExecutionContext(p) \/ InsertContext(p)
    \/ SeedBuiltInAgents(p) \/ SeedBuiltInSenderos(p)

Next ==
    \/ \E p \in Commands, h \in Homes :
          \/ \E n \in Names, given \in 0 .. MaxContexts : StartInit(p, h, n, given)
          \/ ReadConfig(p, h)
    \/ \E p \in Commands : UpdateConfigPath(p)
    \/ \E p \in Processes : Bootstrap(p) \/ Fault(p)
    \/ StartStudio \/ RestartStudio
    \/ \E a \in Custom, s \in Slugs : CreateAgent(a, s)
    \/ \E a \in Bundled \cup Custom, s \in Slugs : UpdateAgent(a, s)
    \/ ImportAgents \/ PublishSendero

\* Requests keep coming to the Studio, and what it started goes on.
Spec == Init /\ [][Next]_vars /\ WF_vars(StartStudio) /\ WF_vars(Bootstrap(Studio))

----------------------------------------------------------------------------
\* However often, from however many processes and after whatever interruption
\* the runtime is initialised, what exists is left as its authors made it:
\* without an authoring command no agent is edited or renamed and no published
\* Sendero changes what it pins.
AuthoringSurvives ==
    [][edits' = edits =>
          /\ \A a \in DOMAIN agents : a \in DOMAIN agents' /\ agents'[a] = agents[a]
          /\ sendero # NotSeeded => sendero' = sendero]_vars

\* A home whose configuration was written by an init that succeeded, or by a
\* config command that carried it over, names a registered context, no other
\* context has its name, and the bundled Sendero can be used.
InitializedHome ==
    \A h \in Homes : config[h].complete =>
        /\ Registered(config[h].context)
        /\ \A c \in DOMAIN contexts :
              contexts[c] = contexts[config[h].context] => c = config[h].context
        /\ sendero # NotSeeded

\* The one state from which seeding cannot go on: the Senderos are missing and
\* an agent they need was renamed before they were seeded.
RenamedTooEarly == sendero = NotSeeded /\ \E b \in Bundled : WithSlug(b) = {} /\ b \in DOMAIN agents

\* The Studio comes up for good, whoever else initialises the database and
\* whatever fails on the way, unless a bundled agent was renamed too early.
StudioComesUp == <>[](proc[Studio].at = "ready" \/ RenamedTooEarly)
=============================================================================
