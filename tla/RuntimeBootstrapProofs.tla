----------------------- MODULE RuntimeBootstrapProofs -----------------------
(***************************************************************************)
(* Theorems about RuntimeBootstrap for any homes, names, agents and        *)
(* commands, and any number of faults and authoring commands.  Files and   *)
(* the database are written apart: the argument is that the rows an        *)
(* initialised home relies on are never taken away, so that what a process *)
(* established before it was interrupted, or copied from a configuration   *)
(* that somebody else has replaced since, is still true when it is used.   *)
(***************************************************************************)
EXTENDS RuntimeBootstrap, TLAPS

Configs == [context : Nat, complete : BOOLEAN]

Points == {"idle", "config", "migrate", "apply", "register", "insert", "agents", "senderos",
           "ready", "failed", "set"}

Procs == [at : Points, home : Homes \cup {NoHome}, context : Nat, name : Names \cup {NoName},
          config : Configs]

TypeOK ==
    /\ config \in [Homes -> Configs]
    /\ proc \in [Processes -> Procs]
    /\ transitions \in [Bundled \cup Custom -> {0, 1}]
    /\ drawn \in Nat
    /\ edits \in Nat

\* The unique index on the name.
NamesUnique ==
    \A c, d \in DOMAIN contexts : contexts[c] = contexts[d] => c = d

\* A configuration that claims to be complete can be relied on.
Usable(k) == k.complete => Registered(k.context) /\ sendero # NotSeeded

\* A command has registered its context before it seeds; the Studio has no
\* home; the copy of a configuration to be written back is as good as its
\* original.
Sound(p) ==
    /\ p = Studio => proc[p].home = NoHome
    /\ p # Studio /\ proc[p].at \in {"agents", "senderos"} => Registered(proc[p].context)
    /\ Usable(proc[p].config)

IInv ==
    /\ TypeOK
    /\ NamesUnique
    /\ \A h \in Homes : Usable(config[h])
    /\ \A p \in Processes : Sound(p)

-----------------------------------------------------------------------------
LEMMA InitIInv == Init => IInv
<1> SUFFICES ASSUME Init PROVE IInv
  OBVIOUS
<1>1. TypeOK
  BY DEF Init, TypeOK, Configs, Procs, Points, Idle, NoConfig
<1>2. NamesUnique
  BY DEF Init, NamesUnique
<1>3. ASSUME NEW h \in Homes PROVE Usable(config[h])
  BY DEF Init, Usable, NoConfig
<1>4. ASSUME NEW p \in Processes PROVE Sound(p)
  BY DEF Init, Sound, Idle, NoConfig, Usable
<1> QED
  BY <1>1, <1>2, <1>3, <1>4 DEF IInv

\* Rows are only added: what is usable stays so.
LEMMA UsableStays ==
  ASSUME DOMAIN contexts \subseteq DOMAIN contexts',
         sendero # NotSeeded => sendero' # NotSeeded,
         NEW k, Usable(k)
  PROVE  k.complete => k.context \in DOMAIN contexts' /\ sendero' # NotSeeded
BY DEF Usable, Registered

\* A step that only adds rows has to answer for the configurations and the
\* processes it changes.
LEMMA StepKeeps ==
  ASSUME IInv, TypeOK', NamesUnique',
         DOMAIN contexts \subseteq DOMAIN contexts',
         sendero # NotSeeded => sendero' # NotSeeded,
         \A h \in Homes : config'[h] = config[h] \/ Usable(config[h])',
         \A p \in Processes : proc'[p] = proc[p] \/ Sound(p)'
  PROVE  IInv'
<1>1. ASSUME NEW h \in Homes PROVE Usable(config[h])'
  <2>1. Usable(config[h])
    BY DEF IInv
  <2>2. config'[h] = config[h] => Usable(config[h])'
    BY <2>1 DEF Usable, Registered
  <2> QED
    BY <2>2
<1>2. ASSUME NEW p \in Processes PROVE Sound(p)'
  <2>1. Sound(p)
    BY DEF IInv
  <2>2. proc'[p] = proc[p] => Sound(p)'
    BY <2>1 DEF Sound, Usable, Registered
  <2> QED
    BY <2>2
<1> QED
  BY <1>1, <1>2 DEF IInv

\* A process moves; of the rows only agents and the schema may change.
LEMMA MoveKeeps ==
  ASSUME IInv, NEW p \in Processes, NEW q \in Procs,
         proc' = [proc EXCEPT ![p] = q],
         UNCHANGED <<config, contexts, sendero, edits>>,
         drawn' \in Nat, transitions' \in [Bundled \cup Custom -> {0, 1}],
         p = Studio => q.home = NoHome,
         p # Studio /\ q.at \in {"agents", "senderos"} => Registered(q.context),
         Usable(q.config)
  PROVE  IInv'
<1>1. TypeOK'
  BY DEF IInv, TypeOK
<1>2. NamesUnique'
  BY DEF IInv, NamesUnique
<1>3. proc'[p] = q /\ \A r \in Processes : r # p => proc'[r] = proc[r]
  BY DEF IInv, TypeOK
<1>4. Sound(p)'
  BY <1>3 DEF Sound, Usable, Registered
<1>5. \A r \in Processes : proc'[r] = proc[r] \/ Sound(r)'
  BY <1>3, <1>4
<1>6. \A h \in Homes : config'[h] = config[h]
  OBVIOUS
<1> QED
  BY <1>1, <1>2, <1>5, <1>6, StepKeeps

\* The same when only the point changes: what the next point asks for is
\* there already.
LEMMA PointKeeps ==
  ASSUME IInv, NEW p \in Processes, NEW to \in Points,
         proc' = [proc EXCEPT ![p].at = to],
         UNCHANGED <<config, contexts, sendero, edits>>,
         drawn' \in Nat, transitions' \in [Bundled \cup Custom -> {0, 1}],
         p # Studio /\ to \in {"agents", "senderos"} => Registered(proc[p].context)
  PROVE  IInv'
<1> DEFINE q == [proc[p] EXCEPT !.at = to]
<1>1. proc[p] \in Procs /\ Sound(p)
  BY DEF IInv, TypeOK
<1>2. /\ q \in Procs /\ q.at = to /\ q.home = proc[p].home /\ q.context = proc[p].context
      /\ q.config = proc[p].config
  BY <1>1 DEF Procs
<1>3. proc' = [proc EXCEPT ![p] = q]
  OBVIOUS
<1> HIDE DEF q
<1>4. Usable(q.config)
  BY <1>1, <1>2 DEF Sound
<1>5. p = Studio => q.home = NoHome
  BY <1>1, <1>2 DEF Sound
<1>6. p # Studio /\ q.at \in {"agents", "senderos"} => Registered(q.context)
  BY <1>2
<1> QED
  BY <1>2, <1>3, <1>4, <1>5, <1>6, MoveKeeps

\* And when a command ends, or fails.
LEMMA EndKeeps ==
  ASSUME IInv, NEW p \in Processes, proc' = [proc EXCEPT ![p] = Idle],
         UNCHANGED <<config, contexts, sendero, edits, drawn, transitions>>
  PROVE  IInv'
<1>1. Idle \in Procs /\ Idle.home = NoHome /\ Idle.at = "idle" /\ ~Idle.config.complete
  BY DEF Idle, Procs, Points, Configs, NoConfig
<1>2. Usable(Idle.config)
  BY <1>1 DEF Usable
<1>3. drawn' \in Nat /\ transitions' \in [Bundled \cup Custom -> {0, 1}]
  BY DEF IInv, TypeOK
<1> QED
  BY <1>1, <1>2, <1>3, MoveKeeps

-----------------------------------------------------------------------------
(* The steps of a bootstrap. *)

LEMMA StartInitKeeps ==
  ASSUME IInv, NEW p \in Commands, NEW h \in Homes, NEW n \in Names,
         NEW given \in 0 .. MaxContexts, StartInit(p, h, n, given)
  PROVE  IInv'
<1> DEFINE q == [Idle EXCEPT !.at = "config", !.home = h, !.name = n, !.context = ContextId(given)]
<1>1. given \in Nat /\ drawn \in Nat
  BY BoundsAssumption DEF IInv, TypeOK
<1>2. ContextId(given) \in Nat /\ drawn' \in Nat
  BY <1>1 DEF ContextId, StartInit
<1>3. q \in Procs /\ q.at = "config" /\ ~q.config.complete
  BY <1>2 DEF Idle, Procs, Points, Configs, NoConfig
<1>4. proc' = [proc EXCEPT ![p] = q] /\ UNCHANGED <<config, contexts, sendero, edits, transitions>>
  BY DEF StartInit
<1> HIDE DEF q
<1>5. p \in Processes /\ p # Studio
  BY NamesApart DEF Processes
<1>6. Usable(q.config)
  BY <1>3 DEF Usable
<1>7. transitions' \in [Bundled \cup Custom -> {0, 1}]
  BY <1>4 DEF IInv, TypeOK
<1> QED
  BY <1>2, <1>3, <1>4, <1>5, <1>6, <1>7, MoveKeeps

LEMMA WriteConfigKeeps ==
  ASSUME IInv, NEW p \in Processes, WriteConfig(p) PROVE IInv'
<1> DEFINE k == [context |-> proc[p].context, complete |-> FALSE]
           q == [proc[p] EXCEPT !.at = "migrate"]
<1>1. proc[p] \in Procs /\ Sound(p)
  BY DEF IInv, TypeOK
<1>2. k \in Configs /\ ~k.complete
  BY <1>1 DEF Procs, Configs
<1>3. /\ q \in Procs /\ q.at = "migrate" /\ q.home = proc[p].home /\ q.config = proc[p].config
  BY <1>1 DEF Procs, Points
<1>4. /\ config' = [config EXCEPT ![proc[p].home] = k]
      /\ proc' = [proc EXCEPT ![p] = q]
      /\ UNCHANGED <<contexts, sendero, edits, drawn, transitions>>
  BY DEF WriteConfig, To
<1> HIDE DEF k, q
<1>5. TypeOK'
  BY <1>2, <1>3, <1>4 DEF IInv, TypeOK
<1>6. NamesUnique'
  BY <1>4 DEF IInv, NamesUnique
<1>7. ASSUME NEW h \in Homes PROVE config'[h] = config[h] \/ Usable(config[h])'
  <2>1. config'[h] = config[h] \/ config'[h] = k
    BY <1>4 DEF IInv, TypeOK
  <2> QED
    BY <1>2, <2>1 DEF Usable
<1>8. proc'[p] = q /\ \A r \in Processes : r # p => proc'[r] = proc[r]
  BY <1>4 DEF IInv, TypeOK
<1>9. Sound(p)'
  BY <1>1, <1>3, <1>4, <1>8 DEF Sound, Usable, Registered
<1>10. \A r \in Processes : proc'[r] = proc[r] \/ Sound(r)'
  BY <1>8, <1>9
<1> QED
  BY <1>4, <1>5, <1>6, <1>7, <1>10, StepKeeps

LEMMA MigrateKeeps ==
  ASSUME IInv, NEW p \in Processes, ReadMigrations(p) \/ ApplyMigrations(p) PROVE IInv'
<1>1. UNCHANGED <<config, contexts, sendero, edits, drawn, transitions>>
  BY DEF ReadMigrations, ApplyMigrations
<1>2. drawn' \in Nat /\ transitions' \in [Bundled \cup Custom -> {0, 1}]
  BY <1>1 DEF IInv, TypeOK
<1>3. CASE proc' = Failed(p)
  BY <1>1, <1>3, EndKeeps DEF Failed
<1>4. CASE proc' # Failed(p)
  <2>1. PICK to \in {"apply", AfterSchema(p)} : proc' = [proc EXCEPT ![p].at = to]
    BY <1>4 DEF ReadMigrations, ApplyMigrations, To
  <2>2. to \in Points /\ p # Studio => to \notin {"agents", "senderos"}
    BY <2>1 DEF AfterSchema, Points
  <2>3. to \in Points
    BY <2>1 DEF AfterSchema, Points
  <2> QED
    BY <1>1, <1>2, <2>1, <2>2, <2>3, PointKeeps
<1> QED
  BY <1>3, <1>4

\* What RegisterExecutionContext leaves of a command that goes on.
LEMMA RegisterKeeps ==
  ASSUME IInv, NEW p \in Processes, RegisterExecutionContext(p) PROVE IInv'
<1>1. UNCHANGED <<config, contexts, sendero, edits, drawn, transitions>>
  BY DEF RegisterExecutionContext
<1>2. drawn' \in Nat /\ transitions' \in [Bundled \cup Custom -> {0, 1}]
  BY <1>1 DEF IInv, TypeOK
<1>3. proc[p] \in Procs /\ Sound(p)
  BY DEF IInv, TypeOK
<1>4. CASE Registered(proc[p].context) /\ contexts[proc[p].context] = proc[p].name
  <2> DEFINE q == [proc[p] EXCEPT !.at = "agents", !.name = NoName]
  <2>1. proc' = [proc EXCEPT ![p] = q]
    BY <1>3, <1>4 DEF RegisterExecutionContext, IInv, TypeOK
  <2>2. /\ q \in Procs /\ q.home = proc[p].home /\ q.context = proc[p].context
        /\ q.config = proc[p].config
    BY <1>3 DEF Procs, Points
  <2> HIDE DEF q
  <2>3. Usable(q.config) /\ (p = Studio => q.home = NoHome)
    BY <1>3, <2>2 DEF Sound
  <2>4. Registered(q.context)
    BY <1>4, <2>2
  <2> QED
    BY <1>1, <1>2, <2>1, <2>2, <2>3, <2>4, MoveKeeps
<1>5. CASE ~(Registered(proc[p].context) /\ contexts[proc[p].context] = proc[p].name)
  <2>1. proc' = [proc EXCEPT ![p].at = "insert"] \/ proc' = Failed(p)
    BY <1>5 DEF RegisterExecutionContext
  <2>2. "insert" \in Points
    BY DEF Points
  <2>3. CASE proc' = [proc EXCEPT ![p].at = "insert"]
    BY <1>1, <1>2, <2>2, <2>3, PointKeeps
  <2>4. CASE proc' = Failed(p)
    BY <1>1, <2>4, EndKeeps DEF Failed
  <2> QED
    BY <2>1, <2>3, <2>4
<1> QED
  BY <1>4, <1>5

\* A context is added under a name nobody has.
LEMMA InsertKeeps ==
  ASSUME IInv, NEW p \in Processes, InsertContext(p) PROVE IInv'
<1> DEFINE c == proc[p].context
           n == proc[p].name
<1>1. UNCHANGED <<config, sendero, edits, drawn, transitions>>
  BY DEF InsertContext
<1>2. proc[p] \in Procs /\ Sound(p)
  BY DEF IInv, TypeOK
<1>3. CASE ~Insertable(c, n)
  <2>1. proc' = Failed(p) /\ contexts' = contexts
    BY <1>3 DEF InsertContext
  <2> QED
    BY <1>1, <2>1, EndKeeps DEF Failed
<1>4. CASE Insertable(c, n)
  <2> DEFINE q == [proc[p] EXCEPT !.at = "agents", !.name = NoName]
  <2>1. proc' = [proc EXCEPT ![p] = q] /\ contexts' = WithRow(contexts, c, n)
    BY <1>2, <1>4 DEF InsertContext, IInv, TypeOK
  <2>2. /\ q \in Procs /\ q.home = proc[p].home /\ q.context = proc[p].context
        /\ q.config = proc[p].config
    BY <1>2 DEF Procs, Points
  <2> HIDE DEF q
  <2>3. /\ DOMAIN contexts' = DOMAIN contexts \cup {c}
        /\ \A d \in DOMAIN contexts' : contexts'[d] = IF d = c THEN n ELSE contexts[d]
    BY <2>1 DEF WithRow
  <2>4. NamesUnique'
    <3>1. \A d \in DOMAIN contexts : d # c /\ contexts[d] # n
      BY <1>4 DEF Insertable, Registered, NameTaken
    <3>2. NamesUnique
      BY DEF IInv
    <3> HIDE DEF c, n
    <3> QED
      BY <2>3, <3>1, <3>2 DEF NamesUnique
  <2>5. TypeOK'
    BY <1>1, <2>1, <2>2 DEF IInv, TypeOK
  <2>6. proc'[p] = q /\ \A r \in Processes : r # p => proc'[r] = proc[r]
    BY <2>1 DEF IInv, TypeOK
  <2>7. Sound(p)'
    BY <1>1, <1>2, <2>2, <2>3, <2>6 DEF Sound, Usable, Registered
  <2>8. \A r \in Processes : proc'[r] = proc[r] \/ Sound(r)'
    BY <2>6, <2>7
  <2>9. DOMAIN contexts \subseteq DOMAIN contexts' /\ \A h \in Homes : config'[h] = config[h]
    BY <1>1, <2>3
  <2> QED
    BY <1>1, <2>4, <2>5, <2>8, <2>9, StepKeeps
<1> QED
  BY <1>3, <1>4

LEMMA DefaultsTyped ==
  ASSUME IInv, NEW A
  PROVE  EnsureDefaultTransitions(A) \in [Bundled \cup Custom -> {0, 1}]
BY DEF EnsureDefaultTransitions, IInv, TypeOK

LEMMA SeedAgentsKeeps ==
  ASSUME IInv, NEW p \in Processes, SeedBuiltInAgents(p) PROVE IInv'
<1>1. /\ UNCHANGED <<config, contexts, sendero, edits, drawn>>
      /\ proc[p].at = "agents" /\ proc' = [proc EXCEPT ![p].at = "senderos"]
  BY DEF SeedBuiltInAgents, To
<1>2. transitions' \in [Bundled \cup Custom -> {0, 1}]
  BY DefaultsTyped DEF SeedBuiltInAgents
<1>3. Sound(p) /\ "senderos" \in Points /\ drawn' \in Nat
  BY <1>1 DEF IInv, TypeOK, Points
<1> QED
  BY <1>1, <1>2, <1>3, PointKeeps DEF Sound

LEMMA PinsSeeded == Pins # NotSeeded
<1>1. DOMAIN Pins = Bundled /\ DOMAIN NotSeeded = {}
  BY DEF Pins, NotSeeded
<1> QED
  BY <1>1, BundledAssumption

\* The one step that completes a configuration: its context is registered
\* and the Sendero is there.
LEMMA SeedSenderosKeeps ==
  ASSUME IInv, NEW p \in Processes, SeedBuiltInSenderos(p) PROVE IInv'
<1>1. UNCHANGED <<contexts, edits, drawn, transitions>> /\ proc[p].at = "senderos"
  BY DEF SeedBuiltInSenderos
<1>2. proc[p] \in Procs /\ Sound(p)
  BY DEF IInv, TypeOK
<1>3. CASE ~(sendero # NotSeeded \/ SlugsThere)
  <2>1. proc' = Failed(p) /\ UNCHANGED <<config, sendero>>
    BY <1>3 DEF SeedBuiltInSenderos
  <2> QED
    BY <1>1, <2>1, EndKeeps DEF Failed
<1>4. CASE sendero # NotSeeded \/ SlugsThere
  <2>1. Finished(p) /\ sendero' = IF sendero = NotSeeded THEN Pins ELSE sendero
    BY <1>4 DEF SeedBuiltInSenderos
  <2>2. sendero' # NotSeeded
    BY <2>1, PinsSeeded
  <2> DEFINE q == IF p = Studio THEN [Idle EXCEPT !.at = "ready"] ELSE Idle
  <2>3. q \in Procs /\ q.home = NoHome /\ q.at \in {"idle", "ready"} /\ ~q.config.complete
    BY DEF Idle, Procs, Points, Configs, NoConfig
  <2>4. proc' = [proc EXCEPT ![p] = q]
    BY <2>1 DEF Finished
  <2> HIDE DEF q
  <2>5. \A h \in Homes : config[h] \in Configs
    BY DEF IInv, TypeOK
  <2>6. ASSUME NEW h \in Homes
        PROVE  /\ config'[h] \in Configs
               /\ \/ config'[h] = config[h]
                  \/ /\ h = proc[p].home
                     /\ config'[h].context = proc[p].context
    BY <2>1, <2>5 DEF Finished, Configs
  <2>7. config' \in [Homes -> Configs]
    <3>1. config' = [h \in Homes |-> config'[h]]
      BY <2>1 DEF Finished
    <3> QED
      BY <2>6, <3>1
  <2>8. TypeOK'
    BY <1>1, <2>3, <2>4, <2>7 DEF IInv, TypeOK
  <2>9. NamesUnique'
    BY <1>1 DEF IInv, NamesUnique
  <2>10. ASSUME NEW h \in Homes PROVE config'[h] = config[h] \/ Usable(config[h])'
    <3>1. CASE h = proc[p].home /\ config'[h].context = proc[p].context
      <4>1. p # Studio
        BY <1>2, <3>1, HomesAssumption DEF Sound
      <4>2. Registered(proc[p].context)
        BY <1>1, <1>2, <4>1 DEF Sound
      <4> QED
        BY <1>1, <2>2, <3>1, <4>2 DEF Usable, Registered
    <3> QED
      BY <2>6, <3>1
  <2>11. proc'[p] = q /\ \A r \in Processes : r # p => proc'[r] = proc[r]
    BY <2>4 DEF IInv, TypeOK
  <2>12. Sound(p)'
    BY <2>3, <2>11 DEF Sound, Usable
  <2>13. \A r \in Processes : proc'[r] = proc[r] \/ Sound(r)'
    BY <2>11, <2>12
  <2> QED
    BY <1>1, <2>2, <2>8, <2>9, <2>10, <2>13, StepKeeps
<1> QED
  BY <1>3, <1>4

-----------------------------------------------------------------------------
(* Interruptions, config set and authoring. *)

LEMMA StudioKeeps ==
  ASSUME IInv, StartStudio \/ RestartStudio PROVE IInv'
<1>1. UNCHANGED <<config, contexts, sendero, edits, drawn, transitions>>
  BY DEF StartStudio, RestartStudio
<1>2. /\ Studio \in Processes /\ "migrate" \in Points
      /\ drawn' \in Nat /\ transitions' \in [Bundled \cup Custom -> {0, 1}]
  BY <1>1 DEF IInv, TypeOK, Processes, Points
<1>3. proc' = [proc EXCEPT ![Studio].at = "migrate"] \/ proc' = [proc EXCEPT ![Studio] = Idle]
  BY DEF StartStudio, RestartStudio, To
<1>4. CASE proc' = [proc EXCEPT ![Studio].at = "migrate"]
  BY <1>1, <1>2, <1>4, PointKeeps
<1>5. CASE proc' = [proc EXCEPT ![Studio] = Idle]
  BY <1>1, <1>2, <1>5, EndKeeps
<1> QED
  BY <1>3, <1>4, <1>5

LEMMA FaultKeeps ==
  ASSUME IInv, NEW p \in Processes, Fault(p) PROVE IInv'
BY EndKeeps DEF Fault, Failed

LEMMA ReadConfigKeeps ==
  ASSUME IInv, NEW p \in Commands, NEW h \in Homes, ReadConfig(p, h) PROVE IInv'
<1> DEFINE q == [Idle EXCEPT !.at = "set", !.home = h, !.config = config[h]]
<1>1. config[h] \in Configs /\ Usable(config[h])
  BY DEF IInv, TypeOK
<1>2. q \in Procs /\ q.at = "set" /\ q.config = config[h]
  BY <1>1 DEF Idle, Procs, Points, Configs, NoConfig
<1>3. /\ proc' = [proc EXCEPT ![p] = q]
      /\ UNCHANGED <<config, contexts, sendero, edits, drawn, transitions>>
  BY DEF ReadConfig
<1> HIDE DEF q
<1>4. p \in Processes /\ p # Studio
  BY NamesApart DEF Processes
<1>5. drawn' \in Nat /\ transitions' \in [Bundled \cup Custom -> {0, 1}]
  BY <1>3 DEF IInv, TypeOK
<1> QED
  BY <1>1, <1>2, <1>3, <1>4, <1>5, MoveKeeps

\* The file is written back although it may have been replaced since it was
\* read: by the invariant what the copy claims is still true.
LEMMA WriteBackKeeps ==
  ASSUME IInv, NEW p \in Processes, UpdateConfigPath(p) PROVE IInv'
<1> DEFINE k == proc[p].config
<1>1. proc[p] \in Procs /\ Sound(p)
  BY DEF IInv, TypeOK
<1>2. k \in Configs /\ Usable(k)
  BY <1>1 DEF Procs, Sound
<1>3. /\ config' = [config EXCEPT ![proc[p].home] = k]
      /\ proc' = [proc EXCEPT ![p] = Idle]
      /\ UNCHANGED <<contexts, sendero, edits, drawn, transitions>>
  BY DEF UpdateConfigPath
<1> HIDE DEF k
<1>4. Idle \in Procs /\ Idle.home = NoHome /\ Idle.at = "idle" /\ ~Idle.config.complete
  BY DEF Idle, Procs, Points, Configs, NoConfig
<1>5. TypeOK'
  BY <1>2, <1>3, <1>4 DEF IInv, TypeOK
<1>6. NamesUnique'
  BY <1>3 DEF IInv, NamesUnique
<1>7. ASSUME NEW h \in Homes PROVE config'[h] = config[h] \/ Usable(config[h])'
  <2>1. config'[h] = config[h] \/ config'[h] = k
    BY <1>3 DEF IInv, TypeOK
  <2> QED
    BY <1>2, <1>3, <2>1 DEF Usable, Registered
<1>8. proc'[p] = Idle /\ \A r \in Processes : r # p => proc'[r] = proc[r]
  BY <1>3 DEF IInv, TypeOK
<1>9. Sound(p)'
  BY <1>4, <1>8 DEF Sound, Usable
<1>10. \A r \in Processes : proc'[r] = proc[r] \/ Sound(r)'
  BY <1>8, <1>9
<1> QED
  BY <1>3, <1>5, <1>6, <1>7, <1>10, StepKeeps

AuthorStep ==
    \/ \E a \in Custom, s \in Slugs : CreateAgent(a, s)
    \/ \E a \in Bundled \cup Custom, s \in Slugs : UpdateAgent(a, s)
    \/ ImportAgents \/ PublishSendero

\* An authoring command counts as one, and never unpublishes the Sendero.
LEMMA AuthorKeeps ==
  ASSUME IInv, AuthorStep PROVE IInv' /\ edits' # edits
<1>1. Author
  BY DEF AuthorStep, CreateAgent, UpdateAgent, ImportAgents, PublishSendero
<1>2. edits \in Nat /\ edits' = edits + 1 /\ UNCHANGED <<config, contexts, proc, drawn>>
  BY <1>1 DEF Author, IInv, TypeOK
<1>3. transitions' \in [Bundled \cup Custom -> {0, 1}]
  <2>1. transitions \in [Bundled \cup Custom -> {0, 1}]
    BY DEF IInv, TypeOK
  <2>2. transitions' = transitions \/ \E A : transitions' = EnsureDefaultTransitions(A)
    BY DEF AuthorStep, CreateAgent, UpdateAgent, ImportAgents, PublishSendero
  <2> QED
    BY <2>1, <2>2, DefaultsTyped
<1>4. sendero # NotSeeded => sendero' # NotSeeded
  BY PinsSeeded DEF AuthorStep, CreateAgent, UpdateAgent, ImportAgents, PublishSendero
<1>5. TypeOK'
  BY <1>2, <1>3 DEF IInv, TypeOK
<1>6. NamesUnique'
  BY <1>2 DEF IInv, NamesUnique
<1> QED
  BY <1>2, <1>4, <1>5, <1>6, StepKeeps

-----------------------------------------------------------------------------
(* The theorems. *)

\* Everything that is not authoring.
OtherStep ==
    \/ \E p \in Commands, h \in Homes :
          \/ \E n \in Names, given \in 0 .. MaxContexts : StartInit(p, h, n, given)
          \/ ReadConfig(p, h)
    \/ \E p \in Commands : UpdateConfigPath(p)
    \/ \E p \in Processes : Bootstrap(p) \/ Fault(p)
    \/ StartStudio \/ RestartStudio

LEMMA NextSplits == Next <=> OtherStep \/ AuthorStep
BY DEF Next, OtherStep, AuthorStep

LEMMA OtherKeeps ==
  ASSUME IInv, OtherStep PROVE IInv'
<1>1. ASSUME NEW p \in Processes, Bootstrap(p) PROVE IInv'
  BY <1>1, WriteConfigKeeps, MigrateKeeps, RegisterKeeps, InsertKeeps, SeedAgentsKeeps,
     SeedSenderosKeeps DEF Bootstrap
<1>2. Commands \subseteq Processes
  BY DEF Processes
<1> QED
  BY <1>1, <1>2, StartInitKeeps, ReadConfigKeeps, WriteBackKeeps, FaultKeeps, StudioKeeps
  DEF OtherStep

LEMMA NextKeeps ==
  ASSUME IInv, [Next]_vars PROVE IInv'
<1>1. CASE UNCHANGED vars
  <2>1. TypeOK' /\ NamesUnique'
    BY <1>1 DEF vars, IInv, TypeOK, NamesUnique
  <2> QED
    BY <1>1, <2>1, StepKeeps DEF vars
<1> QED
  BY <1>1, NextSplits, OtherKeeps, AuthorKeeps

LEMMA Invariance == Spec => []IInv
<1>1. Init => IInv
  BY InitIInv
<1>2. IInv /\ [Next]_vars => IInv'
  BY NextKeeps
<1> QED
  BY <1>1, <1>2, PTL DEF Spec

\* A home whose init succeeded, or whose configuration was carried over by
\* config set from one that did, names a registered context that no other
\* shares its name with, and the bundled Sendero is there (initializeRuntime,
\* shared/config.ts; updateConfigPath).
THEOREM InitializedAlways == Spec => []InitializedHome
<1>1. IInv => InitializedHome
  BY DEF IInv, InitializedHome, Usable, NamesUnique, Registered
<1> QED
  BY <1>1, Invariance, PTL

\* What a step of a bootstrap may change of agents and pins.
Survives ==
    edits' = edits =>
        /\ \A a \in DOMAIN agents : a \in DOMAIN agents' /\ agents'[a] = agents[a]
        /\ sendero # NotSeeded => sendero' = sendero

LEMMA OtherSurvives ==
  ASSUME IInv, OtherStep
  PROVE  /\ \A a \in DOMAIN agents : a \in DOMAIN agents' /\ agents'[a] = agents[a]
         /\ sendero # NotSeeded => sendero' = sendero
<1>1. CASE \E p \in Processes : SeedBuiltInAgents(p)
  BY <1>1 DEF SeedBuiltInAgents, Seeded
<1>2. CASE \E p \in Processes : SeedBuiltInSenderos(p)
  BY <1>2 DEF SeedBuiltInSenderos
<1>3. CASE UNCHANGED <<agents, sendero>>
  BY <1>3
<1>4. UNCHANGED <<agents, sendero>> \/ \E p \in Processes : SeedBuiltInAgents(p) \/ SeedBuiltInSenderos(p)
  <2>1. ASSUME NEW p, Bootstrap(p), ~SeedBuiltInAgents(p), ~SeedBuiltInSenderos(p)
        PROVE  UNCHANGED <<agents, sendero>>
    BY <2>1 DEF Bootstrap, WriteConfig, ReadMigrations, ApplyMigrations, RegisterExecutionContext,
                InsertContext
  <2> QED
    BY <2>1 DEF OtherStep, StartInit, ReadConfig, UpdateConfigPath, Fault, StartStudio, RestartStudio
<1> QED
  BY <1>1, <1>2, <1>3, <1>4

\* Whoever initialises, from however many processes and after whatever
\* interruption, leaves what authors made as it is: seeding adds the rows that
\* are missing and edits none (seedBuiltInAgents, seedBuiltInSenderos).
THEOREM AuthoringAlwaysSurvives == Spec => AuthoringSurvives
<1>1. ASSUME IInv, [Next]_vars PROVE [Survives]_vars
  <2>1. CASE OtherStep
    BY <1>1, <2>1, OtherSurvives DEF Survives
  <2>2. CASE AuthorStep
    BY <1>1, <2>2, AuthorKeeps DEF Survives
  <2> QED
    BY <1>1, <2>1, <2>2, NextSplits
<1>2. [Survives]_vars => [edits' = edits =>
          /\ \A a \in DOMAIN agents : a \in DOMAIN agents' /\ agents'[a] = agents[a]
          /\ sendero # NotSeeded => sendero' = sendero]_vars
  BY DEF Survives
<1>3. IInv /\ [Next]_vars => [Survives]_vars
  BY <1>1
<1> QED
  BY <1>2, <1>3, Invariance, PTL DEF Spec, AuthoringSurvives
=============================================================================
