--------------------------- MODULE RuntimeConfig ---------------------------
(***************************************************************************)
(* Role Registry, generated runtime configuration and runtime service      *)
(* (roles.py, runtime_config.py, file_transactions.py).  A writer works in *)
(* a transaction: a file lock, re-entrant in its thread, that every nested *)
(* operation takes and leaves again.  A switch commits the new binding to  *)
(* the registry, applies the configuration generated from it, and puts the *)
(* registry back when the configuration could not be applied.              *)
(*                                                                         *)
(* The installation lock, the lock of the registries and the lock of the   *)
(* configuration are always taken in this order and nobody else takes the  *)
(* inner ones, so they are one lock here.  The user starts and stops the   *)
(* service outside of it.  Every file is replaced atomically.  A binding   *)
(* is a model with its profile; one role has one runtime id.               *)
(***************************************************************************)
EXTENDS Naturals, FiniteSets

CONSTANTS
    Writer,         \* processes that change the registry or the runtime
    Role,           \* role ids
    DefaultRole,    \* the default one at first
    Binding,        \* models with a profile
    Foreign,        \* those of another backend, which are not generated
    Unbound, NoRole, NoConfig, Nobody,
    MaxGeneration   \* bound on commits of the registry

ASSUME NobodyWrites == Nobody \notin Writer

VARIABLES
    roleRegistry,   \* generation, default role, the roles
    configFile,     \* what is installed: pairs of role and binding
    service,        \* whether it runs and the configuration it read
    lock,           \* holder and depth of the transaction
    step,           \* where each writer is
    errand,            \* "edit", "switch" or "apply"
    draft,          \* its copy of the registry
    seen,           \* before, previous and was_active of the code
    wrong,          \* whether its work raised
    unrepaired      \* history: a crash, or a failure while undoing one

configVars == <<roleRegistry, configFile, service, lock, step, errand, draft, seen, wrong, unrepaired>>

Free == [holder |-> Nobody, depth |-> 0]
Inactive == [active |-> FALSE, loaded |-> NoConfig]
RunningService(config) == [active |-> TRUE, loaded |-> config]

Entered(p) == [holder |-> p, depth |-> lock.depth + 1]
\* mutant: leaving a nested transaction drops the file lock
LeftForGood(l) == Free
Left(l) == IF l.depth = 1 THEN Free ELSE [l EXCEPT !.depth = @ - 1]

At(p, s) == step[p] = s
Goes(p, s) == step' = [step EXCEPT ![p] = s]
Raises(p, s) == Goes(p, s) /\ wrong' = [wrong EXCEPT ![p] = TRUE]

FirstRegistry ==
    [generation |-> 0, default |-> DefaultRole,
     roles |-> [r \in Role |-> IF r = DefaultRole THEN [enabled |-> TRUE, model |-> Unbound] ELSE NoRole]]
NothingSeen == [before |-> FirstRegistry, previous |-> NoConfig, active |-> FALSE, plan |-> {}]

\* the variables of a call end with it
Returns(p) ==
    /\ Goes(p, "away")
    /\ errand' = [errand EXCEPT ![p] = "edit"]
    /\ draft' = [draft EXCEPT ![p] = FirstRegistry]
    /\ seen' = [seen EXCEPT ![p] = NothingSeen]
    /\ wrong' = [wrong EXCEPT ![p] = FALSE]

-----------------------------------------------------------------------------
(* Registry *)

Known(reg) == {r \in Role : reg.roles[r] # NoRole}
Put(reg, r, value) == [reg EXCEPT !.roles[r] = value]

CreateRole(reg, r) ==
    {Put(reg, r, [enabled |-> m # Unbound, model |-> m]) : m \in Binding \union {Unbound}}
RemoveRole(reg, r) == IF r = reg.default THEN {} ELSE {Put(reg, r, NoRole)}
SetRoleEnabled(reg, r) ==
    {Put(reg, r, [reg.roles[r] EXCEPT !.enabled = e]) :
        e \in {x \in BOOLEAN : IF x THEN reg.roles[r].model # Unbound ELSE r # reg.default}}
SetDefaultRole(reg, r) == IF reg.roles[r].enabled THEN {[reg EXCEPT !.default = r]} ELSE {}
BindModel(reg, r) == {Put(reg, r, [reg.roles[r] EXCEPT !.model = m]) : m \in Binding \union {Unbound}}

Edits(reg) ==
    UNION ({CreateRole(reg, r) : r \in Role \ Known(reg)}
           \union {RemoveRole(reg, r) \union SetRoleEnabled(reg, r) \union SetDefaultRole(reg, r)
                      \union BindModel(reg, r) : r \in Known(reg)})

\* a draft of an older generation is refused
Save(reg) ==
    /\ reg.generation = roleRegistry.generation
    /\ roleRegistry' = [reg EXCEPT !.generation = @ + 1]

Enter(p, j) ==
    /\ At(p, "away") /\ lock.holder = Nobody
    /\ lock' = Entered(p)
    /\ errand' = [errand EXCEPT ![p] = j]
    /\ draft' = [draft EXCEPT ![p] = roleRegistry]
    /\ Goes(p, j)
    /\ seen' = [seen EXCEPT ![p].before = roleRegistry, ![p].previous = configFile]
    /\ UNCHANGED <<roleRegistry, configFile, service, wrong, unrepaired>>

Edit(p) ==
    /\ At(p, "edit")
    /\ \E reg \in Edits(draft[p]) : draft' = [draft EXCEPT ![p] = reg]
    /\ Goes(p, "save")
    /\ UNCHANGED <<roleRegistry, configFile, service, lock, errand, seen, wrong, unrepaired>>

\* a role is switched to a binding that is ready, or unassigned
SwitchRole(p) ==
    /\ At(p, "switch")
    /\ \E r \in Known(draft[p]), m \in Binding \union {Unbound} :
         /\ m # Unbound => draft[p].roles[r].enabled
         /\ draft' = [draft EXCEPT ![p].roles[r].model = m]
    /\ Goes(p, "save")
    /\ UNCHANGED <<roleRegistry, configFile, service, lock, errand, seen, wrong, unrepaired>>

SaveRegistry(p) ==
    /\ At(p, "save") /\ roleRegistry.generation < MaxGeneration
    /\ \/ Save(draft[p])
          /\ draft' = [draft EXCEPT ![p].generation = @ + 1]
          /\ Goes(p, IF errand[p] = "switch" THEN "apply" ELSE "leave")
          /\ UNCHANGED wrong
       \/ Raises(p, "leave") /\ UNCHANGED <<roleRegistry, draft>>
    /\ lock' = Left(Entered(p))
    /\ UNCHANGED <<configFile, service, errand, seen, unrepaired>>

LeaveTransaction(p) ==
    /\ At(p, "leave")
    /\ lock' = Left(lock)
    /\ Returns(p)
    /\ UNCHANGED <<roleRegistry, configFile, service, unrepaired>>

-----------------------------------------------------------------------------
(* apply_runtime_config *)

Plan(reg) ==
    LET generated == {r \in Known(reg) : reg.roles[r].enabled /\ reg.roles[r].model \in Binding \ Foreign}
    IN  {<<r, reg.roles[r].model>> : r \in generated}
RuntimeIds(plan) == {entry[1] : entry \in plan}

\* The plan is built, the service and the installed file are looked at, and a
\* copy of the file is kept; any of it may raise, and a binding that is no
\* longer ready does.
ReadForApply(p) ==
    /\ At(p, "apply")
    /\ \/ /\ lock' = Entered(p)
          /\ seen' = [seen EXCEPT ![p].active = service.active, ![p].plan = Plan(roleRegistry)]
          /\ Goes(p, IF configFile = Plan(roleRegistry) THEN (IF service.active THEN "validate" ELSE "start")
                     ELSE "install")
          /\ UNCHANGED wrong
       \/ Raises(p, "failed") /\ lock' = Entered(p) /\ UNCHANGED seen
    /\ UNCHANGED <<roleRegistry, configFile, service, errand, draft, unrepaired>>

Install(p) ==
    /\ At(p, "install")
    /\ \/ configFile' = seen[p].plan /\ Goes(p, "bounce") /\ UNCHANGED wrong
       \/ Raises(p, "failed") /\ UNCHANGED configFile
    /\ UNCHANGED <<roleRegistry, service, lock, errand, draft, seen, unrepaired>>

\* what systemd may leave behind of a restart or a start; starting a service
\* that runs does nothing, and without a configuration it does not come up
StartedService == IF service.active THEN service ELSE IF configFile = NoConfig THEN Inactive ELSE RunningService(configFile)
RestartedService == IF configFile = NoConfig THEN Inactive ELSE RunningService(configFile)

\* the ids are asked for, not the models
Answers(p, s) == s.active /\ RuntimeIds(seen[p].plan) \subseteq RuntimeIds(s.loaded)

Bounce(p) ==
    /\ At(p, "bounce")
    /\ LET done == IF seen[p].active THEN RestartedService ELSE StartedService
       IN  \/ done.active /\ service' = done /\ Goes(p, "health") /\ UNCHANGED wrong
           \/ service' \in {done, service, Inactive} /\ Raises(p, "undo")
    /\ UNCHANGED <<roleRegistry, configFile, lock, errand, draft, seen, unrepaired>>

Healthy(p) ==
    /\ At(p, "health")
    /\ \/ /\ Answers(p, service)
          /\ Goes(p, IF seen[p].active THEN "applied" ELSE "stop") /\ UNCHANGED wrong
       \/ Raises(p, "undo")
    /\ UNCHANGED <<roleRegistry, configFile, service, lock, errand, draft, seen, unrepaired>>

\* a service that did not run before is stopped again
StopAgain(p) ==
    /\ At(p, "stop")
    /\ \/ service' = Inactive /\ Goes(p, "applied") /\ UNCHANGED wrong
       \/ service' \in {service, Inactive} /\ Raises(p, "undo")
    /\ UNCHANGED <<roleRegistry, configFile, lock, errand, draft, seen, unrepaired>>

\* the file was already current: it is only tried
Validate(p) ==
    /\ At(p, "validate")
    /\ \/ Answers(p, service) /\ Goes(p, "applied") /\ UNCHANGED wrong
       \/ Raises(p, "failed")
    /\ UNCHANGED <<roleRegistry, configFile, service, lock, errand, draft, seen, unrepaired>>

StartAndValidate(p) ==
    /\ At(p, "start")
    /\ service' \in {StartedService, service}
    /\ \/ Answers(p, service') /\ Goes(p, "stop current") /\ UNCHANGED wrong
       \/ Raises(p, "stop current")
    /\ UNCHANGED <<roleRegistry, configFile, lock, errand, draft, seen, unrepaired>>

\* in the finally: whatever happened before
StopCurrent(p) ==
    /\ At(p, "stop current")
    /\ \/ service' = Inactive /\ Goes(p, IF wrong[p] THEN "failed" ELSE "applied") /\ UNCHANGED wrong
       \/ service' = service /\ Raises(p, "failed")
    /\ UNCHANGED <<roleRegistry, configFile, lock, errand, draft, seen, unrepaired>>

\* the previous file is written back, or the new one removed
Undo(p) ==
    /\ At(p, "undo")
    /\ \/ configFile' = seen[p].previous /\ Goes(p, "bounce back") /\ UNCHANGED unrepaired
       \/ Goes(p, "failed") /\ unrepaired' = TRUE /\ UNCHANGED configFile
    /\ UNCHANGED <<roleRegistry, service, lock, errand, draft, seen, wrong>>

\* mutant: the service is left as the failed attempt made it
BounceBackActive(p) ==
    /\ At(p, "bounce back")
    /\ service' = IF seen[p].active THEN RestartedService ELSE service
    /\ Goes(p, "failed")
    /\ UNCHANGED <<roleRegistry, configFile, lock, errand, draft, seen, wrong, unrepaired>>

\* an error here is only reported
BounceBack(p) ==
    /\ At(p, "bounce back")
    /\ LET done == IF seen[p].active THEN RestartedService ELSE Inactive
       IN  \/ service' = done /\ UNCHANGED unrepaired
           \/ service' \in {service, Inactive} /\ unrepaired' = TRUE
    /\ Goes(p, "failed")
    /\ UNCHANGED <<roleRegistry, configFile, lock, errand, draft, seen, wrong>>

LeaveApply(p) ==
    /\ At(p, "applied") \/ At(p, "failed")
    /\ lock' = Left(lock)
    /\ Goes(p, IF At(p, "failed") /\ errand[p] = "switch" THEN "give back" ELSE "leave")
    /\ UNCHANGED <<roleRegistry, configFile, service, errand, draft, seen, wrong, unrepaired>>

\* the registry of before, as an edit of the one the switch committed
GiveBack(p) ==
    /\ At(p, "give back")
    /\ \/ /\ Save([seen[p].before EXCEPT !.generation = draft[p].generation])
          /\ UNCHANGED unrepaired
       \/ unrepaired' = TRUE /\ UNCHANGED roleRegistry
    /\ lock' = Left(Entered(p))
    /\ Goes(p, "leave")
    /\ UNCHANGED <<configFile, service, errand, draft, seen, wrong>>

-----------------------------------------------------------------------------
UserStarts ==
    /\ service' = StartedService
    /\ UNCHANGED <<roleRegistry, configFile, lock, step, errand, draft, seen, wrong, unrepaired>>
UserStops ==
    /\ service' = Inactive
    /\ UNCHANGED <<roleRegistry, configFile, lock, step, errand, draft, seen, wrong, unrepaired>>

\* the lock goes with its process
WriterDies(p) ==
    /\ ~At(p, "away")
    /\ lock' = Free
    /\ Returns(p)
    /\ unrepaired' = TRUE
    /\ UNCHANGED <<roleRegistry, configFile, service>>

ConfigInit ==
    /\ roleRegistry = FirstRegistry
    /\ configFile = NoConfig /\ service = Inactive /\ lock = Free
    /\ step = [p \in Writer |-> "away"]
    /\ errand = [p \in Writer |-> "edit"]
    /\ draft = [p \in Writer |-> FirstRegistry]
    /\ seen = [p \in Writer |-> NothingSeen]
    /\ wrong = [p \in Writer |-> FALSE]
    /\ unrepaired = FALSE

ConfigNext ==
    \/ \E p \in Writer :
         \/ \E j \in {"edit", "switch", "apply"} : Enter(p, j)
         \/ Edit(p) \/ SwitchRole(p) \/ SaveRegistry(p) \/ LeaveTransaction(p)
         \/ ReadForApply(p) \/ Install(p) \/ Bounce(p) \/ Healthy(p) \/ StopAgain(p)
         \/ Validate(p) \/ StartAndValidate(p) \/ StopCurrent(p)
         \/ Undo(p) \/ BounceBack(p) \/ LeaveApply(p) \/ GiveBack(p) \/ WriterDies(p)
    \/ UserStarts \/ UserStops

ConfigSpec == ConfigInit /\ [][ConfigNext]_configVars

-----------------------------------------------------------------------------
(* Properties *)

Content(reg) == <<reg.default, reg.roles>>

\* A switch or an apply that returns has installed the configuration of the
\* registry it leaves, and one that fails leaves the registry and the file it
\* found, whatever other writers do meanwhile (docs/ROADMAP.md:28 "failed
\* switch restores both runtime config and Role Registry").
SwitchIsAtomic ==
    \A p \in Writer :
        At(p, "leave") /\ errand[p] # "edit" /\ ~unrepaired =>
            IF wrong[p]
            THEN Content(roleRegistry) = Content(seen[p].before) /\ configFile = seen[p].previous
            ELSE configFile = Plan(roleRegistry)

\* Outside of a transaction the service runs the installed configuration, even
\* if the user starts and stops it during a switch that is undone.
ServiceRunsTheFile == lock.holder = Nobody /\ ~unrepaired /\ service.active => service.loaded = configFile

\* Both: what a writer leaves behind is consistent, in the files and in the
\* service (src/tars/runtime_config.py, _apply_runtime_config_locked).
ConfigIsSound == SwitchIsAtomic /\ ServiceRunsTheFile
=============================================================================
