----------------------------- MODULE Registration -----------------------------
(***************************************************************************)
(* Registration and configuration (crates/munshi/src/registration.rs,       *)
(* claude_settings.rs, and the import of the state of older versions in     *)
(* state.rs): register, unregister, the commands that change a section of   *)
(* config.json, the loads that migrate a version-1 file, in processes that  *)
(* interleave and may die between any two writes.                           *)
(*                                                                          *)
(* Simplified: paths are valid and directories made; one Copilot home; the  *)
(* flags of a register are its homes, and the sections of config.json that  *)
(* other commands own are the disabled projects, the delivery switch and    *)
(* the client id; the state database register opens and rebuilds is         *)
(* elsewhere.  Claude Code and munshi do not write settings.json at the     *)
(* same time ("register with no active Claude Code session"); munshi's hook *)
(* file has no such rule, and others may write it at any step.  Assumed: an *)
(* older version leaves a file only where there is none, and none while the *)
(* files are imported (one it replaced in between would be removed unread). *)
(***************************************************************************)
EXTENDS Naturals, FiniteSets

CONSTANTS
  Processes,
  ClaudeHomes,    \* the homes a register may name
  Projects,
  Legacy,         \* the files of older versions, a subset of LegacyKinds
  None,
  MaxCommands,    \* bound: commands started
  MaxEdits,       \* bound: edits of the files by others
  MaxCrashes      \* bound: processes that die

LegacyKinds == {"session", "job", "result"}
ASSUME RegistrationAssumption ==
  /\ Legacy \subseteq LegacyKinds /\ None \notin ClaudeHomes
  /\ "copilot" \notin ClaudeHomes   \* a home is a directory
  /\ {MaxCommands, MaxEdits, MaxCrashes} \subseteq Nat

VARIABLES
  config,      \* config.json
  copilot,     \* hooks/munshi.json in the Copilot home
  settings,    \* settings.json of each Claude Code home
  legacy,      \* the files of an older version and what was imported of them
  proc,        \* the processes
  count,       \* the bounded events that have happened
  acked,       \* history: the sections as the last command that set them said
  used,        \* history: client ids handed out under this configuration
  strays,      \* history: homes a re-registration or an unregister let go of
  wanted,      \* history: the entries of others, as they last wrote them
  overtaken    \* history: the processes about to write or remove the hook file
               \* when others put theirs in its place

vars == <<config, copilot, settings, legacy, proc, count, acked, used, strays, wanted,
          overtaken>>

\* The harness homes of a registration.
HomeSets == [copilot : BOOLEAN, claude : ClaudeHomes \cup {None}]
NoHomes == [copilot |-> FALSE, claude |-> None]
HomesOf(h) == (IF h.copilot THEN {"copilot"} ELSE {}) \cup ({h.claude} \ {None})

\* StoredConfig; version 0 is no file, client 0 no identity yet.
NoSections == [disabled |-> {}, delivery |-> FALSE, client |-> 0]
NoConfig == [version |-> 0, homes |-> NoHomes, sections |-> NoSections]
Registered == config.version # 0

\* From<StoredConfigV1>: remote_delivery becomes summary_delivery.enabled.
Upgraded(c) == [c EXCEPT !.version = 2]
Parsed(c) == IF c.version = 1 THEN Upgraded(c) ELSE c

\* settings.json: not there, one munshi merges into, one whose "hooks" is no
\* object, one that does not parse; munshi's entries and those of others.
Forms == {"absent", "object", "odd", "garbage"}
NoSettings == [form |-> "absent", ours |-> FALSE, users |-> FALSE]
Installed == {h \in ClaudeHomes : settings[h].ours} \cup
             (IF copilot = "ours" THEN {"copilot"} ELSE {})

\* A process: its command; the homes it installs or removes; whether it found
\* a config and a hook file; what it read; the pc a migration returns to.
Commands == {"register", "unregister", "disable", "enable", "deliver", "client",
             "load", "recover"}
Idle == [pc |-> "idle", command |-> "load", homes |-> NoHomes, project |-> None,
         found |-> FALSE, hook |-> FALSE, cfg |-> NoConfig, read |-> NoSettings,
         client |-> 0, locked |-> FALSE, then |-> "idle"]

Init ==
  /\ config \in {NoConfig} \cup
       {[version |-> 1, homes |-> [copilot |-> TRUE, claude |-> None],
         sections |-> [disabled |-> {}, delivery |-> d, client |-> 0]] : d \in BOOLEAN}
  /\ copilot = IF config.version = 1 THEN "ours" ELSE "none"
  /\ settings = [h \in ClaudeHomes |-> NoSettings]
  /\ legacy = [k \in Legacy |-> [present |-> FALSE, bad |-> FALSE, written |-> 0,
                                 imported |-> 0, effects |-> 0]]
  /\ proc = [p \in Processes |-> Idle]
  /\ count = [commands |-> 0, edits |-> 0, crashes |-> 0]
  /\ acked = config.sections
  /\ used = {} /\ strays = {} /\ overtaken = {}
  /\ wanted = [h \in ClaudeHomes |-> FALSE]

-----------------------------------------------------------------------------
(* The registration lock: a nonblocking flock the kernel drops.             *)

LockFree == \A q \in Processes : ~proc[q].locked

At(p, pc) == proc[p].pc = pc
Become(p, q) == proc' = [proc EXCEPT ![p] = q]
Goto(p, pc) == Become(p, [proc[p] EXCEPT !.pc = pc])
Exit(p) == Become(p, Idle)
Locks(p, pc) == Become(p, [proc[p] EXCEPT !.pc = pc, !.locked = TRUE])

configVars == <<config, acked, used, strays>>
hookVars == <<copilot, settings, wanted, overtaken>>

Counted(what) == count' = [count EXCEPT ![what] = @ + 1]

Begin(p) ==
  /\ At(p, "idle") /\ count.commands < MaxCommands
  /\ Counted("commands")
  /\ \E c \in Commands, h \in HomeSets, j \in Projects :
       /\ c # "register" => h = NoHomes
       /\ c = "register" => HomesOf(h) # {}
       /\ Become(p, [Idle EXCEPT
            !.command = c, !.homes = h, !.project = j,
            !.pc = CASE c \in {"disable", "enable", "deliver"} -> "update"
                     [] c = "recover" -> "legacy"
                     [] OTHER -> c])
  /\ UNCHANGED <<configVars, hookVars, legacy>>

ProcessDies(p) ==
  /\ ~At(p, "idle") /\ count.crashes < MaxCrashes
  /\ Counted("crashes")
  /\ Exit(p)
  /\ UNCHANGED <<configVars, hookVars, legacy>>

-----------------------------------------------------------------------------
(* config.json: the loads, and the commands that own a section.             *)

\* Where a load goes: through the migration when the file is of version 1.
Loaded(q, then) ==
  IF config.version = 1 THEN [q EXCEPT !.pc = "migrate", !.then = then]
  ELSE IF then = "idle" THEN Idle ELSE [q EXCEPT !.pc = then]

\* load_stored_config of a hook, a worker or a status command.
Load(p) ==
  /\ At(p, "load")
  /\ Become(p, Loaded(proc[p], "idle"))
  /\ UNCHANGED <<configVars, hookVars, legacy, count>>

Continued(q) ==
  IF q.then = "idle" THEN Idle ELSE [q EXCEPT !.pc = q.then, !.locked = FALSE, !.cfg = NoConfig]

\* persist_migrated_config: skipped when the lock is held; reads again under it.
MigrationLocks(p) ==
  /\ At(p, "migrate")
  /\ \/ ~LockFree /\ Become(p, Continued(proc[p]))
     \/ /\ LockFree
        /\ Become(p, [proc[p] EXCEPT !.pc = "persist", !.locked = TRUE, !.cfg = config])
  /\ UNCHANGED <<configVars, hookVars, legacy, count>>

PersistMigrated(p) ==
  /\ At(p, "persist")
  /\ config' = IF proc[p].cfg.version = 1 THEN Upgraded(proc[p].cfg) ELSE config
  /\ Become(p, Continued(proc[p]))
  /\ UNCHANGED <<acked, used, strays, hookVars, legacy, count>>

\* ensure_client_id: the id on record, or a new one to put there.
EnsureClient(p) ==
  /\ At(p, "client")
  /\ LET id == config.sections.client
     IN  IF Registered /\ id = 0
         THEN /\ Become(p, Loaded([proc[p] EXCEPT !.client = count.commands], "update"))
              /\ UNCHANGED used
         ELSE /\ Become(p, Loaded(proc[p], "idle"))
              /\ used' = IF Registered THEN used \cup {id} ELSE used
  /\ UNCHANGED <<config, acked, strays, hookVars, legacy, count>>

\* update_stored_config, set_project_enabled: the lock, then the load.
UpdateLoads(p) ==
  /\ At(p, "update")
  /\ \/ ~(LockFree /\ Registered) /\ Exit(p)
     \/ /\ LockFree /\ Registered
        /\ Become(p, [proc[p] EXCEPT !.pc = "write", !.locked = TRUE, !.cfg = Parsed(config)])
  /\ UNCHANGED <<configVars, hookVars, legacy, count>>

\* Mutant: the new client id replaces the one of a process that was first.
ChangedAnyway(q, s) ==
  CASE q.command = "disable" -> [s EXCEPT !.disabled = @ \cup {q.project}]
    [] q.command = "enable" -> [s EXCEPT !.disabled = @ \ {q.project}]
    [] q.command = "deliver" -> [s EXCEPT !.delivery = TRUE]
    [] q.command = "client" -> [s EXCEPT !.client = q.client]

\* What the command makes of the sections.
Changed(q, s) ==
  CASE q.command = "disable" -> [s EXCEPT !.disabled = @ \cup {q.project}]
    [] q.command = "enable" -> [s EXCEPT !.disabled = @ \ {q.project}]
    [] q.command = "deliver" -> [s EXCEPT !.delivery = TRUE]
    [] q.command = "client" -> [s EXCEPT !.client = IF @ = 0 THEN q.client ELSE @]

\* The atomic replace.  What the operator was told is the change, made to all
\* that was said before.
UpdateWrites(p) ==
  /\ At(p, "write")
  /\ config' = [proc[p].cfg EXCEPT !.sections = Changed(proc[p], @)]
  /\ acked' = Changed(proc[p], acked)
  /\ used' = IF proc[p].command = "client" THEN used \cup {config'.sections.client} ELSE used
  /\ Exit(p)
  /\ UNCHANGED <<strays, hookVars, legacy, count>>

-----------------------------------------------------------------------------
(* register                                                                 *)

\* Mutant: re-registration starts from the defaults.
FromFlags(homes, existing) == [version |-> 2, homes |-> homes, sections |-> NoSections]
\* StoredConfig::from_register carries the sections of the other commands.
FromRegister(homes, existing) ==
  [version |-> 2, homes |-> homes, sections |-> existing.sections]

\* What is refused before the configuration is written.
RegisterRefuses(homes) ==
  \/ homes.copilot /\ copilot = "foreign"
  \/ homes.claude # None /\ settings[homes.claude].form = "garbage"

\* The lock, the validations and config.json.
RegisterCommits(p) ==
  LET homes == proc[p].homes
  IN
  /\ At(p, "register")
  /\ \/ /\ ~LockFree \/ RegisterRefuses(homes)
        /\ Exit(p)
        /\ UNCHANGED <<config, strays>>
     \/ /\ LockFree /\ ~RegisterRefuses(homes)
        /\ config' = FromRegister(homes, Parsed(config))
        /\ strays' = (strays \cup HomesOf(config.homes)) \ HomesOf(homes)
        /\ Locks(p, "legacy")
  /\ UNCHANGED <<acked, used, hookVars, legacy, count>>

AfterInstall(p) == IF proc[p].homes.claude = None THEN Exit(p) ELSE Goto(p, "claude")

\* install_or_update_json parses the file that is there once more; one of the
\* same bytes stays.
InstallCopilot(p) ==
  /\ At(p, "copilot")
  /\ \/ ~proc[p].homes.copilot /\ AfterInstall(p)
     \/ /\ proc[p].homes.copilot
        /\ \/ copilot = "foreign" /\ Exit(p)
           \/ copilot = "none" /\ Goto(p, "place")
           \/ copilot = "ours" /\ (AfterInstall(p) \/ Goto(p, "replace"))
  /\ UNCHANGED <<configVars, hookVars, legacy, count>>

\* Mutant: the new file is renamed into place.
Vacant == FALSE
\* persist_noclobber fails when there is a file by now.
Occupied == copilot # "none"

PlaceCopilot(p) ==
  /\ At(p, "place")
  /\ IF Occupied THEN Exit(p) /\ UNCHANGED copilot
                 ELSE AfterInstall(p) /\ copilot' = "ours"
  /\ UNCHANGED <<configVars, settings, wanted, overtaken, legacy, count>>

\* atomic_bytes_replace renames over the file that is there by now.
ReplaceCopilot(p) ==
  /\ At(p, "replace")
  /\ copilot' = "ours"
  /\ AfterInstall(p)
  /\ UNCHANGED <<configVars, settings, wanted, overtaken, legacy, count>>

\* install_claude_hooks reads; what it cannot merge into it leaves.
ReadSettings(p) ==
  LET file == settings[proc[p].homes.claude]
  IN
  /\ At(p, "claude")
  /\ IF file.form \in {"odd", "garbage"} THEN Exit(p)
     ELSE Become(p, [proc[p] EXCEPT !.pc = "settings", !.read = file])
  /\ UNCHANGED <<configVars, hookVars, legacy, count>>

\* Mutant: the event's entries are replaced.
Replaced(file) == [form |-> "object", ours |-> TRUE, users |-> FALSE]
\* The entries of others are retained, ours are renewed.
Merged(file) == [form |-> "object", ours |-> TRUE, users |-> file.users]

WriteSettings(p) ==
  /\ At(p, "settings")
  /\ settings' = [settings EXCEPT ![proc[p].homes.claude] = Merged(proc[p].read)]
  /\ Exit(p)
  /\ UNCHANGED <<configVars, copilot, wanted, overtaken, legacy, count>>

-----------------------------------------------------------------------------
(* unregister                                                               *)

\* The homes are read before the lock is taken.
UnregisterReads(p) ==
  LET homes == IF Registered THEN config.homes ELSE [NoHomes EXCEPT !.copilot = TRUE]
      hook == homes.copilot /\ copilot # "none"
  IN
  /\ At(p, "unregister")
  /\ IF (homes.copilot /\ copilot = "foreign") \/ (~hook /\ ~Registered)
     THEN Exit(p)
     ELSE Become(p, Loaded([proc[p] EXCEPT !.homes = homes, !.hook = hook,
                                           !.found = Registered], "remove"))
  /\ UNCHANGED <<configVars, hookVars, legacy, count>>

\* What was read missed: homes on record since, a hook file installed since.
Missed(q) == (HomesOf(config.homes) \ HomesOf(q.homes)) \cup
             (IF copilot = "ours" /\ ~q.hook THEN {"copilot"} ELSE {})

UnregisterLocks(p) ==
  /\ At(p, "remove")
  /\ IF LockFree THEN /\ Locks(p, "unhook")
                      /\ strays' = strays \cup Missed(proc[p])
                 ELSE Exit(p) /\ UNCHANGED strays
  /\ UNCHANGED <<config, acked, used, hookVars, legacy, count>>

\* Mutant: the hooks of Claude Code are passed over.
AfterHooks == "unconfig"
AfterCopilot == "unclaude"

\* validate_owned_file.
RemoveCopilot(p) ==
  /\ At(p, "unhook")
  /\ \/ ~proc[p].hook /\ Goto(p, AfterCopilot)
     \/ proc[p].hook /\ copilot = "foreign" /\ Exit(p)
     \/ proc[p].hook /\ copilot # "foreign" /\ Goto(p, "unlink")
  /\ UNCHANGED <<configVars, hookVars, legacy, count>>

\* durable_remove unlinks the file that is there by now.
UnlinkCopilot(p) ==
  /\ At(p, "unlink")
  /\ copilot' = "none"
  /\ Goto(p, AfterCopilot)
  /\ UNCHANGED <<configVars, settings, wanted, overtaken, legacy, count>>

\* remove_claude_hooks: a missing file is done, one that does not parse fails.
ReadToRemove(p) ==
  LET home == proc[p].homes.claude
  IN
  /\ At(p, "unclaude")
  /\ IF home = None \/ settings[home].form = "absent" THEN Goto(p, "unconfig")
     ELSE IF settings[home].form = "garbage" THEN Exit(p)
     ELSE Become(p, [proc[p] EXCEPT !.pc = "unsettle", !.read = settings[home]])
  /\ UNCHANGED <<configVars, hookVars, legacy, count>>

WriteRemoved(p) ==
  /\ At(p, "unsettle")
  /\ settings' = [settings EXCEPT ![proc[p].homes.claude] = [proc[p].read EXCEPT !.ours = FALSE]]
  /\ Goto(p, "unconfig")
  /\ UNCHANGED <<configVars, copilot, wanted, overtaken, legacy, count>>

RemoveConfig(p) ==
  /\ At(p, "unconfig")
  /\ IF proc[p].found
     THEN config' = NoConfig /\ acked' = NoSections /\ used' = {}
     ELSE UNCHANGED <<config, acked, used>>
  /\ Exit(p)
  /\ UNCHANGED <<strays, hookVars, legacy, count>>

-----------------------------------------------------------------------------
(* migrate_legacy_state, of register and of the recovery sweep.             *)

Importing == {"import-session", "import-job", "import-result",
              "remove-session", "remove-job", "remove-result"}
LegacyFree == \A q \in Processes : proc[q].pc \notin Importing
AfterLegacy(p) == IF proc[p].command = "register" THEN Goto(p, "copilot") ELSE Exit(p)

\* The _legacy lock, or nothing to do; register opens and rebuilds the
\* database first, which may fail.
LegacyBegins(p) ==
  /\ At(p, "legacy")
  /\ \/ LegacyFree /\ Goto(p, "import-session")
     \/ ~LegacyFree /\ AfterLegacy(p)
     \/ proc[p].command = "register" /\ Exit(p)
  /\ UNCHANGED <<configVars, hookVars, legacy, count>>

Following(kind) == CASE kind = "session" -> "import-job" [] kind = "job" -> "import-result"
LegacyNext(p, kind) == IF kind = "result" THEN AfterLegacy(p) ELSE Goto(p, Following(kind))

\* Mutant: what was imported is imported again.
NeverImported(kind) == FALSE
\* legacy_imported: this file with this content has been.
LegacyImported(kind) == legacy[kind].imported = legacy[kind].written

\* import_legacy_session, import_legacy_job: one transaction.
ImportOnce(kind) ==
  IF LegacyImported(kind) THEN UNCHANGED legacy
  ELSE legacy' = [legacy EXCEPT ![kind].imported = legacy[kind].written, ![kind].effects = @ + 1]
\* migrate_legacy_results, migrate_legacy_failure: a diagnostic, each time.
RecordResult(kind) == legacy' = [legacy EXCEPT ![kind].effects = @ + 1]

Importable(kind) == kind \in Legacy /\ legacy[kind].present /\ ~legacy[kind].bad

\* A file that does not parse or does not match is left where it is, and so is
\* a job that is fresh or that a worker has locked.
ImportLegacy(p, kind) ==
  /\ At(p, CASE kind = "session" -> "import-session" [] kind = "job" -> "import-job"
             [] kind = "result" -> "import-result")
  /\ \/ /\ Importable(kind)
        /\ IF kind = "result" THEN RecordResult(kind) ELSE ImportOnce(kind)
        /\ Goto(p, CASE kind = "session" -> "remove-session" [] kind = "job" -> "remove-job"
                     [] kind = "result" -> "remove-result")
     \/ /\ ~Importable(kind) \/ kind = "job"
        /\ UNCHANGED legacy /\ LegacyNext(p, kind)
  /\ UNCHANGED <<configVars, hookVars, count>>

\* durable_remove of the file that was imported.
RemoveLegacy(p, kind) ==
  /\ At(p, CASE kind = "session" -> "remove-session" [] kind = "job" -> "remove-job"
             [] kind = "result" -> "remove-result")
  /\ legacy' = [legacy EXCEPT ![kind].present = FALSE]
  /\ LegacyNext(p, kind)
  /\ UNCHANGED <<configVars, hookVars, count>>

-----------------------------------------------------------------------------
(* Others (external): the operator and Claude Code edit their files, and an *)
(* older version that still runs leaves its own.                            *)

Edited == count.edits < MaxEdits /\ Counted("edits")

EditSettings(h) ==
  /\ \A p \in Processes : ~(proc[p].pc \in {"settings", "unsettle"} /\ proc[p].homes.claude = h)
  /\ Edited
  /\ \E form \in {"object", "odd", "garbage"}, users \in BOOLEAN :
       /\ form # "object" => ~users
       /\ settings' = [settings EXCEPT ![h] =
            [form |-> form, ours |-> @.ours /\ form = "object", users |-> users]]
       /\ wanted' = [wanted EXCEPT ![h] = users]
  /\ UNCHANGED <<configVars, copilot, overtaken, legacy, proc>>

\* Where a process has checked the hook file and not yet acted on it.
Unchecked == {"replace", "unlink"}

EditCopilot ==
  /\ Edited
  /\ \/ /\ copilot = "foreign" /\ copilot' = "none"
        /\ UNCHANGED overtaken
     \/ /\ copilot # "foreign" /\ copilot' = "foreign"
        /\ overtaken' = {p \in Processes : proc[p].pc \in Unchecked}
  /\ UNCHANGED <<configVars, settings, wanted, legacy, proc>>

LegacyWrites(kind) ==
  /\ LegacyFree /\ ~legacy[kind].present
  /\ Edited
  /\ \E bad \in BOOLEAN :
       legacy' = [legacy EXCEPT ![kind].present = TRUE, ![kind].bad = bad,
                                ![kind].written = @ + (IF bad THEN 0 ELSE 1)]
  /\ UNCHANGED <<configVars, hookVars, proc>>

Munshi(p) ==
  \/ Begin(p) \/ ProcessDies(p)
  \/ Load(p) \/ MigrationLocks(p) \/ PersistMigrated(p)
  \/ EnsureClient(p) \/ UpdateLoads(p) \/ UpdateWrites(p)
  \/ RegisterCommits(p) \/ InstallCopilot(p) \/ PlaceCopilot(p) \/ ReplaceCopilot(p)
  \/ ReadSettings(p) \/ WriteSettings(p)
  \/ UnregisterReads(p) \/ UnregisterLocks(p) \/ RemoveCopilot(p) \/ UnlinkCopilot(p)
  \/ ReadToRemove(p) \/ WriteRemoved(p) \/ RemoveConfig(p)
  \/ LegacyBegins(p) \/ \E kind \in LegacyKinds : ImportLegacy(p, kind) \/ RemoveLegacy(p, kind)

Next ==
  \/ \E p \in Processes : Munshi(p)
  \/ EditCopilot \/ (\E h \in ClaudeHomes : EditSettings(h))
  \/ \E kind \in Legacy : LegacyWrites(kind)

Spec == Init /\ [][Next]_vars

-----------------------------------------------------------------------------
(* Properties.                                                              *)

\* The variables have their types, and the registration lock one holder.
TypeOK ==
  /\ config.version \in 0 .. 2 /\ config.homes \in HomeSets
  /\ config.sections.disabled \subseteq Projects
  /\ copilot \in {"none", "ours", "foreign"}
  /\ \A h \in ClaudeHomes : settings[h].form \in Forms
  /\ \A p, q \in Processes : proc[p].locked /\ proc[q].locked => p = q

\* What a command was acknowledged for stays until unregister, whatever
\* registrations, updates and migrations of the file raced it (issue #31).
AcknowledgedSurvives == Registered => config.sections = acked

\* Every upload goes under one identity, the one that is on record.
OneClient == \A id \in used : id = config.sections.client

\* A hook that calls munshi is on record, wherever a process died: a home is
\* recorded before its hooks are there and until they are gone.  Not so the
\* strays: homes a registration with other homes replaced, and hooks an
\* unregister did not see in what it read before it had the lock.
HooksOnRecord == Installed \subseteq HomesOf(config.homes) \cup strays

\* No entry of others in settings.json is lost or brought back.
OthersKept == \A h \in ClaudeHomes : settings[h].users = wanted[h]

\* A file of an older version takes effect once, though it is removed after
\* its import; of a result the diagnostic may be there twice, and no file goes
\* before its effect.
LegacyOnce ==
  \A k \in Legacy :
    /\ k # "result" => legacy[k].effects <= legacy[k].written
    /\ ~legacy[k].present => legacy[k].effects >= legacy[k].written

\* A file at the place of munshi's hook file that is not munshi's is overwritten
\* or removed only by a process it overtook: one that had found munshi's own
\* file there, or none to remove, and was about to rename over it or unlink it.
\* A process that found the place empty never overwrites what came since.
ForeignKept ==
  [][copilot = "foreign" /\ copilot' # "foreign" /\ proc' # proc =>
       \E p \in overtaken : proc[p].pc \in Unchecked /\ proc'[p] # proc[p]]_vars
=============================================================================
