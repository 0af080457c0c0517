------------------------- MODULE Registration_proofs -------------------------
(***************************************************************************)
(* For any number of processes, homes, projects and bounds: what an         *)
(* operator was told stays in config.json, uploads have one identity, every *)
(* hook is on record, the entries of others are kept, a file of others at   *)
(* the place of munshi's hook file is lost only to a process that checked   *)
(* before the file came, and the files of older versions take effect once.  *)
(*                                                                          *)
(* The argument: what a command read before it took the registration lock   *)
(* may be stale (Own says what is still known of it); what it reads under   *)
(* the lock stays true until it releases it (Holds), because every step     *)
(* that writes config.json, the hooks or the strays is one of the holder or *)
(* one that takes the lock.  The place of the hook file is also written     *)
(* without the lock; what a process knows of it is Warned.                  *)
(***************************************************************************)
EXTENDS Registration, TLAPS

Sections == [disabled : SUBSET Projects, delivery : BOOLEAN, client : Nat]
Configs == [version : 0 .. 2, homes : HomeSets, sections : Sections]
SettingsFiles == [form : Forms, ours : BOOLEAN, users : BOOLEAN]
LegacyFiles == [present : BOOLEAN, bad : BOOLEAN, written : Nat, imported : Nat,
                effects : Nat]

\* The places of a register and of an unregister that hold the lock.
Registering == {"legacy", "copilot", "place", "replace", "claude", "settings"} \cup Importing
Removing == {"unhook", "unlink", "unclaude", "unsettle", "unconfig"}
PCs == {"idle", "load", "migrate", "persist", "client", "update", "write",
        "register", "unregister", "remove"} \cup Registering \cup Removing

Procs == [pc : PCs, command : Commands, homes : HomeSets,
          project : Projects \cup {None}, found : BOOLEAN, hook : BOOLEAN,
          cfg : Configs, read : SettingsFiles, client : Nat, locked : BOOLEAN,
          then : {"idle", "update", "remove"}]

Types ==
  /\ config \in Configs
  /\ copilot \in {"none", "ours", "foreign"}
  /\ settings \in [ClaudeHomes -> SettingsFiles]
  /\ legacy \in [Legacy -> LegacyFiles]
  /\ proc \in [Processes -> Procs]
  /\ count \in [commands : Nat, edits : Nat, crashes : Nat]
  /\ acked \in Sections
  /\ used \subseteq Nat
  /\ wanted \in [ClaudeHomes -> BOOLEAN]

\* Whether a process is at a place that holds the lock.
HoldsLock(q) ==
  \/ q.pc \in {"persist", "write"} \cup Removing
  \/ q.pc \in Registering /\ q.command = "register"

Updates == {"disable", "enable", "deliver", "client"}

WillUpdate(q) == q.pc \in {"migrate", "persist"} /\ q.then = "update"

\* What a process knows of itself, whatever the others do.
Own(q) ==
  /\ q.locked <=> HoldsLock(q)
  /\ q.pc # "idle" => q.project \in Projects
  /\ q.pc \in {"client", "update", "write"} \/ WillUpdate(q) => q.command \in Updates
  /\ q.pc \in {"update", "write"} \/ WillUpdate(q) => q.command # "client" \/ q.client # 0
  /\ q.pc \in {"register", "copilot", "place", "replace", "claude", "settings"} =>
       q.command = "register"
  /\ q.pc \in {"place", "replace"} => q.homes.copilot
  /\ q.pc \in Registering => q.command \in {"register", "recover"}
  /\ q.pc = "claude" => q.homes.claude # None
  /\ q.pc \in {"settings", "unsettle"} => q.homes.claude \in ClaudeHomes

\* What the holder of the lock knows of the files.
Holds(q) ==
  /\ q.pc = "persist" => q.cfg = config
  /\ q.pc = "write" => Registered /\ q.cfg = Parsed(config)
  /\ q.pc \in Registering /\ q.command = "register" => config.homes = q.homes
  /\ q.pc \in Removing => HomesOf(config.homes) \subseteq strays \cup HomesOf(q.homes)
  /\ q.pc = "unhook" /\ copilot = "ours" => q.hook \/ "copilot" \in strays
  /\ q.pc \in Removing \ {"unhook", "unlink"} /\ copilot = "ours" => "copilot" \in strays
  /\ q.pc = "unconfig" => \A h \in ClaudeHomes : settings[h].ours => h \in strays
  /\ q.pc \in {"settings", "unsettle"} => q.read = settings[q.homes.claude]

\* What the import of a file of an older version has done so far.
Imports(k) ==
  /\ k # "result" =>
       /\ legacy[k].effects = legacy[k].imported
       /\ legacy[k].imported <= legacy[k].written
       /\ legacy[k].written <= legacy[k].imported + 1
       /\ ~legacy[k].present => legacy[k].imported = legacy[k].written
  /\ k = "result" =>
       /\ legacy[k].written <= legacy[k].effects + 1
       /\ ~legacy[k].present => legacy[k].written <= legacy[k].effects

\* A file is removed after its effect.
RemovalPC(k) == CASE k = "session" -> "remove-session" [] k = "job" -> "remove-job"
                  [] k = "result" -> "remove-result"
Removes(q) ==
  \A k \in Legacy :
    q.pc = RemovalPC(k) => legacy[k].written <= legacy[k].effects

\* config.json, the identities handed out and the entries of others.
Files ==
  /\ config.sections = acked
  /\ config.version = 0 => config = NoConfig
  /\ \A id \in used : id # 0 /\ id = config.sections.client
  /\ Installed \subseteq HomesOf(config.homes) \cup strays
  /\ \A h \in ClaudeHomes : /\ settings[h].users = wanted[h]
                            /\ settings[h].form # "object" => ~settings[h].ours

OneHolder == \A p, q \in Processes : proc[p].locked /\ proc[q].locked => p = q

RInv ==
  /\ Types /\ OneHolder /\ Files
  /\ \A p \in Processes : /\ Own(proc[p]) /\ Holds(proc[p]) /\ Removes(proc[p])
                          /\ proc[p].pc # "idle" => count.commands # 0
  /\ \A k \in Legacy : Imports(k)

-----------------------------------------------------------------------------
(* Steps that write no file: a process moves on, or hands out the client id. *)

Unwritten ==
  /\ UNCHANGED <<config, acked, strays, copilot, settings, wanted, legacy>>
  /\ \/ used' = used
     \/ config.sections.client # 0 /\ used' = used \cup {config.sections.client}

\* The process p becomes q and nothing it or another knows of is disturbed.
LEMMA OneMoves ==
  ASSUME RInv, NEW p \in Processes, NEW q \in Procs, Become(p, q), Unwritten,
         count' \in [commands : Nat, edits : Nat, crashes : Nat],
         count.commands # 0 => count'.commands # 0,
         q.pc # "idle" => count'.commands # 0,
         q.locked => proc[p].locked \/ LockFree,
         Own(q), Holds(q), Removes(q)
  PROVE  RInv'
<1> USE DEF Unwritten, hookVars
<1>1. /\ proc'[p] = q /\ \A x \in Processes \ {p} : proc'[x] = proc[x]
      /\ proc' \in [Processes -> Procs]
  BY DEF RInv, Types, Become
<1>2. Types'
  BY <1>1 DEF RInv, Types, Configs, Sections
<1>3. OneHolder'
  BY <1>1 DEF RInv, OneHolder, LockFree
<1>4. Files'
  BY DEF RInv, Files, Installed
<1>5. \A k \in Legacy : Imports(k)'
  BY DEF RInv, Imports
<1>6. ASSUME NEW x \in Processes
      PROVE  /\ Own(proc[x])' /\ Holds(proc[x])' /\ Removes(proc[x])'
             /\ (proc[x].pc # "idle" => count.commands # 0)'
  <2>1. PICK r : /\ proc'[x] = r /\ Own(r) /\ Holds(r) /\ Removes(r)
                 /\ r.pc # "idle" => count'.commands # 0
    BY <1>1 DEF RInv
  <2>2. Own(proc[x])'
    BY <2>1 DEF Own, HoldsLock, WillUpdate
  <2>3. Holds(proc[x])'
    BY <2>1 DEF Holds, Registered
  <2>4. Removes(proc[x])'
    BY <2>1 DEF Removes, RemovalPC
  <2> QED  BY <2>1, <2>2, <2>3, <2>4
<1> QED  BY <1>2, <1>3, <1>4, <1>5, <1>6 DEF RInv

\* A process that is idle holds nothing and knows nothing.
LEMMA IdleIsNeutral ==
  /\ Idle \in Procs /\ Idle.pc = "idle" /\ ~Idle.locked
  /\ Own(Idle) /\ Holds(Idle) /\ Removes(Idle)
<1>1. NoHomes \in HomeSets /\ NoSettings \in SettingsFiles
  BY DEF NoHomes, HomeSets, NoSettings, SettingsFiles, Forms
<1>2. NoConfig \in Configs
  BY <1>1 DEF NoConfig, Configs, NoSections, Sections
<1>3. Idle \in Procs
  BY <1>1, <1>2 DEF Idle, Procs, PCs, Commands
<1>4. Idle.pc = "idle" /\ ~Idle.locked
  BY DEF Idle
<1>5. Own(Idle)
  BY <1>4 DEF Own, HoldsLock, WillUpdate, Registering, Removing, Importing
<1>6. Holds(Idle) /\ Removes(Idle)
  BY <1>4, RegistrationAssumption DEF Holds, Removes, Registering, Removing, Importing, RemovalPC,
      LegacyKinds
<1> QED  BY <1>3, <1>4, <1>5, <1>6

\* A process that ends, and writes no file as it does.
LEMMA ExitKeeps ==
  ASSUME RInv, NEW p \in Processes, Exit(p), Unwritten,
         count' = count \/ Counted("crashes")
  PROVE  RInv'
<1>1. /\ count' \in [commands : Nat, edits : Nat, crashes : Nat]
      /\ count'.commands = count.commands
  BY DEF RInv, Types, Counted
<1> QED  BY <1>1, IdleIsNeutral, OneMoves DEF Exit

\* A step of the holder of the lock, or of one that takes it: only what it
\* knows of the files, and the files themselves, have to be looked at.
LEMMA HolderWrites ==
  ASSUME RInv, NEW p \in Processes, NEW q \in Procs, Become(p, q),
         proc[p].locked \/ LockFree, Types', Files', UNCHANGED <<legacy, count>>,
         q.pc # "idle" => count.commands # 0,
         Own(q), Holds(proc[p])', Removes(q)
  PROVE  RInv'
<1>1. proc'[p] = q /\ \A x \in Processes \ {p} : proc'[x] = proc[x]
  BY DEF RInv, Types, Become
<1>2. \A x \in Processes \ {p} : Own(proc[x]) /\ ~HoldsLock(proc[x])
  BY DEF RInv, OneHolder, LockFree, Own
<1>3. OneHolder'
  BY <1>1, <1>2 DEF OneHolder, Own
<1>4. \A k \in Legacy : Imports(k)'
  BY DEF RInv, Imports
<1>5. ASSUME NEW x \in Processes
      PROVE  /\ Own(proc[x])' /\ Holds(proc[x])' /\ Removes(proc[x])'
             /\ (proc[x].pc # "idle" => count.commands # 0)'
  <2>1. PICK r : /\ proc'[x] = r /\ Own(r) /\ Removes(r)
                 /\ r.pc # "idle" => count'.commands # 0
                 /\ x = p \/ ~HoldsLock(r)
    BY <1>1, <1>2 DEF RInv
  <2>2. Own(proc[x])'
    BY <2>1 DEF Own, HoldsLock, WillUpdate
  <2>3. CASE x # p
    <3>1. Holds(proc[x])'
      BY <2>1, <2>3 DEF Holds, HoldsLock, Own, Registering, Removing
    <3>2. Removes(proc[x])'
      BY <2>1 DEF Removes, RemovalPC
    <3> QED  BY <2>1, <2>2, <3>1, <3>2
  <2>4. CASE x = p
    <3>1. Removes(proc[x])'
      BY <2>1 DEF Removes, RemovalPC
    <3> QED  BY <2>1, <2>2, <2>4, <3>1
  <2> QED  BY <2>3, <2>4
<1> QED  BY <1>3, <1>4, <1>5 DEF RInv

-----------------------------------------------------------------------------
(* The commands, up to what they write.                                     *)

\* A command begins, with the arguments it was given.
LEMMA BeginKeeps == ASSUME RInv, NEW p \in Processes, Begin(p) PROVE RInv'
<1>1. PICK c \in Commands, h \in HomeSets, j \in Projects :
        Become(p, [Idle EXCEPT
            !.command = c, !.homes = h, !.project = j,
            !.pc = CASE c \in {"disable", "enable", "deliver"} -> "update"
                     [] c = "recover" -> "legacy"
                     [] OTHER -> c])
  BY Zenon DEF Begin
<1>2. PICK pc : /\ pc = CASE c \in {"disable", "enable", "deliver"} -> "update"
                          [] c = "recover" -> "legacy"
                          [] OTHER -> c
  OBVIOUS
<1>3. \/ c \in {"disable", "enable", "deliver"} /\ pc = "update"
      \/ c = "recover" /\ pc = "legacy"
      \/ c \in {"register", "unregister", "client", "load"} /\ pc = c
  BY <1>2 DEF Commands
<1> DEFINE q == [Idle EXCEPT !.command = c, !.homes = h, !.project = j, !.pc = pc]
<1>4. /\ q \in Procs /\ q.pc = pc /\ q.command = c /\ q.project = j
      /\ ~q.locked /\ q.then = "idle"
  BY <1>3, IdleIsNeutral DEF Procs, PCs, Registering, Removing, Idle
<1>5. Become(p, q)
  BY <1>1, <1>2
<1> HIDE DEF q
<1>6. Own(q)
  BY <1>3, <1>4 DEF Own, HoldsLock, WillUpdate, Registering, Removing, Importing, Updates
<1>7. Holds(q) /\ Removes(q)
  BY <1>3, <1>4, RegistrationAssumption
  DEF Holds, Removes, Registering, Removing, Importing, RemovalPC, LegacyKinds
<1>8. /\ count' \in [commands : Nat, edits : Nat, crashes : Nat]
      /\ count'.commands # 0 /\ Unwritten
  BY DEF RInv, Types, Begin, Counted, Unwritten, hookVars, configVars
<1> QED  BY <1>4, <1>5, <1>6, <1>7, <1>8, OneMoves

\* What is known of a process, in a form the steps can take apart.
LEMMA Known ==
  ASSUME RInv, NEW p \in Processes
  PROVE  /\ Types /\ proc[p] \in Procs /\ Own(proc[p]) /\ Holds(proc[p])
         /\ Removes(proc[p])
         /\ proc[p].pc # "idle" => count.commands # 0
BY DEF RInv, Types

\* A process that dies, a load that finds the file up to date.
LEMMA DeathKeeps == ASSUME RInv, NEW p \in Processes, ProcessDies(p) PROVE RInv'
BY ExitKeeps DEF ProcessDies, Unwritten, hookVars, configVars

\* The process p goes to another place that holds no lock.
LEMMA GoesFree ==
  ASSUME RInv, NEW p \in Processes, NEW q \in Procs, Become(p, q), Unwritten,
         UNCHANGED count, proc[p].pc # "idle",
         q.pc \notin Registering \cup Removing \cup {"persist", "write"},
         ~q.locked, Own(q)
  PROVE  RInv'
<1>1. Holds(q) /\ Removes(q)
  BY RegistrationAssumption
  DEF Holds, Removes, Registering, Removing, Importing, RemovalPC, LegacyKinds
<1> QED  BY <1>1, Known, OneMoves DEF Types

\* A load goes on to the migration, to the command, or is all there was.
LEMMA LoadedKeeps ==
  ASSUME RInv, NEW p \in Processes, NEW q \in Procs, NEW then \in {"idle", "update", "remove"},
         Become(p, Loaded(q, then)), Unwritten, UNCHANGED count,
         proc[p].pc # "idle", ~q.locked, q.project \in Projects,
         then = "update" => q.command \in Updates /\ (q.command # "client" \/ q.client # 0)
  PROVE  RInv'
<1>1. CASE config.version = 1
  <2> DEFINE r == [q EXCEPT !.pc = "migrate", !.then = then]
  <2>1. /\ r \in Procs /\ r.pc = "migrate" /\ r.then = then /\ ~r.locked
        /\ r.command = q.command /\ r.client = q.client /\ r.project = q.project
    BY DEF Procs, PCs
  <2>2. Become(p, r)
    BY <1>1 DEF Loaded
  <2> HIDE DEF r
  <2>3. Own(r)
    BY <2>1 DEF Own, HoldsLock, WillUpdate, Registering, Removing, Importing, Updates
  <2> QED  BY <2>1, <2>2, <2>3, GoesFree DEF Registering, Removing, Importing
<1>2. CASE config.version # 1 /\ then = "idle"
  BY <1>2, ExitKeeps DEF Loaded, Exit
<1>3. CASE config.version # 1 /\ then # "idle"
  <2> DEFINE r == [q EXCEPT !.pc = then]
  <2>1. /\ r \in Procs /\ r.pc = then /\ ~r.locked
        /\ r.command = q.command /\ r.client = q.client /\ r.project = q.project
    BY <1>3 DEF Procs, PCs, Removing
  <2>2. Become(p, r)
    BY <1>3 DEF Loaded
  <2> HIDE DEF r
  <2>3. Own(r)
    BY <1>3, <2>1 DEF Own, HoldsLock, WillUpdate, Registering, Removing, Importing, Updates
  <2> QED  BY <1>3, <2>1, <2>2, <2>3, GoesFree DEF Registering, Removing, Importing
<1> QED  BY <1>1, <1>2, <1>3

\* load_stored_config of a hook, a worker or a status command.
LEMMA LoadKeeps == ASSUME RInv, NEW p \in Processes, Load(p) PROVE RInv'
<1>1. /\ proc[p].pc = "load" /\ Become(p, Loaded(proc[p], "idle"))
      /\ Unwritten /\ UNCHANGED count
  BY DEF Load, At, Unwritten, hookVars, configVars
<1>2. ~proc[p].locked /\ proc[p].project \in Projects
  BY <1>1, Known DEF Own, HoldsLock, Registering, Removing, Importing
<1> QED  BY <1>1, <1>2, Known, LoadedKeeps

\* Where a migration that ends leaves its process.
LEMMA ContinuedFacts ==
  ASSUME RInv, NEW p \in Processes, proc[p].pc \in {"migrate", "persist"}
  PROVE  \E q \in Procs :
           /\ q = Continued(proc[p]) /\ q.pc \in {"idle", "update", "remove"}
           /\ ~q.locked /\ Own(q) /\ Removes(q)
<1>1. /\ proc[p] \in Procs /\ Own(proc[p]) /\ proc[p].project \in Projects
      /\ NoConfig \in Configs
  BY Known, IdleIsNeutral DEF Own, Procs, Idle
<1>2. CASE proc[p].then = "idle"
  BY <1>2, IdleIsNeutral DEF Continued
<1>3. CASE proc[p].then # "idle"
  <2> DEFINE q == [proc[p] EXCEPT !.pc = proc[p].then, !.locked = FALSE, !.cfg = NoConfig]
  <2>1. /\ q \in Procs /\ q.pc = proc[p].then /\ ~q.locked /\ q.project = proc[p].project
        /\ q.command = proc[p].command /\ q.client = proc[p].client
        /\ q.pc \in {"update", "remove"}
    BY <1>1, <1>3 DEF Procs, PCs
  <2>2. q = Continued(proc[p])
    BY <1>3 DEF Continued
  <2> HIDE DEF q
  <2>3. Own(q)
    BY <1>1, <2>1 DEF Own, HoldsLock, WillUpdate, Registering, Removing, Importing, Updates
  <2>4. Removes(q)
    BY <2>1, RegistrationAssumption DEF Removes, RemovalPC, LegacyKinds
  <2> QED  BY <2>1, <2>2, <2>3, <2>4
<1> QED  BY <1>2, <1>3

\* The lock of a migration.
LEMMA MigrationLocksKeeps == ASSUME RInv, NEW p \in Processes, MigrationLocks(p) PROVE RInv'
<1>1. proc[p].pc = "migrate" /\ Unwritten /\ UNCHANGED count
  BY DEF MigrationLocks, At, Unwritten, hookVars, configVars
<1>2. CASE Become(p, Continued(proc[p]))
  <2>1. PICK q \in Procs :
          /\ q = Continued(proc[p]) /\ q.pc \in {"idle", "update", "remove"}
          /\ ~q.locked /\ Own(q) /\ Removes(q)
    BY <1>1, ContinuedFacts
  <2>2. Become(p, q)
    BY <1>2, <2>1
  <2> QED  BY <1>1, <2>1, <2>2, GoesFree DEF Registering, Removing, Importing
<1>3. CASE LockFree /\ Become(p, [proc[p] EXCEPT !.pc = "persist", !.locked = TRUE,
                                                 !.cfg = config])
  <2> DEFINE q == [proc[p] EXCEPT !.pc = "persist", !.locked = TRUE, !.cfg = config]
  <2>1. /\ q \in Procs /\ q.pc = "persist" /\ q.locked /\ q.cfg = config
        /\ q.project = proc[p].project /\ q.command = proc[p].command
        /\ q.client = proc[p].client /\ q.then = proc[p].then
    BY Known, ZenonT(60) DEF Procs, PCs, Types
  <2>2. Become(p, q)
    BY <1>3
  <2> HIDE DEF q
  <2>3. Own(q)
    BY <1>1, <2>1, Known
    DEF Own, HoldsLock, WillUpdate, Registering, Removing, Importing, Updates
  <2>4. Holds(q) /\ Removes(q)
    BY <2>1, RegistrationAssumption
    DEF Holds, Removes, Registering, Removing, Importing, RemovalPC, LegacyKinds
  <2> QED  BY <1>1, <1>3, <2>1, <2>2, <2>3, <2>4, Known, OneMoves DEF Types
<1> QED  BY <1>2, <1>3 DEF MigrationLocks

\* A process that holds the lock and lets go of it.
LEMMA HolderLeaves ==
  ASSUME RInv, NEW p \in Processes, NEW q \in Procs, Become(p, q), proc[p].locked,
         Types', Files', UNCHANGED <<legacy, count>>,
         q.pc \in {"idle", "update", "remove"}, Own(q)
  PROVE  RInv'
<1>1. proc[p].pc # "idle"
  BY Known DEF Own, HoldsLock, Registering, Removing, Importing
<1>2. proc'[p] = q
  BY DEF Become, RInv, Types
<1>3. Holds(proc[p])'
  BY <1>2 DEF Holds, Registering, Removing, Importing
<1>4. Removes(q)
  BY RegistrationAssumption DEF Removes, RemovalPC, LegacyKinds
<1> QED  BY <1>1, <1>3, <1>4, Known, HolderWrites

\* The rewrite of a version-1 file says what the file said.
LEMMA PersistMigratedKeeps ==
  ASSUME RInv, NEW p \in Processes, PersistMigrated(p) PROVE RInv'
<1>1. /\ proc[p].pc = "persist" /\ proc[p].cfg = config /\ proc[p].locked
      /\ UNCHANGED <<acked, used, strays, copilot, settings, wanted, legacy, count>>
  BY Known DEF PersistMigrated, At, hookVars, Holds, Own, HoldsLock
<1>2. config' = config \/ (config.version = 1 /\ config' = [config EXCEPT !.version = 2])
  BY <1>1 DEF PersistMigrated, Upgraded
<1>3. /\ config' \in Configs /\ config'.homes = config.homes
      /\ config'.sections = config.sections
      /\ config'.version = 0 => config' = config
  BY <1>2, Known DEF Types, Configs
<1>4. PICK q \in Procs : /\ q = Continued(proc[p]) /\ q.pc \in {"idle", "update", "remove"}
                         /\ Own(q)
  BY <1>1, ContinuedFacts
<1>5. Become(p, q)
  BY <1>4 DEF PersistMigrated
<1>6. Types'
  BY <1>1, <1>3, <1>5, Known DEF Types, Become
<1>7. Files'
  BY <1>1, <1>3 DEF RInv, Files, Installed
<1> QED  BY <1>1, <1>4, <1>5, <1>6, <1>7, HolderLeaves

\* ensure_client_id
LEMMA EnsureClientKeeps == ASSUME RInv, NEW p \in Processes, EnsureClient(p) PROVE RInv'
<1>1. /\ proc[p].pc = "client" /\ UNCHANGED count
      /\ UNCHANGED <<config, acked, strays, hookVars, legacy>>
  BY DEF EnsureClient, At
<1>2. /\ proc[p] \in Procs /\ ~proc[p].locked /\ proc[p].project \in Projects
      /\ proc[p].command \in Updates /\ count.commands \in Nat \ {0}
  BY <1>1, Known DEF Own, HoldsLock, Registering, Removing, Importing, Types
<1>3. CASE Registered /\ config.sections.client = 0
  <2> DEFINE q == [proc[p] EXCEPT !.client = count.commands]
  <2>1. Become(p, Loaded(q, "update")) /\ used' = used
    BY <1>3 DEF EnsureClient
  <2>2. /\ q \in Procs /\ ~q.locked /\ q.project \in Projects
        /\ q.command \in Updates /\ q.client # 0
    BY <1>2 DEF Procs
  <2> HIDE DEF q
  <2> QED  BY <1>1, <2>1, <2>2, LoadedKeeps DEF Unwritten, hookVars
<1>4. CASE ~(Registered /\ config.sections.client = 0)
  <2>1. /\ Become(p, Loaded(proc[p], "idle"))
        /\ used' = IF Registered THEN used \cup {config.sections.client} ELSE used
    BY <1>4 DEF EnsureClient
  <2>2. Unwritten
    BY <1>1, <1>4, <2>1 DEF Unwritten, hookVars
  <2> QED  BY <1>1, <1>2, <2>1, <2>2, LoadedKeeps
<1> QED  BY <1>3, <1>4

\* The lock and the load of a command that owns a section.
LEMMA UpdateLoadsKeeps == ASSUME RInv, NEW p \in Processes, UpdateLoads(p) PROVE RInv'
<1>1. proc[p].pc = "update" /\ Unwritten /\ UNCHANGED count
  BY DEF UpdateLoads, At, Unwritten, hookVars, configVars
<1>2. CASE Exit(p)
  BY <1>1, <1>2, ExitKeeps
<1>3. CASE /\ LockFree /\ Registered
           /\ Become(p, [proc[p] EXCEPT !.pc = "write", !.locked = TRUE,
                                        !.cfg = Parsed(config)])
  <2> DEFINE q == [proc[p] EXCEPT !.pc = "write", !.locked = TRUE, !.cfg = Parsed(config)]
  <2>1. Parsed(config) \in Configs
    BY Known DEF Parsed, Upgraded, Types, Configs
  <2>2. /\ q \in Procs /\ q.pc = "write" /\ q.locked /\ q.cfg = Parsed(config)
        /\ q.project = proc[p].project /\ q.command = proc[p].command
        /\ q.client = proc[p].client
    BY <2>1, Known, ZenonT(60) DEF Procs, PCs, Types
  <2>3. Become(p, q)
    BY <1>3
  <2> HIDE DEF q
  <2>4. Own(q)
    BY <1>1, <2>2, Known
    DEF Own, HoldsLock, WillUpdate, Registering, Removing, Importing, Updates
  <2>5. Holds(q) /\ Removes(q)
    BY <1>3, <2>2, RegistrationAssumption
    DEF Holds, Removes, Registering, Removing, Importing, RemovalPC, LegacyKinds
  <2> QED  BY <1>1, <1>3, <2>2, <2>3, <2>4, <2>5, Known, OneMoves DEF Types
<1> QED  BY <1>2, <1>3 DEF UpdateLoads

\* What a command makes of the sections it owns.
LEMMA ChangedSections ==
  ASSUME NEW q \in Procs, NEW s \in Sections, q.command \in Updates, q.project \in Projects
  PROVE  /\ Changed(q, s) \in Sections
         /\ q.command # "client" => Changed(q, s).client = s.client
         /\ q.command = "client" =>
              Changed(q, s).client = IF s.client = 0 THEN q.client ELSE s.client
<1>1. CASE q.command = "disable"
  BY <1>1 DEF Changed, Sections, Procs
<1>2. CASE q.command = "enable"
  BY <1>2 DEF Changed, Sections, Procs
<1>3. CASE q.command = "deliver"
  BY <1>3 DEF Changed, Sections, Procs
<1>4. CASE q.command = "client"
  BY <1>4 DEF Changed, Sections, Procs
<1> QED  BY <1>1, <1>2, <1>3, <1>4 DEF Updates

\* The write of a section: the others are as they were under the lock, and an
\* identity on record stays.
LEMMA UpdateWritesKeeps == ASSUME RInv, NEW p \in Processes, UpdateWrites(p) PROVE RInv'
<1>1. /\ proc[p].pc = "write" /\ Exit(p)
      /\ UNCHANGED <<strays, copilot, settings, wanted, legacy, count>>
      /\ config' = [proc[p].cfg EXCEPT !.sections = Changed(proc[p], @)]
      /\ acked' = Changed(proc[p], acked)
      /\ used' = IF proc[p].command = "client" THEN used \cup {config'.sections.client}
                                               ELSE used
  BY DEF UpdateWrites, At, hookVars
<1>2. /\ proc[p] \in Procs /\ proc[p].locked /\ proc[p].project \in Projects
      /\ proc[p].command \in Updates
      /\ proc[p].command # "client" \/ proc[p].client # 0
      /\ proc[p].cfg = Parsed(config) /\ config.version # 0
      /\ config \in Configs /\ acked = config.sections /\ acked \in Sections
  BY <1>1, Known DEF Own, HoldsLock, Holds, Registered, Types, RInv, Files
<1>3. /\ Parsed(config) \in Configs /\ Parsed(config).version # 0
      /\ Parsed(config).sections = acked /\ Parsed(config).homes = config.homes
  BY <1>2 DEF Parsed, Upgraded, Configs
<1>4. /\ acked' \in Sections
      /\ proc[p].command # "client" => acked'.client = acked.client
      /\ proc[p].command = "client" =>
           acked'.client = IF acked.client = 0 THEN proc[p].client ELSE acked.client
  <2> DEFINE q == proc[p]
             s == Changed(q, acked)
  <2>1. q \in Procs /\ q.command \in Updates /\ q.project \in Projects /\ acked \in Sections
    BY <1>2
  <2> HIDE DEF q
  <2>2. /\ s \in Sections
        /\ q.command # "client" => s.client = acked.client
        /\ q.command = "client" =>
             s.client = IF acked.client = 0 THEN q.client ELSE acked.client
    BY <2>1, ChangedSections
  <2>3. acked' = s
    BY <1>1 DEF q
  <2> HIDE DEF s
  <2>4. /\ acked' \in Sections
        /\ q.command # "client" => acked'.client = acked.client
        /\ q.command = "client" =>
             acked'.client = IF acked.client = 0 THEN q.client ELSE acked.client
    BY <2>2, <2>3
  <2> QED  BY <2>4 DEF q
<1>5. /\ config' \in Configs /\ config'.sections = acked' /\ config'.homes = config.homes
      /\ config'.version # 0
  BY <1>1, <1>2, <1>3, <1>4 DEF Configs
<1>6. used' \subseteq Nat /\ \A id \in used' : id # 0 /\ id = acked'.client
  BY <1>1, <1>2, <1>4, <1>5, Known DEF Types, Sections, RInv, Files, Procs
<1>7. Types'
  BY <1>1, <1>4, <1>5, <1>6, Known, IdleIsNeutral DEF Types, Become, Exit
<1>8. Files'
  BY <1>1, <1>2, <1>5, <1>6 DEF RInv, Files, Installed
<1> QED  BY <1>1, <1>2, <1>7, <1>8, IdleIsNeutral, HolderLeaves DEF Exit

-----------------------------------------------------------------------------
(* register                                                                 *)

\* A process that only changes its place keeps what it was given.
LEMMA PlaceChanges ==
  ASSUME RInv, NEW p \in Processes, NEW pc \in PCs, Goto(p, pc)
  PROVE  \E q \in Procs :
           /\ Become(p, q) /\ q = [proc[p] EXCEPT !.pc = pc] /\ q.pc = pc
           /\ q.command = proc[p].command /\ q.project = proc[p].project
           /\ q.homes = proc[p].homes /\ q.locked = proc[p].locked
           /\ q.hook = proc[p].hook /\ q.read = proc[p].read /\ q.found = proc[p].found
<1>1. proc[p] \in Procs
  BY Known
<1> DEFINE q == [proc[p] EXCEPT !.pc = pc]
<1>2. /\ q \in Procs /\ q.pc = pc
      /\ q.command = proc[p].command /\ q.project = proc[p].project
      /\ q.homes = proc[p].homes /\ q.locked = proc[p].locked
      /\ q.hook = proc[p].hook /\ q.read = proc[p].read /\ q.found = proc[p].found
  BY <1>1 DEF Procs
<1>3. Become(p, q)
  BY DEF Goto
<1> QED  BY <1>2, <1>3

\* The homes of a registration are those it was given, and it keeps the
\* sections of the other commands.
LEMMA RegisterCommitsKeeps ==
  ASSUME RInv, NEW p \in Processes, RegisterCommits(p) PROVE RInv'
<1>1. /\ proc[p].pc = "register"
      /\ UNCHANGED <<acked, used, copilot, settings, wanted, legacy, count>>
  BY DEF RegisterCommits, At, hookVars
<1>2. CASE Exit(p) /\ UNCHANGED <<config, strays>>
  BY <1>1, <1>2, ExitKeeps DEF Unwritten, hookVars
<1>3. CASE ~(Exit(p) /\ UNCHANGED <<config, strays>>)
  <2> DEFINE homes == proc[p].homes
             q     == [proc[p] EXCEPT !.pc = "legacy", !.locked = TRUE]
  <2>1. /\ LockFree /\ config' = FromRegister(homes, Parsed(config))
        /\ strays' = (strays \cup HomesOf(config.homes)) \ HomesOf(homes)
        /\ Become(p, q)
    BY <1>3 DEF RegisterCommits, Locks
  <2>2. /\ q \in Procs /\ q.pc = "legacy" /\ q.locked /\ q.homes = homes
        /\ q.command = proc[p].command /\ q.project = proc[p].project
        /\ homes \in HomeSets
    BY Known DEF Procs, PCs, Registering
  <2> HIDE DEF q, homes
  <2>3. Own(q)
    BY <1>1, <2>2, Known
    DEF Own, HoldsLock, WillUpdate, Registering, Removing, Importing, Updates
  <2>4. /\ config' \in Configs /\ config'.homes = homes /\ config'.version = 2
        /\ config'.sections = config.sections
    BY <2>1, <2>2, Known DEF FromRegister, Parsed, Upgraded, Types, Configs
  <2>5. Types'
    BY <1>1, <2>1, <2>2, <2>4, Known DEF Types, Become
  <2>6. Files'
    BY <1>1, <2>1, <2>4 DEF RInv, Files, Installed
  <2>7. proc'[p] = q
    BY <2>1, Known DEF Become, Types
  <2>8. Holds(proc[p])'
    BY <2>2, <2>4, <2>7 DEF Holds, Removing, Registered
  <2>9. Removes(q)
    BY <2>2, RegistrationAssumption DEF Removes, RemovalPC, LegacyKinds
  <2>10. count.commands # 0
    BY <1>1, Known
  <2> QED  BY <1>1, <2>1, <2>2, <2>3, <2>5, <2>6, <2>8, <2>9, <2>10, HolderWrites
<1> QED  BY <1>2, <1>3

\* A registration goes on, with munshi's hook file where it was recorded.
LEMMA InstallingGoesOn ==
  ASSUME RInv, NEW p \in Processes, proc[p].pc \in {"copilot", "place", "replace"},
         NEW pc \in {"place", "replace", "claude"}, Goto(p, pc),
         UNCHANGED <<config, acked, used, strays, settings, wanted, legacy, count>>,
         copilot' = copilot \/ (copilot' = "ours" /\ proc[p].homes.copilot),
         pc = "claude" => proc[p].homes.claude # None,
         pc # "claude" => proc[p].homes.copilot
  PROVE  RInv'
<1>1. /\ proc[p].command = "register" /\ proc[p].locked
      /\ config.homes = proc[p].homes /\ proc[p].project \in Projects
      /\ count.commands # 0
  BY Known DEF Own, HoldsLock, Holds, Registering
<1>2. PICK q \in Procs :
        /\ Become(p, q) /\ q.pc = pc
        /\ q.command = proc[p].command /\ q.project = proc[p].project
        /\ q.homes = proc[p].homes /\ q.locked = proc[p].locked
  BY PlaceChanges DEF PCs, Registering
<1>3. Own(q)
  BY <1>1, <1>2
  DEF Own, HoldsLock, WillUpdate, Registering, Removing, Importing, Updates
<1>4. Types' /\ proc'[p] = q
  BY <1>2, Known DEF Types, Become
<1>5. Holds(proc[p])'
  BY <1>1, <1>2, <1>4 DEF Holds, Removing
<1>6. Removes(q)
  BY <1>2, RegistrationAssumption DEF Removes, RemovalPC, LegacyKinds
<1>7. Files'
  <2>1. copilot' = "ours" => copilot = "ours" \/ "copilot" \in HomesOf(config.homes)
    BY <1>1 DEF HomesOf
  <2> QED  BY <2>1 DEF RInv, Files, Installed
<1> QED  BY <1>1, <1>2, <1>3, <1>4, <1>5, <1>6, <1>7, HolderWrites

\* The hook file was dealt with: on to Claude Code, or this was all.
LEMMA InstallEnds ==
  ASSUME RInv, NEW p \in Processes, proc[p].pc \in {"copilot", "place", "replace"},
         AfterInstall(p),
         UNCHANGED <<config, acked, used, strays, settings, wanted, legacy, count>>,
         copilot' = copilot \/ (copilot' = "ours" /\ proc[p].homes.copilot)
  PROVE  RInv'
<1>1. CASE proc[p].homes.claude # None
  BY <1>1, InstallingGoesOn DEF AfterInstall
<1>2. CASE proc[p].homes.claude = None
  <2>1. /\ proc[p].locked /\ config.homes = proc[p].homes /\ Exit(p)
    BY <1>2, Known DEF Own, HoldsLock, Holds, Registering, AfterInstall
  <2>2. Types'
    BY <2>1, Known, IdleIsNeutral DEF Types, Become, Exit
  <2>3. Files'
    <3>1. copilot' = "ours" => copilot = "ours" \/ "copilot" \in HomesOf(config.homes)
      BY <2>1 DEF HomesOf
    <3> QED  BY <3>1 DEF RInv, Files, Installed
  <2> QED  BY <2>1, <2>2, <2>3, IdleIsNeutral, HolderLeaves DEF Exit
<1> QED  BY <1>1, <1>2

\* The check of the hook file writes nothing.
LEMMA InstallCopilotKeeps ==
  ASSUME RInv, NEW p \in Processes, InstallCopilot(p) PROVE RInv'
<1>1. /\ proc[p].pc = "copilot" /\ copilot' = copilot
      /\ UNCHANGED <<config, acked, used, strays, settings, wanted, legacy, count>>
  BY DEF InstallCopilot, At, configVars, hookVars
<1>2. CASE Exit(p)
  BY <1>1, <1>2, ExitKeeps DEF Unwritten, hookVars
<1>3. CASE AfterInstall(p)
  BY <1>1, <1>3, InstallEnds
<1>4. CASE proc[p].homes.copilot /\ (Goto(p, "place") \/ Goto(p, "replace"))
  BY <1>1, <1>4, InstallingGoesOn
<1> QED  BY <1>2, <1>3, <1>4 DEF InstallCopilot

\* munshi's hook file goes where none is.
LEMMA PlaceCopilotKeeps ==
  ASSUME RInv, NEW p \in Processes, PlaceCopilot(p) PROVE RInv'
<1>1. /\ proc[p].pc = "place" /\ proc[p].homes.copilot
      /\ UNCHANGED <<config, acked, used, strays, settings, wanted, legacy, count>>
  BY Known DEF PlaceCopilot, At, configVars, Own
<1>2. CASE Exit(p) /\ copilot' = copilot
  BY <1>1, <1>2, ExitKeeps DEF Unwritten, hookVars
<1>3. CASE AfterInstall(p) /\ copilot' = "ours"
  BY <1>1, <1>3, InstallEnds
<1> QED  BY <1>2, <1>3 DEF PlaceCopilot

\* munshi's hook file goes over what is there.
LEMMA ReplaceCopilotKeeps ==
  ASSUME RInv, NEW p \in Processes, ReplaceCopilot(p) PROVE RInv'
<1>1. /\ proc[p].pc = "replace" /\ proc[p].homes.copilot
      /\ UNCHANGED <<config, acked, used, strays, settings, wanted, legacy, count>>
      /\ AfterInstall(p) /\ copilot' = "ours"
  BY Known DEF ReplaceCopilot, At, configVars, Own
<1> QED  BY <1>1, InstallEnds

\* install_claude_hooks reads what it merges into.
LEMMA ReadSettingsKeeps ==
  ASSUME RInv, NEW p \in Processes, ReadSettings(p) PROVE RInv'
<1>1. /\ proc[p].pc = "claude" /\ proc[p].command = "register" /\ proc[p].locked
      /\ config.homes = proc[p].homes /\ proc[p].project \in Projects
      /\ proc[p].homes \in HomeSets /\ proc[p].homes.claude \in ClaudeHomes
      /\ Unwritten /\ UNCHANGED count
  BY Known DEF ReadSettings, At, configVars, Own, HoldsLock, Holds, Registering,
               Unwritten, hookVars, Procs, HomeSets
<1> DEFINE file == settings[proc[p].homes.claude]
<1>2. CASE Exit(p)
  BY <1>1, <1>2, ExitKeeps
<1>3. CASE Become(p, [proc[p] EXCEPT !.pc = "settings", !.read = file])
  <2> DEFINE q == [proc[p] EXCEPT !.pc = "settings", !.read = file]
  <2>1. /\ q \in Procs /\ q.pc = "settings" /\ q.read = file
        /\ q.homes = proc[p].homes /\ q.command = proc[p].command
        /\ q.project = proc[p].project /\ q.locked = proc[p].locked
    BY <1>1, Known, ZenonT(60) DEF Procs, PCs, Registering, Types
  <2>2. Become(p, q)
    BY <1>3
  <2> HIDE DEF q
  <2>3. Own(q)
    BY <1>1, <2>1 DEF Own, HoldsLock, WillUpdate, Registering, Removing, Importing, Updates
  <2>4. Holds(q) /\ Removes(q)
    BY <1>1, <2>1, RegistrationAssumption
    DEF Holds, Removes, Removing, RemovalPC, LegacyKinds
  <2> QED  BY <1>1, <2>1, <2>2, <2>3, <2>4, Known, OneMoves DEF Types
<1> QED  BY <1>2, <1>3 DEF ReadSettings

\* The merge keeps the entries that were read, and nobody wrote since.
LEMMA WriteSettingsKeeps ==
  ASSUME RInv, NEW p \in Processes, WriteSettings(p) PROVE RInv'
<1> DEFINE h == proc[p].homes.claude
<1>1. /\ proc[p].pc = "settings" /\ proc[p].command = "register" /\ proc[p].locked
      /\ config.homes = proc[p].homes /\ h \in ClaudeHomes
      /\ proc[p].read = settings[h] /\ Exit(p)
      /\ settings' = [settings EXCEPT ![h] = Merged(proc[p].read)]
      /\ UNCHANGED <<config, acked, used, strays, copilot, wanted, legacy, count>>
  BY Known DEF WriteSettings, At, configVars, Own, HoldsLock, Holds, Registering
<1>2. settings \in [ClaudeHomes -> SettingsFiles]
  BY Known DEF Types
<1>3. /\ Merged(settings[h]) \in SettingsFiles
      /\ Merged(settings[h]).users = settings[h].users
      /\ Merged(settings[h]).form = "object"
  BY <1>1, <1>2 DEF Merged, SettingsFiles, Forms
<1>4. h \in HomesOf(config.homes)
  BY <1>1, RegistrationAssumption DEF HomesOf
<1> HIDE DEF h
<1>5. /\ settings' \in [ClaudeHomes -> SettingsFiles]
      /\ settings'[h].users = settings[h].users /\ settings'[h].form = "object"
      /\ \A x \in ClaudeHomes \ {h} : settings'[x] = settings[x]
  BY <1>1, <1>2, <1>3
<1>6. Types'
  BY <1>1, <1>5, Known, IdleIsNeutral DEF Types, Become, Exit
<1>7. Files'
  <2>1. Installed' \subseteq Installed \cup {h}
    BY <1>1, <1>5 DEF Installed
  <2>2. \A x \in ClaudeHomes : /\ settings'[x].users = wanted[x]
                               /\ settings'[x].form # "object" => ~settings'[x].ours
    BY <1>1, <1>5 DEF RInv, Files
  <2> QED  BY <1>1, <1>4, <2>1, <2>2 DEF RInv, Files
<1> QED  BY <1>1, <1>6, <1>7, IdleIsNeutral, HolderLeaves DEF Exit

-----------------------------------------------------------------------------
(* unregister                                                               *)

\* What an unregister reads before it has the lock.
LEMMA UnregisterReadsKeeps ==
  ASSUME RInv, NEW p \in Processes, UnregisterReads(p) PROVE RInv'
<1>1. /\ proc[p].pc = "unregister" /\ ~proc[p].locked /\ proc[p].project \in Projects
      /\ Unwritten /\ UNCHANGED count
  BY Known DEF UnregisterReads, At, Own, HoldsLock, Registering, Removing, Importing,
               Unwritten, hookVars, configVars
<1>2. PICK homes, hook :
        /\ homes = IF Registered THEN config.homes ELSE [NoHomes EXCEPT !.copilot = TRUE]
        /\ hook = (homes.copilot /\ copilot # "none")
        /\ \/ Exit(p)
           \/ Become(p, Loaded([proc[p] EXCEPT !.homes = homes, !.hook = hook,
                                               !.found = Registered], "remove"))
  BY DEF UnregisterReads
<1>3. homes \in HomeSets /\ hook \in BOOLEAN
  BY <1>2, Known DEF Types, Configs, HomeSets, NoHomes
<1>4. CASE Exit(p)
  BY <1>1, <1>4, ExitKeeps
<1>5. CASE Become(p, Loaded([proc[p] EXCEPT !.homes = homes, !.hook = hook,
                                            !.found = Registered], "remove"))
  <2> DEFINE q == [proc[p] EXCEPT !.homes = homes, !.hook = hook, !.found = Registered]
  <2>1. q \in Procs /\ ~q.locked /\ q.project \in Projects
    BY <1>1, <1>3, Known DEF Procs, Registered
  <2>2. Become(p, Loaded(q, "remove"))
    BY <1>5
  <2> HIDE DEF q
  <2> QED  BY <1>1, <2>1, <2>2, LoadedKeeps
<1> QED  BY <1>2, <1>4, <1>5

\* Under the lock, what it read is all there is, but for the strays.
LEMMA UnregisterLocksKeeps ==
  ASSUME RInv, NEW p \in Processes, UnregisterLocks(p) PROVE RInv'
<1>1. /\ proc[p].pc = "remove" /\ ~proc[p].locked /\ proc[p].project \in Projects
      /\ UNCHANGED <<config, acked, used, copilot, settings, wanted, legacy, count>>
  BY Known DEF UnregisterLocks, At, Own, HoldsLock, Registering, Removing, Importing,
               hookVars
<1>2. CASE ~LockFree
  BY <1>1, <1>2, ExitKeeps DEF UnregisterLocks, Unwritten, hookVars
<1>3. CASE LockFree
  <2> DEFINE q == [proc[p] EXCEPT !.pc = "unhook", !.locked = TRUE]
  <2>1. Become(p, q) /\ strays' = strays \cup Missed(proc[p])
    BY <1>3 DEF UnregisterLocks, Locks
  <2>2. /\ q \in Procs /\ q.pc = "unhook" /\ q.locked /\ q.homes = proc[p].homes
        /\ q.hook = proc[p].hook /\ q.project = proc[p].project
    BY Known DEF Procs, PCs, Removing
  <2> HIDE DEF q
  <2>3. Own(q)
    BY <1>1, <2>2
    DEF Own, HoldsLock, WillUpdate, Registering, Removing, Importing, Updates
  <2>4. Types' /\ proc'[p] = q
    BY <1>1, <2>1, <2>2, Known DEF Types, Become
  <2>5. Files'
    BY <1>1, <2>1 DEF RInv, Files, Installed
  <2>6. Holds(proc[p])'
    BY <1>1, <2>1, <2>2, <2>4 DEF Holds, Removing, Registering, Importing, Missed
  <2>7. Removes(q)
    BY <2>2, RegistrationAssumption DEF Removes, RemovalPC, LegacyKinds
  <2>8. count.commands # 0
    BY <1>1, Known
  <2> QED  BY <1>1, <1>3, <2>1, <2>2, <2>3, <2>4, <2>5, <2>6, <2>7, <2>8, HolderWrites
<1> QED  BY <1>2, <1>3

\* The holder of the lock goes on to another place of the unregister.
LEMMA RemovingGoesOn ==
  ASSUME RInv, NEW p \in Processes, proc[p].pc \in Removing,
         NEW pc \in Removing \ {"unsettle"}, Goto(p, pc),
         Types', Files', UNCHANGED <<config, strays, legacy, count>>,
         pc = "unhook" /\ copilot' = "ours" => proc[p].hook \/ "copilot" \in strays,
         pc \notin {"unhook", "unlink"} /\ copilot' = "ours" => "copilot" \in strays,
         pc = "unconfig" => \A h \in ClaudeHomes : settings'[h].ours => h \in strays
  PROVE  RInv'
<1>1. /\ proc[p].locked /\ proc[p].project \in Projects /\ count.commands # 0
      /\ HomesOf(config.homes) \subseteq strays \cup HomesOf(proc[p].homes)
  BY Known DEF Own, HoldsLock, Holds, Removing
<1>2. PICK q \in Procs :
        /\ Become(p, q) /\ q.pc = pc /\ q.project = proc[p].project
        /\ q.homes = proc[p].homes /\ q.locked = proc[p].locked /\ q.hook = proc[p].hook
  BY PlaceChanges DEF PCs
<1>3. Own(q)
  BY <1>1, <1>2 DEF Own, HoldsLock, WillUpdate, Registering, Removing, Importing
<1>4. proc'[p] = q
  BY <1>2, Known DEF Become, Types
<1>5. Holds(proc[p])'
  BY <1>1, <1>2, <1>4 DEF Holds, Removing, Registering, Importing
<1>6. Removes(q)
  BY <1>2, RegistrationAssumption DEF Removes, Removing, RemovalPC, LegacyKinds
<1> QED  BY <1>1, <1>2, <1>3, <1>5, <1>6, HolderWrites

\* The check of the hook file removes nothing.
LEMMA RemoveCopilotKeeps ==
  ASSUME RInv, NEW p \in Processes, RemoveCopilot(p) PROVE RInv'
<1>1. /\ proc[p].pc = "unhook" /\ proc[p].locked /\ copilot' = copilot
      /\ UNCHANGED <<config, acked, used, strays, settings, wanted, legacy, count>>
      /\ copilot = "ours" => proc[p].hook \/ "copilot" \in strays
  BY Known DEF RemoveCopilot, At, configVars, hookVars, Own, HoldsLock, Holds,
               Removing
<1>2. CASE Exit(p)
  BY <1>1, <1>2, ExitKeeps DEF Unwritten, hookVars
<1>3. CASE \/ Goto(p, "unlink")
           \/ ~proc[p].hook /\ Goto(p, "unclaude")
  <2>1. Types'
    <3>1. PICK q \in Procs : Become(p, q)
      BY <1>3, PlaceChanges DEF PCs, Removing
    <3> QED  BY <1>1, <3>1, Known DEF Types, Become
  <2>2. Files'
    BY <1>1 DEF RInv, Files, Installed
  <2> QED  BY <1>1, <1>3, <2>1, <2>2, RemovingGoesOn DEF Removing
<1> QED  BY <1>2, <1>3 DEF RemoveCopilot, AfterCopilot

\* What is at the place of munshi's hook file is removed.
LEMMA UnlinkCopilotKeeps ==
  ASSUME RInv, NEW p \in Processes, UnlinkCopilot(p) PROVE RInv'
<1>1. /\ proc[p].pc = "unlink" /\ Goto(p, "unclaude") /\ copilot' = "none"
      /\ UNCHANGED <<config, acked, used, strays, settings, wanted, legacy, count>>
  BY DEF UnlinkCopilot, At, configVars, AfterCopilot
<1>2. Types'
  <2>1. PICK q \in Procs : Become(p, q)
    BY <1>1, PlaceChanges DEF PCs, Removing
  <2> QED  BY <1>1, <2>1, Known DEF Types, Become
<1>3. Files'
  BY <1>1 DEF RInv, Files, Installed
<1> QED  BY <1>1, <1>2, <1>3, RemovingGoesOn DEF Removing

\* Every home that still has munshi's hooks is the one being cleared, or stray.
LEMMA RemainingAreStray ==
  ASSUME RInv, NEW p \in Processes, proc[p].pc \in Removing \ {"unhook", "unlink"},
         NEW h \in ClaudeHomes, settings[h].ours
  PROVE  h \in strays \/ h = proc[p].homes.claude
<1>1. h \in HomesOf(config.homes) \cup strays
  BY DEF RInv, Files, Installed
<1>2. HomesOf(config.homes) \subseteq strays \cup HomesOf(proc[p].homes)
  BY Known DEF Holds
<1> QED  BY <1>1, <1>2, RegistrationAssumption DEF HomesOf

\* remove_claude_hooks, up to its write.
LEMMA ReadToRemoveKeeps ==
  ASSUME RInv, NEW p \in Processes, ReadToRemove(p) PROVE RInv'
<1> DEFINE home == proc[p].homes.claude
<1>1. /\ proc[p].pc = "unclaude" /\ proc[p].locked /\ proc[p].project \in Projects
      /\ Unwritten /\ UNCHANGED count
      /\ UNCHANGED <<config, acked, used, strays, copilot, settings, wanted, legacy>>
      /\ copilot = "ours" => "copilot" \in strays
  BY Known DEF ReadToRemove, At, configVars, hookVars, Unwritten, Own, HoldsLock,
               Holds, Removing
<1>2. proc[p].homes \in HomeSets /\ Files
  BY Known DEF Procs, RInv
<1>3. CASE Exit(p)
  BY <1>1, <1>3, ExitKeeps
<1>4. CASE /\ home = None \/ settings[home].form = "absent"
           /\ Goto(p, "unconfig")
  <2>1. \A h \in ClaudeHomes : settings[h].ours => h \in strays
    BY <1>1, <1>2, <1>4, RemainingAreStray, RegistrationAssumption DEF Removing, Files
  <2>2. Types'
    <3>1. PICK q \in Procs : Become(p, q)
      BY <1>4, PlaceChanges DEF PCs, Removing
    <3> QED  BY <1>1, <3>1, Known DEF Types, Become
  <2>3. Files'
    BY <1>1, <1>2 DEF Files, Installed
  <2> QED  BY <1>1, <1>4, <2>1, <2>2, <2>3, RemovingGoesOn DEF Removing
<1>5. CASE /\ home # None
           /\ Become(p, [proc[p] EXCEPT !.pc = "unsettle", !.read = settings[home]])
  <2> DEFINE q == [proc[p] EXCEPT !.pc = "unsettle", !.read = settings[home]]
  <2>1. home \in ClaudeHomes /\ settings[home] \in SettingsFiles
    BY <1>2, <1>5, Known DEF HomeSets, Types
  <2>2. /\ q \in Procs /\ q.pc = "unsettle" /\ q.read = settings[home]
        /\ q.homes = proc[p].homes /\ q.project = proc[p].project
        /\ q.locked = proc[p].locked /\ q.hook = proc[p].hook
    BY <2>1, Known DEF Procs, PCs, Removing
  <2>3. Become(p, q)
    BY <1>5
  <2> HIDE DEF q
  <2>4. Own(q)
    BY <1>1, <2>1, <2>2 DEF Own, HoldsLock, WillUpdate, Registering, Removing, Importing
  <2>5. HomesOf(config.homes) \subseteq strays \cup HomesOf(q.homes)
    BY <1>1, <2>2, Known DEF Holds, Removing
  <2>6. Holds(q) /\ Removes(q)
    BY <1>1, <2>2, <2>5, RegistrationAssumption
    DEF Holds, Removes, Removing, Registering, Importing, RemovalPC, LegacyKinds
  <2> QED  BY <1>1, <2>2, <2>3, <2>4, <2>6, Known, OneMoves DEF Types
<1> QED  BY <1>3, <1>4, <1>5 DEF ReadToRemove

\* munshi's entries go, those of others stay.
LEMMA WriteRemovedKeeps ==
  ASSUME RInv, NEW p \in Processes, WriteRemoved(p) PROVE RInv'
<1> DEFINE h == proc[p].homes.claude
<1>1. /\ proc[p].pc = "unsettle" /\ h \in ClaudeHomes /\ proc[p].read = settings[h]
      /\ Goto(p, "unconfig")
      /\ settings' = [settings EXCEPT ![h] = [proc[p].read EXCEPT !.ours = FALSE]]
      /\ UNCHANGED <<config, acked, used, strays, copilot, wanted, legacy, count>>
      /\ copilot = "ours" => "copilot" \in strays
  BY Known DEF WriteRemoved, At, configVars, Own, Holds, Removing
<1>2. settings \in [ClaudeHomes -> SettingsFiles]
  BY Known DEF Types
<1>3. \A x \in ClaudeHomes : settings[x].ours => x \in strays \/ x = h
  BY <1>1, RemainingAreStray DEF Removing
<1>4. PICK q \in Procs : Become(p, q)
  BY <1>1, PlaceChanges DEF PCs, Removing
<1> HIDE DEF h
<1>5. /\ settings' \in [ClaudeHomes -> SettingsFiles]
      /\ settings'[h].users = settings[h].users /\ ~settings'[h].ours
      /\ \A x \in ClaudeHomes \ {h} : settings'[x] = settings[x]
  BY <1>1, <1>2 DEF SettingsFiles
<1>6. Types'
  BY <1>1, <1>4, <1>5, Known DEF Types, Become
<1>7. Files'
  <2>1. Installed' \subseteq Installed
    BY <1>1, <1>5 DEF Installed
  <2>2. \A x \in ClaudeHomes : /\ settings'[x].users = wanted[x]
                               /\ settings'[x].form # "object" => ~settings'[x].ours
    BY <1>1, <1>5 DEF RInv, Files
  <2> QED  BY <1>1, <2>1, <2>2 DEF RInv, Files
<1>8. \A x \in ClaudeHomes : settings'[x].ours => x \in strays
  BY <1>3, <1>5
<1> QED  BY <1>1, <1>6, <1>7, <1>8, RemovingGoesOn DEF Removing

\* config.json goes last, when no hook is left but the strays.
LEMMA RemoveConfigKeeps ==
  ASSUME RInv, NEW p \in Processes, RemoveConfig(p) PROVE RInv'
<1>1. /\ proc[p].pc = "unconfig" /\ proc[p].locked /\ Exit(p)
      /\ UNCHANGED <<strays, copilot, settings, wanted, legacy, count>>
      /\ copilot = "ours" => "copilot" \in strays
      /\ \A h \in ClaudeHomes : settings[h].ours => h \in strays
  BY Known DEF RemoveConfig, At, hookVars, Own, HoldsLock, Holds, Removing
<1>2. CASE UNCHANGED <<config, acked, used>>
  BY <1>1, <1>2, ExitKeeps DEF Unwritten, hookVars
<1>3. CASE config' = NoConfig /\ acked' = NoSections /\ used' = {}
  <2>1. NoConfig \in Configs /\ NoConfig.sections = NoSections /\ NoSections \in Sections
    BY IdleIsNeutral DEF Idle, Procs, NoConfig, Configs, NoSections, Sections, NoHomes,
                         HomeSets
  <2>2. Types'
    BY <1>1, <1>3, <2>1, Known, IdleIsNeutral DEF Types, Become, Exit
  <2>3. Installed \subseteq strays
    BY <1>1 DEF Installed
  <2>4. Files'
    BY <1>1, <1>3, <2>1, <2>3 DEF RInv, Files, Installed
  <2> QED  BY <1>1, <2>2, <2>4, IdleIsNeutral, HolderLeaves DEF Exit
<1> QED  BY <1>2, <1>3 DEF RemoveConfig

-----------------------------------------------------------------------------
(* The files of older versions.                                             *)

\* Where an import goes, with the effect of what it is about to remove there.
Moves(p) ==
  \/ Exit(p)
  \/ \E pc \in {"copilot"} \cup Importing :
       /\ Goto(p, pc)
       /\ pc = "copilot" => proc[p].command = "register"
       /\ \A k \in Legacy : pc = RemovalPC(k) => legacy[k].written <= legacy'[k].effects

\* A step of an import: effects are only added, and nothing else is written.
LEMMA ImportMoves ==
  ASSUME RInv, NEW p \in Processes, proc[p].pc \in {"legacy"} \cup Importing,
         UNCHANGED <<configVars, hookVars, count>>,
         Moves(p),
         legacy' \in [Legacy -> LegacyFiles],
         \A k \in Legacy : /\ legacy'[k].written = legacy[k].written
                           /\ legacy[k].effects <= legacy'[k].effects
                           /\ Imports(k)'
  PROVE  RInv'
<1> USE DEF configVars, hookVars
<1>1. PICK q \in Procs :
        /\ Become(p, q) /\ Own(q) /\ Holds(q)
        /\ q.locked => proc[p].locked
        /\ \A k \in Legacy :
             q.pc = RemovalPC(k) => legacy[k].written <= legacy'[k].effects
  <2>1. CASE Exit(p)
    BY <2>1, IdleIsNeutral, RegistrationAssumption DEF Exit, LegacyKinds, RemovalPC
  <2>2. ASSUME NEW pc \in {"copilot"} \cup Importing, Goto(p, pc),
               pc = "copilot" => proc[p].command = "register",
               \A k \in Legacy :
                   pc = RemovalPC(k) => legacy[k].written <= legacy'[k].effects
        PROVE  \E q \in Procs :
        /\ Become(p, q) /\ Own(q) /\ Holds(q)
        /\ q.locked => proc[p].locked
        /\ \A k \in Legacy :
             q.pc = RemovalPC(k) => legacy[k].written <= legacy'[k].effects
    <3>1. PICK q \in Procs :
            /\ Become(p, q) /\ q.pc = pc /\ q.project = proc[p].project
            /\ q.command = proc[p].command
            /\ q.homes = proc[p].homes /\ q.locked = proc[p].locked
      BY <2>2, PlaceChanges DEF PCs, Registering
    <3>2. Own(q)
      BY <2>2, <3>1, Known
      DEF Own, HoldsLock, WillUpdate, Registering, Removing, Importing
    <3>3. Holds(q)
      BY <3>1, Known DEF Holds, Removing, Registering, Importing
    <3> QED  BY <2>2, <3>1, <3>2, <3>3
  <2> QED  BY <2>1, <2>2 DEF Moves
<1>2. /\ proc'[p] = q /\ \A x \in Processes \ {p} : proc'[x] = proc[x]
      /\ proc' \in [Processes -> Procs] /\ count.commands # 0
  BY <1>1, Known DEF Become, Types, Importing
<1>3. Types' /\ Files'
  BY <1>2 DEF RInv, Types, Files, Installed
<1>4. OneHolder'
  BY <1>1, <1>2 DEF RInv, OneHolder
<1>5. ASSUME NEW x \in Processes
      PROVE  /\ Own(proc[x])' /\ Holds(proc[x])' /\ Removes(proc[x])'
             /\ (proc[x].pc # "idle" => count.commands # 0)'
  <2>1. PICK r : /\ proc'[x] = r /\ Own(r) /\ Holds(r)
                 /\ (x = p /\ r = q) \/ Removes(r)
    BY <1>1, <1>2 DEF RInv
  <2>2. Own(proc[x])'
    BY <2>1 DEF Own, HoldsLock, WillUpdate
  <2>3. Holds(proc[x])'
    BY <2>1 DEF Holds, Registered
  <2>4. legacy \in [Legacy -> LegacyFiles]
    BY Known DEF Types
  <2>5. \A k \in Legacy : r.pc = RemovalPC(k) => legacy'[k].written <= legacy'[k].effects
    BY <1>1, <2>1, <2>4 DEF Removes, LegacyFiles
  <2>6. Removes(proc[x])'
    BY <2>1, <2>5 DEF Removes, RemovalPC
  <2> QED  BY <1>2, <2>2, <2>3, <2>6
<1> QED  BY <1>3, <1>4, <1>5 DEF RInv

\* The _legacy lock.
LEMMA LegacyBeginsKeeps ==
  ASSUME RInv, NEW p \in Processes, LegacyBegins(p) PROVE RInv'
<1>1. /\ proc[p].pc = "legacy" /\ UNCHANGED <<configVars, hookVars, legacy, count>>
      /\ \/ Goto(p, "import-session") \/ Exit(p)
         \/ proc[p].command = "register" /\ Goto(p, "copilot")
  BY DEF LegacyBegins, At, AfterLegacy
<1>2. /\ legacy' \in [Legacy -> LegacyFiles]
      /\ \A k \in Legacy : /\ legacy'[k].written = legacy[k].written
                           /\ legacy[k].effects <= legacy'[k].effects
                           /\ Imports(k)'
  BY <1>1, Known DEF Types, LegacyFiles, RInv, Imports
<1> QED  BY <1>1, <1>2, ImportMoves, RegistrationAssumption
    DEF Moves, Importing, LegacyKinds, RemovalPC

\* After one kind of file, the next, or what register does afterwards.
LEMMA LegacyNextMoves ==
  ASSUME NEW p \in Processes, NEW kind \in LegacyKinds, LegacyNext(p, kind)
  PROVE  Moves(p)
<1>1. \/ Exit(p) \/ Goto(p, "import-job") \/ Goto(p, "import-result")
      \/ proc[p].command = "register" /\ Goto(p, "copilot")
  BY DEF LegacyNext, Following, AfterLegacy, LegacyKinds
<1> QED  BY <1>1, RegistrationAssumption DEF Moves, Importing, LegacyKinds, RemovalPC

\* An import takes effect once, a diagnostic once or twice.
LEMMA ImportLegacyKeeps ==
  ASSUME RInv, NEW p \in Processes, NEW kind \in LegacyKinds, ImportLegacy(p, kind)
  PROVE  RInv'
<1>1. /\ proc[p].pc \in Importing /\ UNCHANGED <<configVars, hookVars, count>>
  BY DEF ImportLegacy, At, Importing, LegacyKinds
<1>2. legacy \in [Legacy -> LegacyFiles] /\ \A k \in Legacy : Imports(k)
  BY Known DEF Types, RInv
<1>3. CASE LegacyNext(p, kind) /\ UNCHANGED legacy
  <2>1. \A k \in Legacy : Imports(k)' /\ legacy[k].effects \in Nat
    BY <1>2, <1>3 DEF Imports, LegacyFiles
  <2>2. Moves(p)
    BY <1>3, LegacyNextMoves
  <2> QED  BY <1>1, <1>2, <1>3, <2>1, <2>2, ImportMoves
<1>4. CASE ~(LegacyNext(p, kind) /\ UNCHANGED legacy)
  <2>1. /\ kind \in Legacy /\ legacy[kind].present
        /\ IF kind = "result" THEN RecordResult(kind) ELSE ImportOnce(kind)
        /\ Goto(p, CASE kind = "session" -> "remove-session" [] kind = "job" -> "remove-job"
                       [] kind = "result" -> "remove-result")
    BY <1>4 DEF ImportLegacy, Importable
  <2>2. legacy[kind] \in LegacyFiles /\ Imports(kind)
    BY <1>2, <2>1
  <2> DEFINE r == legacy[kind]
             Result == [r EXCEPT !.effects = @ + 1]
             Once   == [r EXCEPT !.imported = r.written, !.effects = @ + 1]
  <2>3. PICK f : /\ legacy' = [legacy EXCEPT ![kind] = f]
                 /\ f = IF kind = "result" THEN Result
                        ELSE IF r.imported = r.written THEN r ELSE Once
    <3>1. CASE kind = "result"
      BY <1>2, <2>1, <3>1 DEF RecordResult, LegacyFiles
    <3>2. CASE kind # "result" /\ LegacyImported(kind)
      BY <1>2, <2>1, <3>2 DEF ImportOnce, LegacyImported
    <3>3. CASE kind # "result" /\ ~LegacyImported(kind)
      BY <1>2, <2>1, <2>2, <3>3 DEF ImportOnce, LegacyImported, LegacyFiles
    <3> QED  BY <3>1, <3>2, <3>3
  <2>4. /\ f \in LegacyFiles /\ f.written = r.written /\ f.present = r.present
        /\ kind = "result" => f.effects = r.effects + 1
        /\ kind # "result" /\ LegacyImported(kind) => f = r
        /\ kind # "result" /\ ~LegacyImported(kind) =>
             f.effects = r.effects + 1 /\ f.imported = r.written
    <3>1. CASE kind = "result"
      BY <2>2, <2>3, <3>1 DEF LegacyFiles
    <3>2. CASE kind # "result" /\ LegacyImported(kind)
      BY <2>2, <2>3, <3>2 DEF LegacyFiles, LegacyImported
    <3>3. CASE kind # "result" /\ ~LegacyImported(kind)
      <4>1. f = Once
        BY <2>3, <3>3 DEF LegacyImported
      <4>2. /\ r \in LegacyFiles /\ f = [r EXCEPT !.imported = r.written,
                                                 !.effects = r.effects + 1]
        BY <2>2, <4>1
      <4> DEFINE e == r.effects + 1
      <4>4. e \in Nat
        BY <2>2 DEF LegacyFiles
      <4> HIDE DEF r, e
      <4>3. /\ f \in LegacyFiles /\ f.written = r.written /\ f.present = r.present
            /\ f.effects = e /\ f.imported = r.written
        <5>1. f = [r EXCEPT !.imported = r.written, !.effects = e]
          BY <4>2 DEF e
        <5> QED  BY <4>2, <4>4, <5>1 DEF LegacyFiles
      <4> USE DEF r, e
      <4> QED  BY <3>3, <4>3
    <3> QED  BY <3>1, <3>2, <3>3
  <2>5. /\ legacy' \in [Legacy -> LegacyFiles] /\ legacy'[kind] = f
        /\ \A k \in Legacy \ {kind} : legacy'[k] = legacy[k]
    <3>1. legacy' = [legacy EXCEPT ![kind] = f] /\ f \in LegacyFiles
      BY <2>3, <2>4
    <3> QED  BY <1>2, <2>1, <3>1
  <2>6. /\ Imports(kind)' /\ legacy[kind].effects <= legacy'[kind].effects
        /\ legacy[kind].written <= legacy'[kind].effects
        /\ legacy'[kind].written = legacy[kind].written
    <3>1. /\ r.written \in Nat /\ r.effects \in Nat /\ r.imported \in Nat
          /\ f.present /\ f.written = r.written
      BY <2>1, <2>2, <2>4 DEF LegacyFiles
    <3>2. CASE kind = "result"
      BY <2>2, <2>5, <2>4, <3>1, <3>2 DEF Imports
    <3>3. CASE kind # "result" /\ r.imported = r.written
      <4>1. f = r
        BY <2>4, <3>3 DEF LegacyImported
      <4> QED  BY <2>2, <2>5, <3>1, <3>3, <4>1 DEF Imports
    <3>4. CASE kind # "result" /\ r.imported # r.written
      <4>1. f.effects = r.effects + 1 /\ f.imported = r.written
        BY <2>4, <3>4 DEF LegacyImported
      <4> QED  BY <2>2, <2>5, <3>1, <3>4, <4>1 DEF Imports
    <3> QED  BY <3>2, <3>3, <3>4
  <2>7. \A k \in Legacy : /\ legacy'[k].written = legacy[k].written
                          /\ legacy[k].effects <= legacy'[k].effects
                          /\ Imports(k)'
    <3>1. ASSUME NEW k \in Legacy, k # kind
          PROVE  /\ legacy'[k] = legacy[k] /\ legacy[k].effects \in Nat /\ Imports(k)'
      BY <1>2, <2>5, <3>1 DEF Imports, LegacyFiles
    <3> QED  BY <2>5, <2>6, <3>1
  <2>8. PICK pc \in Importing :
          /\ Goto(p, pc)
          /\ pc = CASE kind = "session" -> "remove-session" [] kind = "job" -> "remove-job"
                    [] kind = "result" -> "remove-result"
    BY <2>1 DEF Importing, LegacyKinds
  <2>9. \A k \in Legacy : pc = RemovalPC(k) => legacy[k].written <= legacy'[k].effects
    BY <2>1, <2>6, <2>8, RegistrationAssumption DEF LegacyKinds, RemovalPC
  <2>10. pc # "copilot"
    BY DEF Importing
  <2> QED  BY <1>1, <2>5, <2>7, <2>8, <2>9, <2>10, ImportMoves DEF Moves
<1> QED  BY <1>3, <1>4

\* What is removed has had its effect.
LEMMA RemoveLegacyKeeps ==
  ASSUME RInv, NEW p \in Processes, NEW kind \in LegacyKinds, RemoveLegacy(p, kind)
  PROVE  RInv'
<1>1. /\ proc[p].pc \in Importing /\ UNCHANGED <<configVars, hookVars, count>>
      /\ proc[p].pc = CASE kind = "session" -> "remove-session" [] kind = "job" -> "remove-job"
                        [] kind = "result" -> "remove-result"
      /\ legacy' = [legacy EXCEPT ![kind].present = FALSE]
      /\ LegacyNext(p, kind)
  BY DEF RemoveLegacy, At, Importing, LegacyKinds
<1>2. legacy \in [Legacy -> LegacyFiles] /\ \A k \in Legacy : Imports(k)
  BY Known DEF Types, RInv
<1>3. kind \in Legacy => legacy[kind].written <= legacy[kind].effects
  BY <1>1, Known DEF Removes, RemovalPC
<1>4. legacy' \in [Legacy -> LegacyFiles]
  BY <1>1, <1>2 DEF LegacyFiles
<1>5. ASSUME NEW k \in Legacy
      PROVE  /\ legacy'[k].written = legacy[k].written
             /\ legacy'[k].effects = legacy[k].effects /\ legacy[k].effects \in Nat
             /\ legacy'[k].imported = legacy[k].imported
             /\ legacy'[k].present = legacy[k].present \/ k = kind
  BY <1>1, <1>2 DEF LegacyFiles
<1>6. \A k \in Legacy : Imports(k)'
  BY <1>2, <1>3, <1>5 DEF Imports, LegacyFiles
<1>7. \A k \in Legacy : /\ legacy'[k].written = legacy[k].written
                        /\ legacy[k].effects <= legacy'[k].effects
                        /\ Imports(k)'
  BY <1>5, <1>6
<1>8. Moves(p)
  BY <1>1, LegacyNextMoves
<1> QED  BY <1>1, <1>4, <1>7, <1>8, ImportMoves

-----------------------------------------------------------------------------
(* The others, and all of it together.                                      *)

\* An edit of settings.json leaves munshi's entries or drops them.
LEMMA EditSettingsKeeps ==
  ASSUME RInv, NEW h \in ClaudeHomes, EditSettings(h) PROVE RInv'
<1>1. PICK form \in {"object", "odd", "garbage"}, users \in BOOLEAN :
        /\ settings' = [settings EXCEPT ![h] =
             [form |-> form, ours |-> @.ours /\ form = "object", users |-> users]]
        /\ wanted' = [wanted EXCEPT ![h] = users]
  BY Zenon DEF EditSettings
<1>2. /\ UNCHANGED <<config, acked, used, strays, copilot, legacy, proc>>
      /\ count' = [count EXCEPT !.edits = @ + 1]
      /\ \A p \in Processes :
           ~(proc[p].pc \in {"settings", "unsettle"} /\ proc[p].homes.claude = h)
  BY DEF EditSettings, Edited, Counted, configVars
<1>3. PICK ours \in BOOLEAN : ours = (settings[h].ours /\ form = "object")
  OBVIOUS
<1> DEFINE file == [form |-> form, ours |-> ours, users |-> users]
<1>4. /\ file \in SettingsFiles /\ file.users = users
      /\ file.ours => settings[h].ours
      /\ file.form # "object" => ~file.ours
  BY <1>3 DEF SettingsFiles, Forms
<1>5. settings' = [settings EXCEPT ![h] = file]
  BY <1>1, <1>3, Zenon
<1>6. Types /\ Files
  BY DEF RInv
<1> HIDE DEF file
<1>7. /\ settings' \in [ClaudeHomes -> SettingsFiles] /\ wanted' \in [ClaudeHomes -> BOOLEAN]
      /\ settings'[h] = file /\ wanted'[h] = users
      /\ \A x \in ClaudeHomes \ {h} : settings'[x] = settings[x] /\ wanted'[x] = wanted[x]
  BY <1>1, <1>4, <1>5, <1>6 DEF Types
<1>8. Types' /\ count'.commands = count.commands
  BY <1>2, <1>6, <1>7 DEF Types
<1>9. \A x \in ClaudeHomes : settings'[x].ours => settings[x].ours
  BY <1>4, <1>7
<1>10. Files'
  <2>1. Installed' \subseteq Installed
    BY <1>2, <1>9 DEF Installed
  <2>2. ASSUME NEW x \in ClaudeHomes
        PROVE  /\ settings'[x].users = wanted'[x]
               /\ settings'[x].form # "object" => ~settings'[x].ours
    BY <1>4, <1>6, <1>7 DEF Files
  <2> QED  BY <1>2, <1>6, <2>1, <2>2 DEF Files
<1>11. OneHolder' /\ \A k \in Legacy : Imports(k)'
  BY <1>2 DEF RInv, OneHolder, Imports
<1>12. ASSUME NEW p \in Processes
       PROVE  /\ Own(proc[p])' /\ Holds(proc[p])' /\ Removes(proc[p])'
              /\ (proc[p].pc # "idle" => count.commands # 0)'
  <2>1. proc'[p] = proc[p]
    BY <1>2
  <2>2. Own(proc[p])'
    BY <2>1, Known DEF Own, HoldsLock, WillUpdate
  <2>3. Holds(proc[p])'
    BY <1>2, <1>7, <1>9, <2>1, Known DEF Holds, Registered, Own
  <2>4. Removes(proc[p])' /\ (proc[p].pc # "idle" => count.commands # 0)'
    BY <1>2, <1>8, <2>1, Known DEF Removes, RemovalPC
  <2> QED  BY <2>2, <2>3, <2>4
<1> QED  BY <1>8, <1>10, <1>11, <1>12 DEF RInv

\* A foreign hook file comes or goes.
LEMMA EditCopilotKeeps == ASSUME RInv, EditCopilot PROVE RInv'
<1>1. /\ UNCHANGED <<config, acked, used, strays, settings, wanted, legacy, proc>>
      /\ count' = [count EXCEPT !.edits = @ + 1]
      /\ copilot' \in {"none", "foreign"}
  BY DEF EditCopilot, Edited, Counted, configVars
<1>2. Types' /\ count'.commands = count.commands
  BY <1>1 DEF RInv, Types
<1>3. Files'
  BY <1>1 DEF RInv, Files, Installed
<1>4. OneHolder' /\ \A k \in Legacy : Imports(k)'
  BY <1>1 DEF RInv, OneHolder, Imports
<1>5. ASSUME NEW p \in Processes
      PROVE  /\ Own(proc[p])' /\ Holds(proc[p])' /\ Removes(proc[p])'
             /\ (proc[p].pc # "idle" => count.commands # 0)'
  <2>1. proc'[p] = proc[p]
    BY <1>1
  <2>2. Own(proc[p])'
    BY <2>1, Known DEF Own, HoldsLock, WillUpdate
  <2>3. Holds(proc[p])'
    BY <1>1, <2>1, Known DEF Holds, Registered
  <2>4. Removes(proc[p])' /\ (proc[p].pc # "idle" => count.commands # 0)'
    BY <1>1, <1>2, <2>1, Known DEF Removes, RemovalPC
  <2> QED  BY <2>2, <2>3, <2>4
<1> QED  BY <1>2, <1>3, <1>4, <1>5 DEF RInv

\* An older version leaves a file, while nothing is imported.
LEMMA LegacyWritesKeeps ==
  ASSUME RInv, NEW kind \in Legacy, LegacyWrites(kind) PROVE RInv'
<1>1. /\ UNCHANGED <<config, acked, used, strays, copilot, settings, wanted, proc>>
      /\ count' = [count EXCEPT !.edits = @ + 1]
      /\ \A p \in Processes : proc[p].pc \notin Importing
      /\ ~legacy[kind].present
  BY DEF LegacyWrites, Edited, Counted, configVars, hookVars, LegacyFree
<1>2. PICK bad \in BOOLEAN :
        legacy' = [legacy EXCEPT ![kind].present = TRUE, ![kind].bad = bad,
                                 ![kind].written = @ + (IF bad THEN 0 ELSE 1)]
  BY DEF LegacyWrites
<1>3. legacy \in [Legacy -> LegacyFiles] /\ legacy[kind] \in LegacyFiles
  BY Known DEF RInv, Types
<1> DEFINE n    == IF bad THEN 0 ELSE 1
           file == [legacy[kind] EXCEPT !.present = TRUE, !.bad = bad, !.written = @ + n]
<1>4. /\ file \in LegacyFiles /\ file.present
      /\ file.imported = legacy[kind].imported /\ file.effects = legacy[kind].effects
      /\ \/ file.written = legacy[kind].written
         \/ file.written = legacy[kind].written + 1
  <2> DEFINE m == legacy[kind].written + n
  <2>1. m \in Nat /\ (m = legacy[kind].written \/ m = legacy[kind].written + 1)
    <3>1. n = 0 \/ n = 1
      OBVIOUS
    <3> HIDE DEF n
    <3> QED  BY <1>3, <3>1 DEF LegacyFiles
  <2>2. file = [legacy[kind] EXCEPT !.present = TRUE, !.bad = bad, !.written = m]
    OBVIOUS
  <2> HIDE DEF m, file
  <2>3. /\ file \in LegacyFiles /\ file.present /\ file.written = m
        /\ file.imported = legacy[kind].imported /\ file.effects = legacy[kind].effects
    BY <1>3, <2>1, <2>2 DEF LegacyFiles
  <2> QED  BY <2>1, <2>3
<1>5. legacy' = [legacy EXCEPT ![kind] = file]
  BY <1>2, <1>3 DEF LegacyFiles
<1> HIDE DEF file
<1>6. /\ legacy' \in [Legacy -> LegacyFiles] /\ legacy'[kind] = file
      /\ \A k \in Legacy \ {kind} : legacy'[k] = legacy[k]
  BY <1>3, <1>4, <1>5
<1>7. Types' /\ count'.commands = count.commands
  BY <1>1, <1>6 DEF RInv, Types
<1>8. Files' /\ OneHolder'
  BY <1>1 DEF RInv, Files, Installed, OneHolder
<1>9. ASSUME NEW k \in Legacy PROVE Imports(k)'
  BY <1>1, <1>3, <1>4, <1>6 DEF RInv, Imports, LegacyFiles
<1>10. ASSUME NEW p \in Processes
       PROVE  /\ Own(proc[p])' /\ Holds(proc[p])' /\ Removes(proc[p])'
              /\ (proc[p].pc # "idle" => count.commands # 0)'
  <2>1. proc'[p] = proc[p] /\ proc[p].pc \notin Importing
    BY <1>1
  <2>2. Own(proc[p])'
    BY <2>1, Known DEF Own, HoldsLock, WillUpdate
  <2>3. Holds(proc[p])'
    BY <1>1, <2>1, Known DEF Holds, Registered
  <2>4. Removes(proc[p])' /\ (proc[p].pc # "idle" => count.commands # 0)'
    BY <1>1, <1>7, <2>1, Known, RegistrationAssumption
    DEF Removes, RemovalPC, Importing, LegacyKinds
  <2> QED  BY <2>2, <2>3, <2>4
<1> QED  BY <1>7, <1>8, <1>9, <1>10 DEF RInv

\* Every step of a process keeps what is known.
LEMMA MunshiKeeps == ASSUME RInv, NEW p \in Processes, Munshi(p) PROVE RInv'
BY BeginKeeps, DeathKeeps, LoadKeeps, MigrationLocksKeeps, PersistMigratedKeeps,
   EnsureClientKeeps, UpdateLoadsKeeps, UpdateWritesKeeps, RegisterCommitsKeeps,
   InstallCopilotKeeps, PlaceCopilotKeeps, ReplaceCopilotKeeps, ReadSettingsKeeps,
   WriteSettingsKeeps, UnregisterReadsKeeps, UnregisterLocksKeeps, RemoveCopilotKeeps,
   UnlinkCopilotKeeps, ReadToRemoveKeeps, WriteRemovedKeeps,
   RemoveConfigKeeps, LegacyBeginsKeeps, ImportLegacyKeeps, RemoveLegacyKeeps
DEF Munshi

\* A machine with no registration or one of an older version.
LEMMA InitRInv == Init => RInv
<1> SUFFICES ASSUME Init PROVE RInv
  OBVIOUS
<1>1. /\ config \in Configs /\ config.sections \in Sections
      /\ config.version = 0 => config = NoConfig
      /\ copilot = "ours" => "copilot" \in HomesOf(config.homes)
      /\ copilot \in {"none", "ours"}
  <2>1. CASE config = NoConfig
    <3>1. NoConfig \in Configs
      BY IdleIsNeutral DEF Idle, Procs
    <3> QED  BY <2>1, <3>1 DEF Init, NoConfig, Configs
  <2>2. ASSUME NEW d \in BOOLEAN,
               config = [version |-> 1, homes |-> [copilot |-> TRUE, claude |-> None],
                         sections |-> [disabled |-> {}, delivery |-> d, client |-> 0]]
        PROVE  /\ config \in Configs /\ config.sections \in Sections /\ config.version = 1
               /\ "copilot" \in HomesOf(config.homes)
    <3>1. [copilot |-> TRUE, claude |-> None] \in HomeSets
      BY DEF HomeSets
    <3>2. [disabled |-> {}, delivery |-> d, client |-> 0] \in Sections
      BY DEF Sections
    <3>3. config \in Configs /\ config.sections \in Sections /\ config.version = 1
      BY <2>2, <3>1, <3>2 DEF Configs
    <3>4. config.homes = [copilot |-> TRUE, claude |-> None]
      BY <2>2
    <3> QED  BY <3>3, <3>4 DEF HomesOf
  <2> QED  BY <2>1, <2>2 DEF Init
<1>2. NoSettings \in SettingsFiles
  BY DEF NoSettings, SettingsFiles, Forms
<1>3. legacy \in [Legacy -> LegacyFiles]
  BY DEF Init, LegacyFiles
<1>4. Types
  BY <1>1, <1>2, <1>3, IdleIsNeutral DEF Init, Types
<1>5. \A p \in Processes : proc[p] = Idle
  BY DEF Init
<1>6. OneHolder
  BY <1>5, IdleIsNeutral DEF OneHolder
<1>7. Files
  BY <1>1 DEF Init, Files, Installed, NoSettings
<1>8. \A p \in Processes : /\ Own(proc[p]) /\ Holds(proc[p]) /\ Removes(proc[p])
                           /\ proc[p].pc # "idle" => count.commands # 0
  BY <1>5, IdleIsNeutral
<1>9. \A k \in Legacy : Imports(k)
  BY DEF Init, Imports
<1> QED  BY <1>4, <1>6, <1>7, <1>8, <1>9 DEF RInv

\* Every step keeps what is known.
LEMMA StepRInv == RInv /\ [Next]_vars => RInv'
<1> SUFFICES ASSUME RInv, [Next]_vars PROVE RInv'
  OBVIOUS
<1>1. CASE Next
  BY <1>1, MunshiKeeps, EditCopilotKeeps, EditSettingsKeeps, LegacyWritesKeeps DEF Next
<1>2. CASE UNCHANGED vars
  BY <1>2, ZenonT(60) DEF vars, RInv, Types, OneHolder, Files, Installed, Own, HoldsLock,
              WillUpdate, Holds, Registered, Removes, RemovalPC, Imports
<1> QED  BY <1>1, <1>2

\* All that the argument knows of the registration holds in every state.
THEOREM RegistrationIsKnown == Spec => []RInv
<1> QED  BY InitRInv, StepRInv, PTL DEF Spec

\* The variables have their types, and the registration lock one holder.
THEOREM RegistrationTypes == Spec => []TypeOK
<1>1. RInv => TypeOK
  BY DEF RInv, Types, TypeOK, Configs, Sections, SettingsFiles, OneHolder
<1> QED  BY <1>1, RegistrationIsKnown, PTL

\* What a command was acknowledged for is in config.json until an unregister,
\* whatever registrations, updates and migrations of the file race it.
THEOREM AcknowledgementsSurvive == Spec => []AcknowledgedSurvives
<1>1. RInv => AcknowledgedSurvives
  BY DEF RInv, Files, AcknowledgedSurvives
<1> QED  BY <1>1, RegistrationIsKnown, PTL

\* Every client id that was handed out is the one on record.
THEOREM UploadsHaveOneClient == Spec => []OneClient
<1>1. RInv => OneClient
  BY DEF RInv, Files, OneClient
<1> QED  BY <1>1, RegistrationIsKnown, PTL

\* A home with munshi's hooks is on record, or one a re-registration or an
\* unregister that read too early let go of, wherever a process died.
THEOREM HooksAreOnRecord == Spec => []HooksOnRecord
<1>1. RInv => HooksOnRecord
  BY DEF RInv, Files, HooksOnRecord
<1> QED  BY <1>1, RegistrationIsKnown, PTL

\* settings.json keeps the entries of others.
THEOREM OthersAreKept == Spec => []OthersKept
<1>1. RInv => OthersKept
  BY DEF RInv, Files, OthersKept
<1> QED  BY <1>1, RegistrationIsKnown, PTL

\* A file of an older version takes effect once, and never goes before.
THEOREM LegacyTakesEffectOnce == Spec => []LegacyOnce
<1>1. RInv => LegacyOnce
  <2> SUFFICES ASSUME RInv, NEW k \in Legacy
               PROVE  /\ k # "result" => legacy[k].effects <= legacy[k].written
                      /\ ~legacy[k].present => legacy[k].effects >= legacy[k].written
    BY DEF LegacyOnce
  <2>1. legacy[k] \in LegacyFiles /\ Imports(k)
    BY DEF RInv, Types
  <2> QED  BY <2>1 DEF Imports, LegacyFiles
<1> QED  BY <1>1, RegistrationIsKnown, PTL

-----------------------------------------------------------------------------
(* The place of munshi's hook file, which others write without the lock.    *)

\* A process that acts on the place without another check, while a file of
\* others is there, was past its check when that file came.
Warned ==
  copilot = "foreign" =>
    \A p \in Processes : proc[p].pc \in Unchecked => p \in overtaken

\* What a step of the process p does to the place and to what was checked.
HookStep(p) ==
  /\ \A x \in Processes \ {p} : proc'[x] = proc[x]
  /\ proc'[p].pc \in Unchecked => copilot # "foreign"
  /\ overtaken' = overtaken /\ copilot' \in {copilot, "ours", "none"}
  /\ copilot = "foreign" /\ copilot' # "foreign" =>
       proc[p].pc \in Unchecked /\ proc'[p].pc \notin Unchecked

\* Where a process is after it went on, ended, or loaded the configuration.
LEMMA NextPlace ==
  ASSUME RInv, NEW p \in Processes, NEW q, Become(p, q)
  PROVE  proc'[p] = q /\ \A x \in Processes \ {p} : proc'[x] = proc[x]
BY Known DEF Types, Become

LEMMA GotoPlace ==
  ASSUME RInv, NEW p \in Processes, NEW pc, Goto(p, pc)
  PROVE  proc'[p].pc = pc /\ \A x \in Processes \ {p} : proc'[x] = proc[x]
<1>1. proc[p] \in Procs
  BY Known
<1>2. [proc[p] EXCEPT !.pc = pc].pc = pc
  BY <1>1 DEF Procs
<1> QED  BY <1>2, NextPlace DEF Goto

LEMMA ExitPlace ==
  ASSUME RInv, NEW p \in Processes, Exit(p)
  PROVE  proc'[p].pc = "idle" /\ \A x \in Processes \ {p} : proc'[x] = proc[x]
BY NextPlace, IdleIsNeutral DEF Exit

LEMMA LoadedPlace ==
  ASSUME RInv, NEW p \in Processes, NEW q \in Procs, NEW then \in {"idle", "update", "remove"},
         Become(p, Loaded(q, then))
  PROVE  /\ proc'[p].pc \in {"idle", "migrate", "update", "remove"}
         /\ \A x \in Processes \ {p} : proc'[x] = proc[x]
<1>1. Loaded(q, then).pc \in {"idle", "migrate", "update", "remove"}
  BY IdleIsNeutral DEF Loaded, Procs
<1> QED  BY <1>1, NextPlace

LEMMA EndsPlace ==
  ASSUME RInv, NEW p \in Processes, AfterInstall(p)
  PROVE  /\ proc'[p].pc \in {"idle", "claude"}
         /\ \A x \in Processes \ {p} : proc'[x] = proc[x]
BY ExitPlace, GotoPlace DEF AfterInstall

\* A process that writes no hook file and is after the step at none of the
\* places where it is about to.
LEMMA LeavesPlace ==
  ASSUME NEW p \in Processes, copilot' = copilot, overtaken' = overtaken,
         proc'[p].pc \notin Unchecked, \A x \in Processes \ {p} : proc'[x] = proc[x]
  PROVE  HookStep(p)
BY DEF HookStep

LEMMA BeginHook == ASSUME RInv, NEW p \in Processes, Begin(p) PROVE HookStep(p)
<1>1. PICK c \in Commands, h \in HomeSets, j \in Projects :
        Become(p, [Idle EXCEPT
            !.command = c, !.homes = h, !.project = j,
            !.pc = CASE c \in {"disable", "enable", "deliver"} -> "update"
                     [] c = "recover" -> "legacy"
                     [] OTHER -> c])
  BY Zenon DEF Begin
<1>2. PICK pc : /\ pc = CASE c \in {"disable", "enable", "deliver"} -> "update"
                          [] c = "recover" -> "legacy"
                          [] OTHER -> c
  OBVIOUS
<1>3. pc \notin Unchecked
  BY <1>2 DEF Commands, Unchecked
<1>4. [Idle EXCEPT !.command = c, !.homes = h, !.project = j, !.pc = pc].pc = pc
  BY DEF Idle
<1>5. /\ proc'[p].pc = pc /\ \A x \in Processes \ {p} : proc'[x] = proc[x]
  BY <1>1, <1>2, <1>4, NextPlace
<1> QED  BY <1>3, <1>5, LeavesPlace DEF Begin, hookVars

\* The commands that read and write config.json.
LEMMA ConfigHook ==
  ASSUME RInv, NEW p \in Processes,
         \/ Load(p) \/ MigrationLocks(p) \/ PersistMigrated(p)
         \/ EnsureClient(p) \/ UpdateLoads(p) \/ UpdateWrites(p)
  PROVE  HookStep(p)
<1> USE DEF hookVars, Unchecked
<1>1. proc[p] \in Procs
  BY Known
<1>2. CASE Load(p)
  BY <1>1, <1>2, LoadedPlace, LeavesPlace DEF Load
<1>3. CASE MigrationLocks(p)
  <2>1. CASE Become(p, Continued(proc[p]))
    <3>1. Continued(proc[p]).pc \in {"idle", "update", "remove"}
      BY <1>3, ContinuedFacts DEF MigrationLocks, At
    <3> QED  BY <1>3, <2>1, <3>1, NextPlace, LeavesPlace DEF MigrationLocks
  <2>2. CASE Become(p, [proc[p] EXCEPT !.pc = "persist", !.locked = TRUE, !.cfg = config])
    <3>1. [proc[p] EXCEPT !.pc = "persist", !.locked = TRUE, !.cfg = config].pc = "persist"
      BY <1>1 DEF Procs
    <3> QED  BY <1>3, <2>2, <3>1, NextPlace, LeavesPlace DEF MigrationLocks
  <2> QED  BY <1>3, <2>1, <2>2 DEF MigrationLocks
<1>4. CASE PersistMigrated(p)
  <2>1. Continued(proc[p]).pc \in {"idle", "update", "remove"}
    BY <1>4, ContinuedFacts DEF PersistMigrated, At
  <2> QED  BY <1>4, <2>1, NextPlace, LeavesPlace DEF PersistMigrated
<1>5. CASE EnsureClient(p)
  <2>1. [proc[p] EXCEPT !.client = count.commands] \in Procs
    BY <1>1, Known DEF Procs, Types
  <2>2. \/ Become(p, Loaded([proc[p] EXCEPT !.client = count.commands], "update"))
        \/ Become(p, Loaded(proc[p], "idle"))
    BY <1>5 DEF EnsureClient
  <2> QED  BY <1>1, <1>5, <2>1, <2>2, LoadedPlace, LeavesPlace DEF EnsureClient
<1>6. CASE UpdateLoads(p)
  <2>1. CASE Exit(p)
    BY <1>6, <2>1, ExitPlace, LeavesPlace DEF UpdateLoads
  <2>2. CASE Become(p, [proc[p] EXCEPT !.pc = "write", !.locked = TRUE, !.cfg = Parsed(config)])
    <3>1. [proc[p] EXCEPT !.pc = "write", !.locked = TRUE, !.cfg = Parsed(config)].pc = "write"
      BY <1>1 DEF Procs
    <3> QED  BY <1>6, <2>2, <3>1, NextPlace, LeavesPlace DEF UpdateLoads
  <2> QED  BY <1>6, <2>1, <2>2 DEF UpdateLoads
<1>7. CASE UpdateWrites(p)
  BY <1>7, ExitPlace, LeavesPlace DEF UpdateWrites
<1> QED  BY <1>2, <1>3, <1>4, <1>5, <1>6, <1>7

\* register: only the steps after a check write munshi's hook file.
LEMMA RegisterHook ==
  ASSUME RInv, NEW p \in Processes,
         \/ RegisterCommits(p) \/ InstallCopilot(p) \/ PlaceCopilot(p) \/ ReplaceCopilot(p)
         \/ ReadSettings(p) \/ WriteSettings(p)
  PROVE  HookStep(p)
<1> USE DEF hookVars, Unchecked
<1>1. proc[p] \in Procs
  BY Known
<1>2. CASE RegisterCommits(p)
  <2>1. CASE Exit(p)
    BY <1>2, <2>1, ExitPlace, LeavesPlace DEF RegisterCommits
  <2>2. CASE Locks(p, "legacy")
    <3>1. [proc[p] EXCEPT !.pc = "legacy", !.locked = TRUE].pc = "legacy"
      BY <1>1 DEF Procs
    <3> QED  BY <1>2, <2>2, <3>1, NextPlace, LeavesPlace DEF RegisterCommits, Locks
  <2> QED  BY <1>2, <2>1, <2>2 DEF RegisterCommits
<1>3. CASE InstallCopilot(p)
  <2>1. CASE Exit(p)
    BY <1>3, <2>1, ExitPlace, LeavesPlace DEF InstallCopilot
  <2>2. CASE AfterInstall(p)
    BY <1>3, <2>2, EndsPlace, LeavesPlace DEF InstallCopilot
  <2>3. CASE Goto(p, "place")
    BY <1>3, <2>3, GotoPlace, LeavesPlace DEF InstallCopilot
  <2>4. CASE copilot = "ours" /\ Goto(p, "replace")
    BY <1>3, <2>4, GotoPlace DEF InstallCopilot, HookStep
  <2> QED  BY <1>3, <2>1, <2>2, <2>3, <2>4 DEF InstallCopilot
<1>4. CASE PlaceCopilot(p)
  <2>1. CASE Exit(p) /\ UNCHANGED copilot
    BY <1>4, <2>1, ExitPlace, LeavesPlace DEF PlaceCopilot
  <2>2. CASE copilot = "none" /\ AfterInstall(p) /\ copilot' = "ours"
    BY <1>4, <2>2, EndsPlace DEF PlaceCopilot, HookStep
  <2> QED  BY <1>4, <2>1, <2>2 DEF PlaceCopilot, Occupied
<1>5. CASE ReplaceCopilot(p)
  BY <1>5, EndsPlace DEF ReplaceCopilot, At, HookStep
<1>6. CASE ReadSettings(p)
  <2> DEFINE file == settings[proc[p].homes.claude]
  <2>1. CASE Exit(p)
    BY <1>6, <2>1, ExitPlace, LeavesPlace DEF ReadSettings
  <2>2. CASE Become(p, [proc[p] EXCEPT !.pc = "settings", !.read = file])
    <3>1. [proc[p] EXCEPT !.pc = "settings", !.read = file].pc = "settings"
      BY <1>1 DEF Procs
    <3> QED  BY <1>6, <2>2, <3>1, NextPlace, LeavesPlace DEF ReadSettings
  <2> QED  BY <1>6, <2>1, <2>2 DEF ReadSettings
<1>7. CASE WriteSettings(p)
  BY <1>7, ExitPlace, LeavesPlace DEF WriteSettings
<1> QED  BY <1>2, <1>3, <1>4, <1>5, <1>6, <1>7

\* unregister: only the step after the check unlinks munshi's hook file.
LEMMA UnregisterHook ==
  ASSUME RInv, NEW p \in Processes,
         \/ UnregisterReads(p) \/ UnregisterLocks(p) \/ RemoveCopilot(p) \/ UnlinkCopilot(p)
         \/ ReadToRemove(p) \/ WriteRemoved(p) \/ RemoveConfig(p)
  PROVE  HookStep(p)
<1> USE DEF hookVars, Unchecked
<1>1. proc[p] \in Procs
  BY Known
<1>2. CASE UnregisterReads(p)
  <2> DEFINE homes == IF Registered THEN config.homes ELSE [NoHomes EXCEPT !.copilot = TRUE]
             hook  == homes.copilot /\ copilot # "none"
             q     == [proc[p] EXCEPT !.homes = homes, !.hook = hook, !.found = Registered]
  <2>1. Exit(p) \/ Become(p, Loaded(q, "remove"))
    BY <1>2 DEF UnregisterReads
  <2>2. Loaded(q, "remove").pc \in {"migrate", "remove"}
    BY <1>1 DEF Loaded, Procs
  <2> QED  BY <1>2, <2>1, <2>2, ExitPlace, NextPlace, LeavesPlace DEF UnregisterReads
<1>3. CASE UnregisterLocks(p)
  <2>1. CASE Exit(p)
    BY <1>3, <2>1, ExitPlace, LeavesPlace DEF UnregisterLocks
  <2>2. CASE Locks(p, "unhook")
    <3>1. [proc[p] EXCEPT !.pc = "unhook", !.locked = TRUE].pc = "unhook"
      BY <1>1 DEF Procs
    <3> QED  BY <1>3, <2>2, <3>1, NextPlace, LeavesPlace DEF UnregisterLocks, Locks
  <2> QED  BY <1>3, <2>1, <2>2 DEF UnregisterLocks
<1>4. CASE RemoveCopilot(p)
  <2>1. CASE Exit(p)
    BY <1>4, <2>1, ExitPlace, LeavesPlace DEF RemoveCopilot
  <2>2. CASE Goto(p, "unclaude")
    BY <1>4, <2>2, GotoPlace, LeavesPlace DEF RemoveCopilot
  <2>3. CASE copilot # "foreign" /\ Goto(p, "unlink")
    BY <1>4, <2>3, GotoPlace DEF RemoveCopilot, HookStep
  <2> QED  BY <1>4, <2>1, <2>2, <2>3 DEF RemoveCopilot, AfterCopilot
<1>5. CASE UnlinkCopilot(p)
  BY <1>5, GotoPlace DEF UnlinkCopilot, At, HookStep, AfterCopilot
<1>6. CASE ReadToRemove(p)
  <2> DEFINE home == proc[p].homes.claude
  <2>1. CASE Exit(p)
    BY <1>6, <2>1, ExitPlace, LeavesPlace DEF ReadToRemove
  <2>2. CASE Goto(p, "unconfig")
    BY <1>6, <2>2, GotoPlace, LeavesPlace DEF ReadToRemove
  <2>3. CASE Become(p, [proc[p] EXCEPT !.pc = "unsettle", !.read = settings[home]])
    <3>1. [proc[p] EXCEPT !.pc = "unsettle", !.read = settings[home]].pc = "unsettle"
      BY <1>1 DEF Procs
    <3> QED  BY <1>6, <2>3, <3>1, NextPlace, LeavesPlace DEF ReadToRemove
  <2> QED  BY <1>6, <2>1, <2>2, <2>3 DEF ReadToRemove
<1>7. CASE WriteRemoved(p)
  BY <1>7, GotoPlace, LeavesPlace DEF WriteRemoved
<1>8. CASE RemoveConfig(p)
  BY <1>8, ExitPlace, LeavesPlace DEF RemoveConfig
<1> QED  BY <1>2, <1>3, <1>4, <1>5, <1>6, <1>7, <1>8

\* The import of the files of older versions is nowhere near the hook file.
LEMMA LegacyHook ==
  ASSUME RInv, NEW p \in Processes,
         \/ LegacyBegins(p)
         \/ \E kind \in LegacyKinds : ImportLegacy(p, kind) \/ RemoveLegacy(p, kind)
  PROVE  HookStep(p)
<1>1. copilot' = copilot /\ overtaken' = overtaken
  BY DEF LegacyBegins, ImportLegacy, RemoveLegacy, hookVars
<1>2. Exit(p) \/ \E pc \in Importing \cup {"copilot"} : Goto(p, pc)
  BY DEF LegacyBegins, ImportLegacy, RemoveLegacy, LegacyNext, AfterLegacy, Following,
         Importing, LegacyKinds
<1>3. \A pc \in Importing \cup {"copilot"} : pc \notin Unchecked
  BY DEF Importing, Unchecked
<1>4. CASE Exit(p)
  BY <1>1, <1>4, ExitPlace, LeavesPlace DEF Unchecked
<1>5. ASSUME NEW pc \in Importing \cup {"copilot"}, Goto(p, pc) PROVE HookStep(p)
  BY <1>1, <1>3, <1>5, GotoPlace, LeavesPlace
<1> QED  BY <1>2, <1>4, <1>5

LEMMA MunshiHook == ASSUME RInv, NEW p \in Processes, Munshi(p) PROVE HookStep(p)
<1>1. CASE ProcessDies(p)
  BY <1>1, ExitPlace, LeavesPlace DEF ProcessDies, hookVars, Unchecked
<1> QED  BY <1>1, BeginHook, ConfigHook, RegisterHook, UnregisterHook, LegacyHook DEF Munshi

\* Only others put a file of theirs in the place, and they overtake whoever is
\* about to act on it.
LEMMA StepWarned == RInv /\ Warned /\ [Next]_vars => Warned'
<1> SUFFICES ASSUME RInv, Warned, [Next]_vars PROVE Warned'
  OBVIOUS
<1>1. ASSUME NEW p \in Processes, Munshi(p) PROVE Warned'
  BY <1>1, MunshiHook DEF HookStep, Warned
<1>2. CASE EditCopilot
  BY <1>2 DEF EditCopilot, Warned
<1>3. CASE (\E h \in ClaudeHomes : EditSettings(h)) \/ (\E k \in Legacy : LegacyWrites(k))
  BY <1>3 DEF EditSettings, LegacyWrites, hookVars, Warned
<1>4. CASE UNCHANGED vars
  BY <1>4 DEF vars, Warned
<1> QED  BY <1>1, <1>2, <1>3, <1>4 DEF Next

\* A file of others at the place of munshi's hook file is lost only to a
\* process that was past its check of the place when the file came.
THEOREM ForeignFilesAreKept == Spec => ForeignKept
<1>1. Init => Warned
  BY IdleIsNeutral DEF Init, Warned, Unchecked
<1>2. RInv /\ Warned /\ [Next]_vars =>
        [copilot = "foreign" /\ copilot' # "foreign" /\ proc' # proc =>
           \E p \in overtaken : proc[p].pc \in Unchecked /\ proc'[p] # proc[p]]_vars
  <2> SUFFICES ASSUME RInv, Warned, Next, copilot = "foreign", copilot' # "foreign",
                      proc' # proc
               PROVE  \E p \in overtaken : proc[p].pc \in Unchecked /\ proc'[p] # proc[p]
    BY DEF vars
  <2>1. PICK p \in Processes : Munshi(p)
    BY DEF Next, EditCopilot, EditSettings, LegacyWrites
  <2>2. proc[p].pc \in Unchecked /\ proc'[p].pc \notin Unchecked
    BY <2>1, MunshiHook DEF HookStep
  <2> QED  BY <2>2 DEF Warned
<1>3. Spec => [](RInv /\ Warned)
  <2>1. RInv /\ Warned /\ [Next]_vars => (RInv /\ Warned)'
    BY StepRInv, StepWarned
  <2> QED  BY <1>1, <2>1, InitRInv, PTL DEF Spec
<1> QED  BY <1>2, <1>3, PTL DEF Spec, ForeignKept
=============================================================================
