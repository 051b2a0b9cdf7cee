------------------------------ MODULE ManagedIntegration ------------------------------
(***************************************************************************)
(* The managed installation (src/src/integration): commands that install,     *)
(* repair, upgrade, uninstall and adopt MemStore's entries in files the owner *)
(* and Codex also write, and the cutover that turns the native memory of      *)
(* Codex off and the injection of MemStore on, with its rollback. A command   *)
(* plans from what it reads, executes its steps in order and may die between  *)
(* any two. Nothing locks the files: the owner and Codex write them at any    *)
(* time. Commands are run by hand, one at a time.                            *)
(***************************************************************************)
EXTENDS Integers, Sequences

CONSTANTS
    MaxEdits,      \* bound: edits of the owner
    MaxCutovers,   \* bound: cutovers and adoptions
    MaxFaults      \* bound: commands that die, and writes that fail after the rename

ASSUME IntegrationAssumption ==
    MaxEdits \in Nat /\ MaxCutovers \in Nat /\ MaxFaults \in Nat

VARIABLES
    files,      \* config.toml, hooks.json, and an owned file (the command line tool)
    recipe,     \* the owned file as the program at hand would write it
    manifest,   \* ownership-manifest.json: what was there, what is expected, the backups
    cutovers,   \* the manifests under cutover/, oldest first
    command,    \* the command that runs and the steps it has left
    edited,     \* history: files others changed since the command read them
    faults      \* how many there were

integrationVars == <<files, recipe, manifest, cutovers, command, edited, faults>>

Files == {"config", "hooks", "cli"}
Recipes == {"first", "second"}

\* A file by what MemStore put into it and what others did: the text of the owner, the
\* native-memory settings, and the trusted hashes Codex keeps about hooks.
Contents == [own: {"absent", "none", "mcp", "shadow", "active"} \cup Recipes,
             text: 0..MaxEdits, native: BOOLEAN, trust: BOOLEAN]

Plain(own) == [own |-> own, text |-> 0, native |-> FALSE, trust |-> FALSE]
Absent == Plain("absent")
Nowhere == [f \in Files |-> Absent]

NotInstalled == [state |-> "none", before |-> Nowhere, post |-> Nowhere, backup |-> Nowhere]
NoCutover == [state |-> "none", source |-> Nowhere, target |-> Nowhere]

\* A step copies a file to its backup, writes a file if it is still "expect" (Anything
\* where no digest is passed), undoes such a write, looks at a file again, or records.
Anything == Plain("any")
FileStep(do, f, expect, new) == [do |-> do, file |-> f, expect |-> expect, new |-> new]
Note(state) == FileStep(state, "config", Anything, Anything)
Notes == {"installed", "uninstalled", "prepared", "adopted", "active", "rolled_back"}
Steps == [do: {"copy", "write", "undo", "look"} \cup Notes, file: Files,
          expect: Contents \cup {Anything}, new: Contents \cup {Anything}]

NoCommand == [kind |-> "none", todo |-> <<>>, compared |-> FALSE,
              plan |-> NotInstalled, cut |-> NoCutover, at |-> 0]

Manifests(states) == [state: states, before: [Files -> Contents], post: [Files -> Contents],
                      backup: [Files -> Contents]]
Cutovers == [state: {"none", "prepared", "active", "rolled_back"},
             source: [Files -> Contents], target: [Files -> Contents]]

IntegrationTypeOK ==
    /\ files \in [Files -> Contents]
    /\ recipe \in Recipes
    /\ manifest \in Manifests({"none", "installed", "uninstalled"})
    /\ \A k \in DOMAIN cutovers : cutovers[k] \in Cutovers /\ cutovers[k].state # "none"
    /\ command.kind \in {"none", "install", "repair", "upgrade", "uninstall", "adopt",
                         "cutover", "undo", "rollback"}
    /\ \A i \in DOMAIN command.todo : command.todo[i] \in Steps
    /\ command.plan \in Manifests({"none", "installed", "uninstalled"})
    /\ command.cut \in Cutovers
    /\ command.at \in 0..MaxCutovers
    /\ edited \subseteq Files
    /\ faults \in 0..MaxFaults

IntegrationInit ==
    /\ files \in {[config |-> [Plain("none") EXCEPT !.native = native],
                   hooks |-> hooks, cli |-> Absent] :
                  native \in BOOLEAN, hooks \in {Absent, Plain("none")}}
    /\ recipe = "first"
    /\ manifest = NotInstalled
    /\ cutovers = <<>>
    /\ command = NoCommand
    /\ edited = {}
    /\ faults = 0

-----------------------------------------------------------------------------
(* What a command plans                                                    *)

\* A step that is part of the list only on a condition.
When(needed, step) == IF needed THEN <<step>> ELSE <<>>

Starts(kind, todo, plan, cut, at) ==
    /\ command = NoCommand
    /\ command' = [kind |-> kind, todo |-> todo, compared |-> FALSE,
                   plan |-> plan, cut |-> cut, at |-> at]
    /\ UNCHANGED <<files, recipe, manifest, cutovers, edited, faults>>

\* applyTarget: config and hooks are compared with what was there, if they were.
Write(f, before, new) ==
    FileStep("write", f, IF f = "cli" \/ before = Absent THEN Anything ELSE before, new)

Installed(f) == [files[f] EXCEPT !.own = CASE f = "config" -> "mcp"
                                           [] f = "hooks" -> "shadow"
                                           [] f = "cli" -> recipe]

InstallSteps(f) ==
    When(files[f] # Absent, FileStep("copy", f, Anything, Anything))
        \o <<Write(f, files[f], Installed(f)), FileStep("look", f, Anything, Installed(f))>>

\* Only files without entries of MemStore can be installed to; the manifest comes last.
Install ==
    /\ files["config"].own = "none"
    /\ files["hooks"].own \in {"absent", "none"}
    /\ files["cli"] = Absent
    /\ Starts("install",
              InstallSteps("config") \o InstallSteps("hooks") \o InstallSteps("cli")
                  \o <<Note("installed")>>,
              [state |-> "installed", before |-> files, backup |-> Nowhere,
               post |-> [f \in Files |-> Installed(f)]], NoCutover, 0)

Desired(f) == IF f = "cli" THEN Plain(recipe) ELSE manifest.post[f]

\* Files that are as expected or as they were before the installation can be repaired.
Repair(chosen) ==
    LET write(f) == When(f \in chosen /\ files[f] # Desired(f),
                         Write(f, manifest.before[f], Desired(f)))
        look(f) == When(f \in chosen, FileStep("look", f, Anything, Desired(f)))
        updated == [manifest EXCEPT !.post = [f \in Files |-> IF f \in chosen THEN Desired(f)
                                                                              ELSE @[f]]]
    IN /\ manifest.state = "installed"
       /\ \A f \in chosen : files[f] \in {manifest.post[f], manifest.before[f]}
       /\ Starts("repair",
                 write("config") \o write("hooks") \o write("cli")
                     \o look("config") \o look("hooks") \o look("cli")
                     \o When(updated # manifest, Note("installed")),
                 updated, NoCutover, 0)

\* A new recipe replaces the owned file if that is as the manifest expects.
Upgrade ==
    /\ manifest.state = "installed"
    /\ Desired("cli") # manifest.post["cli"]
    /\ files["cli"] = manifest.post["cli"]
    /\ Starts("upgrade",
              <<Write("cli", files["cli"], Desired("cli")),
                FileStep("look", "cli", Anything, Desired("cli")), Note("installed")>>,
              [manifest EXCEPT !.post["cli"] = Desired("cli")], NoCutover, 0)

\* preflightTargets at the start, then each file without another look. Nothing reads the
\* targets of a manifest that is uninstalled, nor of a cutover rolled back.
Restored(f) ==
    FileStep("write", f, Anything,
         IF manifest.before[f] = Absent THEN Absent ELSE manifest.backup[f])

\* Faulty: the files are not looked at first.
UninstallAnyway ==
    /\ manifest.state = "installed"
    /\ Starts("uninstall",
              <<Restored("cli"), Restored("hooks"), Restored("config"), Note("uninstalled")>>,
              [NotInstalled EXCEPT !.state = "uninstalled"], NoCutover, 0)

Uninstall ==
    /\ manifest.state = "installed"
    /\ \A f \in Files : files[f] = manifest.post[f]
    /\ Starts("uninstall",
              <<Restored("cli"), Restored("hooks"), Restored("config"), Note("uninstalled")>>,
              [NotInstalled EXCEPT !.state = "uninstalled"], NoCutover, 0)

\* setup finds cutovers, but none that matches the files.
NoneMatches ==
    LET active == {k \in DOMAIN cutovers : cutovers[k].state = "active"}
    IN /\ active # {}
       /\ \A k \in active : \E f \in {"config", "hooks"} : files[f] # cutovers[k].target[f]

\* The files without MemStore's entries, and with those of an installation.
WithoutEntries == [f \in Files |-> IF f = "cli" THEN manifest.before[f]
                                  ELSE [files[f] EXCEPT !.own = "none"]]
AsShadow == [files EXCEPT !["hooks"].own = "shadow"]

\* What is active in exactly the current form becomes the expected state, with backups.
Adopt ==
    /\ Len(cutovers) < MaxCutovers
    /\ manifest.state = "installed"
    /\ NoneMatches
    /\ files["cli"] = manifest.post["cli"]
    /\ files # manifest.post
    /\ files["config"].own = "mcp" /\ ~files["config"].native
    /\ files["hooks"].own = "active"
    /\ Starts("adopt", <<Note("installed"), Note("adopted")>>,
              [manifest EXCEPT !.before = WithoutEntries, !.post = AsShadow,
                               !.backup = WithoutEntries],
              [state |-> "active", source |-> AsShadow, target |-> files],
              Len(cutovers) + 1)

\* replaceMemorySetting, activateInjectionHooks
CutoverTarget == [files EXCEPT !["config"].native = FALSE, !["hooks"].own = "active"]

\* Native memory goes off before injection goes on.
Cutover ==
    LET write(f) == Write(f, files[f], CutoverTarget[f])
    IN /\ Len(cutovers) < MaxCutovers
       /\ files["hooks"].own = "shadow"
       /\ Starts("cutover",
                 <<Note("prepared")>>
                     \o When(CutoverTarget["config"] # files["config"], write("config"))
                     \o <<write("hooks"), Note("active")>>,
                 NotInstalled, [state |-> "prepared", source |-> files,
                                target |-> CutoverTarget],
                 Len(cutovers) + 1)

\* configIdentityWithoutHookTrustHashes
Untrusted(c) == [c EXCEPT !.trust = FALSE]

\* Injection goes off before native memory goes on; trusted hashes stay as they are.
Rollback(k) ==
    LET c == cutovers[k]
        config == [files["config"] EXCEPT !.native = c.source["config"].native]
    IN /\ c.state # "rolled_back"
       /\ files["hooks"] = c.target["hooks"]
       /\ Untrusted(files["config"]) = Untrusted(c.target["config"])
       /\ Untrusted(config) = Untrusted(c.source["config"])
       /\ Starts("rollback",
                 <<Write("hooks", files["hooks"], c.source["hooks"])>>
                     \o When(config # files["config"],
                             Write("config", files["config"], config))
                     \o <<Note("rolled_back")>>,
                 NotInstalled, c, k)

-----------------------------------------------------------------------------
(* How it executes                                                         *)

Doing(do) == command.todo # <<>> /\ Head(command.todo).do = do

\* The command goes on with the steps left.
GoesOn(c, todo) ==
    /\ command' = IF todo = <<>> THEN NoCommand
                  ELSE [c EXCEPT !.todo = todo, !.compared = FALSE]
    /\ edited' = IF todo = <<>> THEN {} ELSE edited

\* An error ends it; that of a cutover puts back first what it has written.
Undone ==
    LET undo(f) == FileStep("undo", f, command.cut.target[f], command.cut.source[f])
    IN <<undo("hooks")>>
           \o When(command.cut.target["config"] # command.cut.source["config"], undo("config"))

Throws ==
    IF command.kind = "cutover" /\ Doing("write")
    THEN GoesOn([command EXCEPT !.kind = "undo"], Undone)
    ELSE GoesOn(command, <<>>)

Faulty == faults < MaxFaults /\ faults' = faults + 1

CopyBackup ==
    LET f == Head(command.todo).file
    IN /\ Doing("copy")
       /\ GoesOn([command EXCEPT !.plan.backup[f] = files[f]], Tail(command.todo))
       /\ UNCHANGED <<files, recipe, manifest, cutovers, faults>>

\* writeFileAtomically: the digest of what is there, if one is expected.
CompareDigest ==
    LET step == Head(command.todo)
    IN /\ Doing("write") /\ ~command.compared
       /\ IF step.expect \in {Anything, files[step.file]}
          THEN command' = [command EXCEPT !.compared = TRUE] /\ UNCHANGED edited
          ELSE Throws
       /\ UNCHANGED <<files, recipe, manifest, cutovers, faults>>

\* The rename, after which the directory may fail to synchronise.
RenameFile ==
    /\ Doing("write") /\ command.compared
    /\ files' = [files EXCEPT ![Head(command.todo).file] = Head(command.todo).new]
    /\ \/ GoesOn(command, Tail(command.todo)) /\ UNCHANGED faults
       \/ Throws /\ Faulty
    /\ UNCHANGED <<recipe, manifest, cutovers>>

\* A file that was not written yet, or was changed since, is not put back.
UndoWrite ==
    LET step == Head(command.todo)
    IN /\ Doing("undo")
       /\ GoesOn(command, IF files[step.file] = step.expect
                          THEN <<[step EXCEPT !.do = "write"]>> \o Tail(command.todo)
                          ELSE Tail(command.todo))
       /\ UNCHANGED <<files, recipe, manifest, cutovers, faults>>

LookAgain ==
    LET step == Head(command.todo)
    IN /\ Doing("look")
       /\ IF files[step.file] = step.new THEN GoesOn(command, Tail(command.todo)) ELSE Throws
       /\ UNCHANGED <<files, recipe, manifest, cutovers, faults>>

WriteManifest ==
    /\ Doing("installed") \/ Doing("uninstalled")
    /\ manifest' = command.plan
    /\ GoesOn(command, Tail(command.todo))
    /\ UNCHANGED <<files, recipe, cutovers, faults>>

WriteCutover ==
    /\ \/ /\ Doing("prepared") \/ Doing("adopted")
          /\ cutovers' = Append(cutovers, command.cut)
       \/ /\ Doing("active")
          /\ cutovers' = [cutovers EXCEPT ![command.at].state = "active"]
       \/ /\ Doing("rolled_back")
          /\ cutovers' = [cutovers EXCEPT ![command.at] = [NoCutover EXCEPT !.state = "rolled_back"]]
    /\ GoesOn(command, Tail(command.todo))
    /\ UNCHANGED <<files, recipe, manifest, faults>>

CommandDies ==
    /\ command # NoCommand
    /\ GoesOn(command, <<>>)
    /\ Faulty
    /\ UNCHANGED <<files, recipe, manifest, cutovers>>

-----------------------------------------------------------------------------
(* The others                                                              *)

Changed(f, content) ==
    /\ files' = [files EXCEPT ![f] = content]
    /\ edited' = IF command = NoCommand THEN edited ELSE edited \cup {f}
    /\ UNCHANGED <<recipe, manifest, cutovers, command, faults>>

OwnerEdits(f) ==
    /\ files["config"].text + files["hooks"].text + files["cli"].text < MaxEdits
    /\ f = "cli" => files[f] # Absent
    /\ Changed(f, [files[f] EXCEPT !.text = @ + 1, !.own = IF @ = "absent" THEN "none" ELSE @])

CodexTrustsHooks ==
    /\ ~files["config"].trust
    /\ Changed("config", [files["config"] EXCEPT !.trust = TRUE])

ProgramChanges ==
    /\ command = NoCommand
    /\ recipe = "first" /\ recipe' = "second"
    /\ UNCHANGED <<files, manifest, cutovers, command, edited, faults>>

IntegrationNext ==
    \/ Install \/ Upgrade \/ Uninstall \/ Adopt \/ Cutover
    \/ \E chosen \in (SUBSET Files) \ {{}} : Repair(chosen)
    \/ \E k \in DOMAIN cutovers : Rollback(k)
    \/ CopyBackup \/ CompareDigest \/ RenameFile \/ UndoWrite \/ LookAgain
    \/ WriteManifest \/ WriteCutover \/ CommandDies
    \/ \E f \in Files : OwnerEdits(f)
    \/ CodexTrustsHooks \/ ProgramChanges

IntegrationSpec == IntegrationInit /\ [][IntegrationNext]_integrationVars

-----------------------------------------------------------------------------
(***************************************************************************)
(* What others wrote into a file before a command read it survives every    *)
(* step of the command, however old the backup or plan it writes from and    *)
(* wherever earlier commands died (SPEC.md:624: uninstall does not delete    *)
(* modified files; SPEC.md:887: trusted hashes are preserved).             *)
(***************************************************************************)
OthersTextKept ==
    [][\A f \in Files \ edited : /\ files'[f].text >= files[f].text
                                 /\ files[f].trust => files'[f].trust]_integrationVars

(***************************************************************************)
(* A finished rollback has restored the hooks and native-memory settings of  *)
(* before its own cutover, also after others were applied or died half way   *)
(* (SPEC.md:887).                                                          *)
(***************************************************************************)
RollbackRestores ==
    [][\A k \in DOMAIN cutovers :
         cutovers[k].state # "rolled_back" /\ cutovers'[k].state = "rolled_back" =>
           /\ "hooks" \notin edited => files["hooks"] = cutovers[k].source["hooks"]
           /\ "config" \notin edited =>
                Untrusted(files["config"]) = Untrusted(cutovers[k].source["config"])
      ]_integrationVars

(***************************************************************************)
(* A finished uninstall leaves every file as it was before the installation  *)
(* or adoption it undoes, through repairs, upgrades, cutovers and crashes.   *)
(***************************************************************************)
UninstallRestores ==
    [][manifest.state = "installed" /\ manifest'.state = "uninstalled" =>
         \A f \in Files \ edited : files[f] = manifest.before[f]]_integrationVars

(***************************************************************************)
(* No step makes Codex use its native memory and injected memory at once,    *)
(* whatever fails or dies, unless the owner edits the hooks meanwhile        *)
(* (SPEC.md:871: no dual phase).                                           *)
(***************************************************************************)
Dual == files["hooks"].own = "active" /\ files["config"].native
NeverBoth == [][Dual' => Dual \/ "hooks" \in edited]_integrationVars

IntegrationKept == OthersTextKept /\ RollbackRestores /\ UninstallRestores /\ NeverBoth
=============================================================================
