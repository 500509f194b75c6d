----------------------------- MODULE HermesSetup -----------------------------
(***************************************************************************)
(* daimon-hermes setup and uninstall (integrations/hermes, cli.py): the    *)
(* files they write under HERMES_HOME, one step per file operation.        *)
(*                                                                         *)
(* A command may be killed between any two steps and run again, with other *)
(* arguments; the user edits .env whenever they like.  Commands do not run *)
(* beside each other, and nobody else writes the plugin's directory.       *)
(* _atomic_write is one step, since only its os.replace is seen; the copy  *)
(* that makes the backup (shutil.copyfile) is not atomic and is two.       *)
(*                                                                         *)
(* A file of lines is a set of lines.  A missing .env is an empty one, as  *)
(* the code treats them alike.  _write_env compares the text before "="    *)
(* literally: the key lines are those that begin with KEY=, and a line of  *)
(* the user's that a shell or a loader would take for the key in another   *)
(* spelling (export KEY=, KEY =, an indented one) is one of OtherLine.     *)
(***************************************************************************)
CONSTANTS
    Key,        \* DAIMON_ENDPOINT, DAIMON_TENANT, DAIMON_NAMESPACE
    ApiKey,     \* DAIMON_API_KEY, written only if one is given
    OtherLine   \* lines of .env that _write_env takes for no DAIMON_ key

ASSUME ApiKeyAssumption == ApiKey \notin Key

VARIABLES
    dir,          \* is there a directory plugins/daimon?
    shim,         \* plugins/daimon/__init__.py
    manifest,     \* plugins/daimon/plugin.yaml
    env,          \* .env
    backedUp,     \* is there a file .env.bak-daimon?
    backup,       \* its lines
    provider,     \* memory.provider in Hermes's configuration
    step,         \* where the command is
    run,          \* its arguments, and whether its questions are answered yes
    raw,          \* .env as _write_env has read it
    touched,      \* history: has the user edited .env since it was read?
    ranOnEmpty    \* history: has a setup found nothing to back up?

pluginVars == <<dir, shim, manifest>>
backupVars == <<backedUp, backup>>
fileVars == <<pluginVars, env, backupVars, provider>>
histories == <<touched, ranOnEmpty>>
vars == <<fileVars, step, run, raw, histories>>

AnyKey == Key \cup {ApiKey}

\* A line that sets key k, as the user or as a setup wrote it.
KeyLine(k, by) == <<k, by>>
SetupLine == {KeyLine(k, "setup") : k \in AnyKey}
UserLine == {KeyLine(k, "user") : k \in AnyKey} \cup OtherLine
Line == SetupLine \cup UserLine

ASSUME OtherLineAssumption == OtherLine \cap (AnyKey \X {"user", "setup"}) = {}
Sets(lines, k) == {KeyLine(k, "user"), KeyLine(k, "setup")} \cap lines
Present(lines) == {k \in AnyKey : Sets(lines, k) # {}}

Run == [keys : {Key, AnyKey}, consent : BOOLEAN, activate : BOOLEAN]
NoRun == [keys |-> Key, consent |-> FALSE, activate |-> FALSE]

SetupTypeOK ==
    /\ dir \in BOOLEAN
    /\ shim \in {"none", "managed", "foreign"}
    /\ manifest \in {"none", "ours", "foreign"}
    /\ (shim # "none" \/ manifest # "none") => dir
    /\ env \subseteq Line /\ raw \subseteq Line
    /\ backedUp \in BOOLEAN /\ backup \subseteq Line
    /\ provider \in {"other", "daimon"}
    /\ step \in {"idle", "dir", "shim", "manifest", "backup", "copy", "read",
                 "replace", "activate", "done", "remove"}
    /\ run \in Run
    /\ touched \in BOOLEAN /\ ranOnEmpty \in BOOLEAN

OneLinePerKey ==
    \A k \in AnyKey : ~(Sets(env, k) = {KeyLine(k, "user"), KeyLine(k, "setup")})

Init ==
    /\ shim \in {"none", "foreign"} /\ manifest \in {"none", "foreign"}
    /\ dir \in BOOLEAN /\ ((shim # "none" \/ manifest # "none") => dir)
    /\ env \in SUBSET UserLine
    /\ backedUp = FALSE /\ backup = {} /\ provider = "other"
    /\ step = "idle" /\ raw = {}
    /\ run = NoRun
    /\ touched = FALSE /\ ranOnEmpty = FALSE

Goto(from, to) == step = from /\ step' = to

\* The process that ran the command is gone, and its memory with it.
Exit ==
    /\ step' = "idle"
    /\ run' = NoRun
    /\ raw' = {} /\ touched' = FALSE
    /\ UNCHANGED ranOnEmpty

-----------------------------------------------------------------------------
\* do_setup has its answers.
BeginSetup(args) ==
    /\ Goto("idle", "dir")
    /\ run' = args
    /\ UNCHANGED <<fileVars, raw, histories>>

\* os.makedirs.
MakeDir ==
    /\ Goto("dir", "shim")
    /\ dir' = TRUE
    /\ UNCHANGED <<shim, manifest, env, backupVars, provider, run, raw, histories>>

\* MUTANT of WriteShim: a shim with the marker is taken for a whole installation.
WriteShim_IsInstalled ==
    /\ step = "shim" /\ step' = IF shim = "managed" THEN "backup" ELSE "manifest"
    /\ shim # "foreign" \/ run.consent
    /\ shim' = "managed"
    /\ UNCHANGED <<dir, manifest, env, backupVars, provider, run, raw, histories>>

\* A shim without the marker is overwritten only with consent.
WriteShim ==
    /\ Goto("shim", "manifest")
    /\ shim # "foreign" \/ run.consent
    /\ shim' = "managed"
    /\ UNCHANGED <<dir, manifest, env, backupVars, provider, run, raw, histories>>

RefuseSetup ==
    /\ step = "shim" /\ shim = "foreign" /\ ~run.consent
    /\ Exit
    /\ UNCHANGED fileVars

\* plugin.yaml is written over whatever is there, ours or not, unasked.
WriteManifest ==
    /\ Goto("manifest", "backup")
    /\ manifest' = "ours"
    /\ UNCHANGED <<dir, shim, env, backupVars, provider, run, raw, histories>>

\* The backup is made once, of a file that holds something.
SkipBackup ==
    /\ Goto("backup", "read")
    /\ env = {} \/ backedUp
    /\ ranOnEmpty' = (ranOnEmpty \/ ~backedUp)
    /\ UNCHANGED <<fileVars, run, raw, touched>>

\* MUTANT of BeginCopy: every setup makes a new backup.
BeginCopy_EveryTime ==
    /\ Goto("backup", "copy")
    /\ env # {}
    /\ backedUp' = TRUE /\ backup' = {}
    /\ UNCHANGED <<pluginVars, env, provider, run, raw, histories>>

\* shutil.copyfile creates the file, then fills it.
BeginCopy ==
    /\ Goto("backup", "copy")
    /\ env # {} /\ ~backedUp
    /\ backedUp' = TRUE /\ backup' = {}
    /\ UNCHANGED <<pluginVars, env, provider, run, raw, histories>>

EndCopy ==
    /\ Goto("copy", "read")
    /\ backup' = env
    /\ UNCHANGED <<pluginVars, backedUp, env, provider, run, raw, histories>>

\* _write_env reads the file.
ReadEnv ==
    /\ Goto("read", "replace")
    /\ raw' = env
    /\ touched' = FALSE
    /\ UNCHANGED <<fileVars, run, ranOnEmpty>>

\* MUTANT of Additions: keys the file sets already are written again.
Additions_All == {KeyLine(k, "setup") : k \in run.keys}

\* The lines for the keys the file did not set.
Additions == {KeyLine(k, "setup") : k \in run.keys \ Present(raw)}

\* MUTANT of ReplaceEnv: the file is rebuilt from the new lines alone.
ReplaceEnv_NewOnly ==
    /\ Goto("replace", "activate")
    /\ env' = IF Additions = {} THEN env ELSE Additions
    /\ UNCHANGED <<pluginVars, backupVars, provider, run, raw, histories>>

\* The file is replaced by what was read and the new lines, if there are any.
ReplaceEnv ==
    /\ Goto("replace", "activate")
    /\ env' = IF Additions = {} THEN env ELSE raw \cup Additions
    /\ UNCHANGED <<pluginVars, backupVars, provider, run, raw, histories>>

\* hermes config set, if asked for; it may be missing or fail, which only warns.
Activate ==
    /\ Goto("activate", "done")
    /\ provider' \in {provider, IF run.activate THEN "daimon" ELSE provider}
    /\ UNCHANGED <<pluginVars, env, backupVars, run, raw, histories>>

\* Exit code 0.
Return ==
    /\ step = "done"
    /\ Exit
    /\ UNCHANGED fileVars

\* do_uninstall: with consent, whoever wrote the directory.
BeginUninstall ==
    /\ Goto("idle", "remove")
    /\ dir
    /\ UNCHANGED <<fileVars, run, raw, histories>>

\* shutil.rmtree: the files in any order, then the directory.
RemoveFile ==
    /\ step = "remove"
    /\ \/ shim # "none" /\ shim' = "none" /\ UNCHANGED manifest
       \/ manifest # "none" /\ manifest' = "none" /\ UNCHANGED shim
    /\ UNCHANGED <<dir, env, backupVars, provider, step, run, raw, histories>>

RemoveDir ==
    /\ step = "remove" /\ shim = "none" /\ manifest = "none"
    /\ Exit
    /\ dir' = FALSE
    /\ UNCHANGED <<shim, manifest, env, backupVars, provider>>

\* The command is killed; a copy it had begun may hold any part of the file.
Crash ==
    /\ step # "idle"
    /\ Exit
    /\ IF step = "copy" THEN backup' \in SUBSET env ELSE UNCHANGED backup
    /\ UNCHANGED <<pluginVars, env, backedUp, provider>>

\* The user adds a line, removes one, or sets a key anew.
EditEnv ==
    /\ \/ \E l \in UserLine :
            /\ \A k \in AnyKey : l = KeyLine(k, "user") => k \notin Present(env)
            /\ l \notin env /\ env' = env \cup {l}
       \/ \E l \in env : env' = env \ {l}
       \/ \E k \in AnyKey :
            /\ KeyLine(k, "setup") \in env
            /\ env' = (env \ {KeyLine(k, "setup")}) \cup {KeyLine(k, "user")}
    /\ touched' = (step # "idle")
    /\ UNCHANGED <<pluginVars, backupVars, provider, step, run, raw, ranOnEmpty>>

Setup ==
    \/ MakeDir \/ WriteShim \/ RefuseSetup \/ WriteManifest
    \/ SkipBackup \/ BeginCopy \/ EndCopy \/ ReadEnv \/ ReplaceEnv
    \/ Activate \/ Return

Uninstall == RemoveFile \/ RemoveDir

Next ==
    \/ \E args \in Run : BeginSetup(args)
    \/ BeginUninstall
    \/ Setup \/ Uninstall
    \/ Crash \/ EditEnv

Spec == Init /\ [][Next]_vars

-----------------------------------------------------------------------------
\* A setup that exits with 0 has finished the work of every setup and undone that
\* of every uninstall that was cut short before it: the shim is in place with a
\* manifest beside it, and every key it was given is set, unless the user was
\* editing .env meanwhile.
FinishedIsComplete ==
    step = "done" =>
      /\ shim = "managed" /\ manifest # "none"
      /\ touched \/ run.keys \subseteq Present(env)

\* Setups add no second KEY= line for a key, however often they are run or killed, and
\* whatever the user edits between their read and their replace.
KeysStayUnique == OneLinePerKey

\* A command takes no line of the user's out of .env, nor adds or changes one,
\* unless the user edited the file between its read and its replace.
UserLinesSurvive ==
    [][step' # step => touched \/ env' \cap UserLine = env \cap UserLine]_vars

\* The backup, whole or cut short, is of the file as it was before any setup wrote
\* to it, unless a setup found .env empty (the comment in do_setup).
BackupIsPristine ==
    backup \cap SetupLine # {} => ranOnEmpty
=============================================================================
