-------------------------- MODULE HermesSetupProofs --------------------------
(***************************************************************************)
(* What setups and uninstalls leave behind, whatever is killed and rerun   *)
(* and whatever the user edits: the properties of HermesSetup, for any     *)
(* keys and any lines.                                                     *)
(***************************************************************************)
EXTENDS HermesSetup, TLAPS

AfterShim == {"manifest", "backup", "copy", "read", "replace", "activate", "done"}
AfterManifest == AfterShim \ {"manifest"}
AfterBackup == {"read", "replace", "activate", "done"}

Keyed(lines) ==
    \A k \in AnyKey : KeyLine(k, "user") \notin lines \/ KeyLine(k, "setup") \notin lines

\* The plugin's directory is there before its files are.
TypeInv == SetupTypeOK /\ (step \in {"shim", "manifest"} => dir)

\* What a command may take for granted of the plugin's files.
FilesInv ==
    /\ step \in AfterShim => shim = "managed"
    /\ step \in AfterManifest => manifest = "ours"

\* And of what it has read.
EnvInv ==
    /\ Keyed(env) /\ Keyed(raw)
    /\ (step = "replace" /\ ~touched) => raw = env
    /\ (step \in {"activate", "done"} /\ ~touched) => run.keys \subseteq Present(env)

\* Lines of setup's are in .env only after a backup was made of it.
BackupInv ==
    /\ step = "copy" => backedUp
    /\ ranOnEmpty
       \/ /\ step \in AfterBackup => backedUp
          /\ env \cap SetupLine # {} => backedUp /\ step # "copy"
          /\ backup \cap SetupLine = {}

IInv == TypeInv /\ FilesInv /\ EnvInv /\ BackupInv

-----------------------------------------------------------------------------
\* A line is the user's or setup's, never both.
LEMMA LinesApart ==
    /\ SetupLine \cap UserLine = {}
    /\ \A j, k \in AnyKey : KeyLine(j, "user") # KeyLine(k, "setup")
    /\ \A k \in AnyKey : KeyLine(k, "user") \in UserLine /\ KeyLine(k, "setup") \in SetupLine
    /\ \A j, k \in AnyKey : \A a, b : KeyLine(j, a) = KeyLine(k, b) => j = k /\ a = b
  BY OtherLineAssumption DEF SetupLine, UserLine, KeyLine

\* A key is set by the line of either writer.
LEMMA PresentIff ==
    ASSUME NEW lines, NEW k \in AnyKey
    PROVE  k \in Present(lines) <=>
             KeyLine(k, "user") \in lines \/ KeyLine(k, "setup") \in lines
  BY DEF Present, Sets

\* What ReplaceEnv adds is setup's, sets no key twice, and leaves none out.
LEMMA AdditionsFit ==
    ASSUME Keyed(raw), run.keys \subseteq AnyKey
    PROVE  /\ Additions \subseteq SetupLine
           /\ Keyed(raw \cup Additions)
           /\ run.keys \subseteq Present(raw \cup Additions)
           /\ Additions = {} => run.keys \subseteq Present(raw)
<1>1. Additions \subseteq SetupLine
  BY DEF Additions, SetupLine
<1>2. \A k \in AnyKey : KeyLine(k, "setup") \in Additions <=> k \in run.keys \ Present(raw)
  BY LinesApart DEF Additions
<1>3. \A k \in AnyKey : KeyLine(k, "user") \notin Additions
  BY <1>1, LinesApart
<1>4. Keyed(raw \cup Additions)
  <2> SUFFICES ASSUME NEW k \in AnyKey
               PROVE  \/ KeyLine(k, "user") \notin raw \cup Additions
                      \/ KeyLine(k, "setup") \notin raw \cup Additions
    BY DEF Keyed
  <2> QED BY <1>2, <1>3, PresentIff DEF Keyed
<1>5. run.keys \subseteq Present(raw \cup Additions)
  <2> SUFFICES ASSUME NEW k \in run.keys PROVE k \in Present(raw \cup Additions)
    OBVIOUS
  <2> QED BY <1>2, PresentIff
<1>6. Additions = {} => run.keys \subseteq Present(raw)
  BY <1>2
<1> QED BY <1>1, <1>4, <1>5, <1>6

\* One line per key is what KeysStayUnique asks for.
LEMMA KeyedIsUnique == Keyed(env) => KeysStayUnique
<1> SUFFICES ASSUME Keyed(env), NEW k \in AnyKey,
                    Sets(env, k) = {KeyLine(k, "user"), KeyLine(k, "setup")}
             PROVE  FALSE
  BY DEF KeysStayUnique, OneLinePerKey
<1> QED BY DEF Sets, Keyed

\* The keys of a run.
LEMMA RunKeys == run \in Run => run.keys \subseteq AnyKey
  BY DEF Run, AnyKey

-----------------------------------------------------------------------------
\* Every step leaves the state well typed, the directory before its files.
LEMMA TypeStep == TypeInv /\ [Next]_vars => TypeInv'
<1> SUFFICES ASSUME TypeInv, [Next]_vars PROVE TypeInv'
  OBVIOUS
<1> USE DEF TypeInv, SetupTypeOK, Goto, fileVars, pluginVars, backupVars, histories
<1>1. ASSUME NEW args \in Run, BeginSetup(args) PROVE TypeInv'
  BY <1>1 DEF BeginSetup
<1>2. CASE MakeDir
  BY <1>2 DEF MakeDir
<1>3. CASE WriteShim
  BY <1>3 DEF WriteShim
<1>4. CASE WriteManifest
  BY <1>4 DEF WriteManifest
<1>5. CASE ReplaceEnv
  <2>1. Additions \subseteq Line
    BY RunKeys DEF Additions, Line, SetupLine
  <2>2. env' \subseteq Line
    BY <1>5, <2>1 DEF ReplaceEnv
  <2> QED BY <1>5, <2>2 DEF ReplaceEnv
<1>6. CASE EditEnv
  <2>1. env' \subseteq Line
    BY <1>6, LinesApart DEF EditEnv, Line
  <2> QED BY <1>6, <2>1 DEF EditEnv
<1>7. CASE SkipBackup \/ BeginCopy \/ EndCopy \/ ReadEnv \/ Activate
  BY <1>7 DEF SkipBackup, BeginCopy, EndCopy, ReadEnv, Activate
<1>8. NoRun \in Run
  BY DEF NoRun, Run
<1>9. CASE RefuseSetup \/ Return \/ RemoveDir \/ Crash
  <2>1. Exit /\ backup' \subseteq Line
    BY <1>9 DEF RefuseSetup, Return, RemoveDir, Crash, Exit
  <2> QED BY <1>8, <1>9, <2>1 DEF RefuseSetup, Return, RemoveDir, Crash, Exit
<1>10. CASE BeginUninstall \/ RemoveFile \/ UNCHANGED vars
  BY <1>10 DEF BeginUninstall, RemoveFile, vars
<1> QED BY <1>1, <1>2, <1>3, <1>4, <1>5, <1>6, <1>7, <1>9, <1>10
        DEF Next, Setup, Uninstall

\* Every step leaves the files such that the command may go on.
LEMMA FilesStep == FilesInv /\ [Next]_vars => FilesInv'
<1> SUFFICES ASSUME FilesInv, [Next]_vars PROVE FilesInv'
  OBVIOUS
<1> USE DEF FilesInv, AfterShim, AfterManifest, Goto, fileVars,
            pluginVars, backupVars, histories
<1>1. CASE WriteShim \/ WriteManifest
  BY <1>1 DEF WriteShim, WriteManifest
<1>2. CASE Activate
  BY <1>2 DEF Activate
<1>3. CASE BeginUninstall \/ RemoveFile \/ RemoveDir
  BY <1>3 DEF BeginUninstall, RemoveFile, RemoveDir, Exit
<1>4. CASE RefuseSetup \/ Return \/ Crash
  BY <1>4 DEF RefuseSetup, Return, Crash, Exit
<1>5. CASE MakeDir \/ SkipBackup \/ BeginCopy \/ EndCopy \/ ReadEnv \/ ReplaceEnv
  BY <1>5 DEF MakeDir, SkipBackup, BeginCopy, EndCopy, ReadEnv, ReplaceEnv
<1>6. CASE EditEnv \/ (\E args \in Run : BeginSetup(args)) \/ UNCHANGED vars
  BY <1>6 DEF EditEnv, BeginSetup, vars
<1> QED BY <1>1, <1>2, <1>3, <1>4, <1>5, <1>6 DEF Next, Setup, Uninstall

\* Every step leaves one line per key, and what was read true unless touched.
LEMMA EnvStep == TypeInv /\ EnvInv /\ [Next]_vars => EnvInv'
<1> SUFFICES ASSUME TypeInv, EnvInv, [Next]_vars PROVE EnvInv'
  OBVIOUS
<1> USE DEF EnvInv, Goto, fileVars, pluginVars, backupVars, histories
<1>1. CASE ReplaceEnv
  <2>1. run.keys \subseteq AnyKey
    BY RunKeys DEF TypeInv, SetupTypeOK
  <2>2. /\ Keyed(raw \cup Additions)
        /\ run.keys \subseteq Present(raw \cup Additions)
        /\ Additions = {} => run.keys \subseteq Present(raw)
    BY <2>1, AdditionsFit
  <2>3. step = "replace" /\ step' = "activate" /\ touched' = touched
        /\ raw' = raw /\ run' = run
        /\ env' = IF Additions = {} THEN env ELSE raw \cup Additions
    BY <1>1 DEF ReplaceEnv
  <2>4. Keyed(env') /\ Keyed(raw')
    BY <2>2, <2>3
  <2>5. ~touched => run.keys \subseteq Present(env')
    BY <2>2, <2>3
  <2> QED BY <2>3, <2>4, <2>5 DEF Keyed, Present, Sets
<1>2. CASE ReadEnv
  BY <1>2 DEF ReadEnv, Keyed
<1>3. CASE EditEnv
  <2>1. Keyed(env')
    <3>1. CASE \E l \in UserLine :
                 /\ \A k \in AnyKey : l = KeyLine(k, "user") => k \notin Present(env)
                 /\ env' = env \cup {l}
      BY <3>1, PresentIff, LinesApart DEF Keyed
    <3>2. CASE \E l \in env : env' = env \ {l}
      BY <3>2 DEF Keyed
    <3>3. CASE \E k \in AnyKey :
                 env' = (env \ {KeyLine(k, "setup")}) \cup {KeyLine(k, "user")}
      BY <3>3, LinesApart DEF Keyed
    <3> QED BY <1>3, <3>1, <3>2, <3>3 DEF EditEnv
  <2> QED BY <1>3, <2>1 DEF EditEnv, Keyed
<1>4. CASE RefuseSetup \/ Return \/ RemoveDir \/ Crash
  BY <1>4 DEF RefuseSetup, Return, RemoveDir, Crash, Exit, Keyed
<1>5. CASE Activate
  BY <1>5 DEF Activate, Keyed, Present, Sets
<1>6. CASE MakeDir \/ WriteShim \/ WriteManifest \/ SkipBackup \/ BeginCopy \/ EndCopy
  BY <1>6 DEF MakeDir, WriteShim, WriteManifest, SkipBackup, BeginCopy, EndCopy, Keyed
<1>7. CASE (\E args \in Run : BeginSetup(args)) \/ BeginUninstall \/ RemoveFile
  BY <1>7 DEF BeginSetup, BeginUninstall, RemoveFile, Keyed
<1>8. CASE UNCHANGED vars
  BY <1>8 DEF vars, Keyed, Present, Sets
<1> QED BY <1>1, <1>2, <1>3, <1>4, <1>5, <1>6, <1>7, <1>8 DEF Next, Setup, Uninstall

\* Every step leaves the backup free of setup's lines.
LEMMA BackupStep == TypeInv /\ BackupInv /\ [Next]_vars => BackupInv'
<1> SUFFICES ASSUME TypeInv, BackupInv, [Next]_vars PROVE BackupInv'
  OBVIOUS
<1> USE DEF BackupInv, AfterBackup, Goto, fileVars, pluginVars, backupVars, histories
<1>1. CASE SkipBackup
  BY <1>1 DEF SkipBackup, TypeInv, SetupTypeOK
<1>2. CASE BeginCopy
  BY <1>2 DEF BeginCopy
<1>3. CASE EndCopy
  BY <1>3 DEF EndCopy
<1>4. CASE ReplaceEnv
  BY <1>4 DEF ReplaceEnv
<1>5. CASE EditEnv
  <2>1. env' \cap SetupLine \subseteq env \cap SetupLine
    BY <1>5, LinesApart DEF EditEnv
  <2> QED BY <1>5, <2>1 DEF EditEnv
<1>6. CASE Crash
  BY <1>6 DEF Crash, Exit
<1>7. CASE RefuseSetup \/ Return \/ RemoveDir
  BY <1>7 DEF RefuseSetup, Return, RemoveDir, Exit
<1>8. CASE MakeDir \/ WriteShim \/ WriteManifest \/ ReadEnv \/ Activate
  BY <1>8 DEF MakeDir, WriteShim, WriteManifest, ReadEnv, Activate
<1>9. CASE (\E args \in Run : BeginSetup(args)) \/ BeginUninstall \/ RemoveFile
  BY <1>9 DEF BeginSetup, BeginUninstall, RemoveFile
<1>10. CASE UNCHANGED vars
  BY <1>10 DEF vars
<1> QED BY <1>1, <1>2, <1>3, <1>4, <1>5, <1>6, <1>7, <1>8, <1>9, <1>10
        DEF Next, Setup, Uninstall

\* What each step may take for granted holds in every state.
LEMMA Inductive == Spec => []IInv
<1>1. Init => IInv
  <2> SUFFICES ASSUME Init PROVE IInv
    OBVIOUS
  <2>1. TypeInv
    BY DEF Init, TypeInv, SetupTypeOK, Line, NoRun, Run
  <2>2. FilesInv
    BY DEF Init, FilesInv, AfterShim, AfterManifest
  <2>3. EnvInv
    BY LinesApart DEF Init, EnvInv, Keyed
  <2>4. BackupInv
    BY LinesApart DEF Init, BackupInv, AfterBackup
  <2> QED BY <2>1, <2>2, <2>3, <2>4 DEF IInv
<1>2. IInv /\ [Next]_vars => IInv'
  BY TypeStep, FilesStep, EnvStep, BackupStep DEF IInv
<1> QED BY <1>1, <1>2, PTL DEF Spec

-----------------------------------------------------------------------------
\* A setup that exits with 0 has finished what any setup before it began.
THEOREM FinishedSetup == Spec => []FinishedIsComplete
<1>1. IInv => FinishedIsComplete
  BY DEF IInv, FilesInv, EnvInv, AfterShim, AfterManifest, FinishedIsComplete
<1> QED BY <1>1, Inductive, PTL

\* However often setup runs, is killed, or is overtaken by the user's edits, .env
\* has one line per key.
THEOREM OneLineEach == Spec => []KeysStayUnique
<1>1. IInv => KeysStayUnique
  BY KeyedIsUnique DEF IInv, EnvInv
<1> QED BY <1>1, Inductive, PTL

\* The backup holds no line of setup's, unless a setup found .env empty.
THEOREM PristineBackup == Spec => []BackupIsPristine
<1>1. IInv => BackupIsPristine
  BY DEF IInv, BackupInv, BackupIsPristine
<1> QED BY <1>1, Inductive, PTL

\* No command costs the user a line of .env that was there when it was read.
THEOREM UserKeepsLines == Spec => UserLinesSurvive
<1>1. IInv /\ [Next]_vars
        => [step' # step => touched \/ env' \cap UserLine = env \cap UserLine]_vars
  <2> SUFFICES ASSUME IInv, Next, step' # step, ~touched
               PROVE  env' \cap UserLine = env \cap UserLine
    OBVIOUS
  <2>1. CASE ReplaceEnv
    <3>1. Additions \cap UserLine = {} /\ raw = env
      BY <2>1, AdditionsFit, RunKeys, LinesApart
         DEF IInv, EnvInv, TypeInv, SetupTypeOK, ReplaceEnv, Goto
    <3> QED BY <2>1, <3>1 DEF ReplaceEnv
  <2>2. CASE ~ReplaceEnv
    <3>1. env' = env
      BY <2>2 DEF Next, Setup, Uninstall, BeginSetup, MakeDir, WriteShim, RefuseSetup,
         WriteManifest, SkipBackup, BeginCopy, EndCopy, ReadEnv, Activate, Return,
         BeginUninstall, RemoveFile, RemoveDir, Crash, EditEnv, Goto, fileVars
    <3> QED BY <3>1
  <2> QED BY <2>1, <2>2
<1> QED BY <1>1, Inductive, PTL DEF Spec, UserLinesSurvive
=============================================================================
