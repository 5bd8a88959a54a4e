--------------------------- MODULE PluginLifecycle ---------------------------
(***************************************************************************)
(* configureWrapper (configutil/kms.go) and CreatePlugin                   *)
(* (pluginutil/pluginutil.go): a KMS plugin is looked up, written out to a *)
(* file, run as a process and configured.  Each of these may fail; what    *)
(* was acquired by then must be released by the cleanup function, which    *)
(* grows on the way.  The caller runs the cleanup of a wrapper it got, and *)
(* perhaps, again, the one returned beside an error.                       *)
(***************************************************************************)
EXTENDS Naturals, Sequences

CONSTANT
  MaxSources         \* bound: sources among the options

VARIABLES
  kms,               \* the KMS block: its type, plugin_path, plugin_checksum
  sources,           \* the plugin sources among the options
  executionDir,      \* whether withPluginExecutionDirectory is set
  windows,           \* whether runtime.GOOS is "windows"
  plugin,            \* what was found for the type: nil, inmem, fs or file
  disk, bytes,       \* the contents of the plugin's file, and as it was read
  secure,            \* whether the client was given a SecureConfig
  pc,                \* how far configureWrapper is
  cleanup,           \* what the cleanup function does
  pending,           \* what is left to do of a cleanup that runs
  tmpDir, file,      \* the temporary directory and the executable exist
  process            \* the plugin: none, running or dead

resources == <<tmpDir, file, process>>
Given == <<kms, sources, executionDir, windows>>
chosen == <<plugin, bytes, secure>>
vars == <<Given, chosen, disk, pc, cleanup, pending, resources>>

Nil == {"nil"}
None == {}

(* Where plugins come from: a file system, a map of functions or one file; *)
(* whether it has a plugin under the name that is looked up, and whether   *)
(* its option accepts it (not nil, not empty, a known hash method).        *)
Source == [kind : {"fs", "inmem", "file"}, names : BOOLEAN, valid : BOOLEAN]

(* The checksum is absent, hexadecimal or not; the type, which is looked   *)
(* up in lower case, may be spelled otherwise in a block built by hand.    *)
Block == [type : {"shamir", "other"}, path : BOOLEAN, lower : BOOLEAN,
          checksum : {"", "hex", "bad"}]

Init ==
  /\ kms \in Block /\ sources \in UNION {[1..n -> Source] : n \in 0..MaxSources}
  /\ executionDir \in BOOLEAN /\ windows \in BOOLEAN
  /\ plugin = "nil" /\ disk = "checked" /\ bytes = "none" /\ secure = FALSE
  /\ pc = "lookup" /\ cleanup = Nil /\ pending = None
  /\ tmpDir = FALSE /\ file = FALSE /\ process = "none"

(* An error: the deferred function runs the cleanup if there is one.       *)
Fail(withCleanup) ==
  /\ pc' = "unwind" /\ cleanup' = withCleanup
  /\ pending' = withCleanup \ Nil
  /\ UNCHANGED Given

Go(to, withCleanup) ==
  pc' = to /\ cleanup' = withCleanup /\ UNCHANGED <<Given, pending>>

-----------------------------------------------------------------------------
(* A path goes with a checksum (lines 292-303).                            *)
BlockFails == IF kms.path THEN kms.checksum # "hex" ELSE kms.checksum # ""

(* WithPluginFile gets the type as it is spelled (line 307).               *)
AllSources ==
  IF kms.path
  THEN Append(sources, [kind |-> "file", names |-> kms.lower, valid |-> TRUE])
  ELSE sources

(* No source, or an option that refuses its argument.  Besides, a file may *)
(* be missing or a directory whenever the options are applied, and a file  *)
(* system may be unreadable.                                               *)
MapFails ==
  \/ AllSources = <<>>
  \/ \E i \in DOMAIN AllSources : ~ AllSources[i].valid
OptionsMayFail == \E i \in DOMAIN AllSources : AllSources[i].kind = "file"
MapMayFail == OptionsMayFail \/ \E i \in DOMAIN AllSources : AllSources[i].kind = "fs"

(* "the last one wins": what is found under the name.                      *)
BuildPluginMap ==
  LET named == {i \in DOMAIN AllSources : AllSources[i].names}
  IN  IF named = {} THEN "nil"
      ELSE AllSources[CHOOSE i \in named : \A j \in named : j <= i].kind

(* BuildPluginMap, then the choice; Shamir needs no wrapper, but a map.    *)
Lookup ==
  /\ pc = "lookup"
  /\ \/ /\ ~ BlockFails /\ ~ MapFails
        /\ IF kms.type = "shamir"
           THEN Go("ready", Nil) /\ UNCHANGED plugin
           ELSE Go("create", Nil) /\ plugin' = BuildPluginMap
     \/ /\ BlockFails \/ MapFails \/ MapMayFail
        /\ Fail(Nil) /\ UNCHANGED plugin
  /\ UNCHANGED <<disk, bytes, secure, resources>>

(* The options once more, and the first cases of CreatePlugin's switch.    *)
CreateInmem ==
  /\ pc = "create" /\ plugin = "inmem"
  /\ Go("configure", None) \/ Fail(None) \/ (OptionsMayFail /\ Fail(Nil))
  /\ UNCHANGED <<disk, chosen, resources>>

CreateNone ==
  /\ pc = "create" /\ plugin = "nil"
  /\ Fail(Nil)
  /\ UNCHANGED <<disk, chosen, resources>>

(* Open, Stat, Read, decompression, the random suffix; TempDir, if no      *)
(* directory is given.                                                     *)
ReadPlugin ==
  /\ pc = "create" /\ plugin \in {"fs", "file"}
  /\ \/ /\ bytes' = disk
        /\ IF executionDir
           THEN Go("write", {"removeFile"}) /\ UNCHANGED tmpDir
           ELSE Go("write", {"removeDir"}) /\ tmpDir' = TRUE
     \/ Fail(Nil) /\ UNCHANGED <<bytes, tmpDir>>
  /\ UNCHANGED <<disk, plugin, secure, file, process>>

(* A mutant: no cleanup is returned for a file written in part.            *)
WriteFileForgets ==
  /\ pc = "write"
  /\ \/ file' = TRUE /\ Go("client", cleanup)
     \/ file' \in {file, TRUE} /\ Fail(Nil)
  /\ UNCHANGED <<disk, chosen, tmpDir, process>>

(* WriteFile may fail with the file there.                                 *)
WriteFile ==
  /\ pc = "write"
  /\ \/ file' = TRUE /\ Go("client", cleanup)
     \/ file' \in {file, TRUE} /\ Fail(cleanup)
  /\ UNCHANGED <<disk, chosen, tmpDir, process>>

(* PluginClientCreationFunc, to which a file's SecureConfig goes along;    *)
(* with a client, Kill comes before the rest of the cleanup.               *)
CreateClient ==
  /\ pc = "client"
  /\ \/ Go("start", cleanup \cup {"kill"}) /\ secure' = (plugin = "file")
     \/ Fail(cleanup) /\ UNCHANGED secure
  /\ UNCHANGED <<disk, plugin, bytes, resources>>

(* client.Client starts the process, if the checksum that it may have been *)
(* given is that of the executable; it may fail after that.                *)
StartProcess ==
  /\ pc = "start"
  /\ \/ /\ secure => bytes = "checked"
        /\ process' = "running" /\ (Go("configure", cleanup) \/ Fail(cleanup))
     \/ Fail(cleanup) /\ UNCHANGED process
  /\ UNCHANGED <<disk, chosen, tmpDir, file>>

(* Dispense, the conversion to a wrapper, SetConfig.                       *)
Configure ==
  /\ pc = "configure"
  /\ Go("ready", cleanup) \/ Fail(cleanup)
  /\ UNCHANGED <<disk, chosen, resources>>

-----------------------------------------------------------------------------
(* The caller is done with its wrapper, or runs the cleanup that came with *)
(* an error once more.                                                     *)
CallCleanup ==
  /\ pc \in {"ready", "failed"} /\ cleanup # Nil
  /\ pc' = IF pc = "ready" THEN "closing" ELSE "unwind"
  /\ pending' = cleanup
  /\ UNCHANGED <<Given, chosen, disk, cleanup, resources>>

Kill ==
  /\ pc \in {"unwind", "closing"} /\ "kill" \in pending
  /\ process' = IF process = "running" THEN "dead" ELSE process
  /\ pending' = pending \ {"kill"}
  /\ UNCHANGED <<Given, chosen, disk, pc, cleanup, tmpDir, file>>

(* The former cleanup follows Kill (lines 290-293).                        *)
MayRemove == "kill" \notin pending

(* On Windows the file is name.exe, of which os.Remove(dir/name) knows     *)
(* nothing; it fails, like on a file already gone.                         *)
RemoveFile ==
  /\ pc \in {"unwind", "closing"} /\ "removeFile" \in pending /\ MayRemove
  /\ file' = (file /\ windows)
  /\ pending' = pending \ {"removeFile"}
  /\ UNCHANGED <<Given, chosen, disk, pc, cleanup, tmpDir, process>>

RemoveDir ==
  /\ pc \in {"unwind", "closing"} /\ "removeDir" \in pending /\ MayRemove
  /\ tmpDir' = FALSE /\ file' = FALSE
  /\ pending' = pending \ {"removeDir"}
  /\ UNCHANGED <<Given, chosen, disk, pc, cleanup, process>>

CleanupDone ==
  /\ pc \in {"unwind", "closing"} /\ pending = None
  /\ pc' = IF pc = "unwind" THEN "failed" ELSE "closed"
  /\ UNCHANGED <<Given, chosen, disk, cleanup, pending, resources>>

(* The plugin crashes; its file is replaced by another one.                *)
Crash ==
  /\ process = "running" /\ process' = "dead"
  /\ UNCHANGED <<Given, chosen, disk, pc, cleanup, pending, tmpDir, file>>

Replace ==
  /\ disk = "checked" /\ disk' = "other"
  /\ UNCHANGED <<Given, chosen, pc, cleanup, pending, resources>>

Next ==
  \/ Lookup \/ CreateInmem \/ CreateNone \/ ReadPlugin \/ WriteFile \/ CreateClient
  \/ StartProcess \/ Configure \/ CallCleanup \/ Kill \/ RemoveFile \/ RemoveDir
  \/ CleanupDone \/ Crash \/ Replace

Spec == Init /\ [][Next]_vars

-----------------------------------------------------------------------------
(* Types; a wrapper that was handed out is not without its process.        *)
TypeOK ==
  /\ pc \in {"lookup", "create", "write", "client", "start", "configure", "ready",
             "unwind", "failed", "closing", "closed"}
  /\ plugin \in {"nil", "inmem", "fs", "file"}
  /\ disk \in {"checked", "other"} /\ bytes \in {"none", "checked", "other"}
  /\ cleanup \in {Nil} \cup SUBSET {"removeFile", "removeDir", "kill"}
  /\ pending \subseteq cleanup /\ secure \in BOOLEAN
  /\ tmpDir \in BOOLEAN /\ file \in BOOLEAN /\ process \in {"none", "running", "dead"}
  /\ pc = "ready" /\ plugin \in {"fs", "file"} => process # "none" /\ "kill" \in cleanup

(* CreatePlugin's cleanup "will ensure that it is torn down properly"      *)
(* (line 161): wherever configureWrapper fails, and when the caller is     *)
(* done, no process, file or directory is left; but on Windows an          *)
(* executable in a directory that was given.  And it goes in order: the    *)
(* executable is not pulled away from under a running plugin.              *)
TornDown ==
  /\ process = "running" => file
  /\ pc \in {"failed", "closed"} =>
       process # "running" /\ ~ tmpDir /\ (file => windows /\ executionDir)

(* The plugin that plugin_path and plugin_checksum of the block name is    *)
(* never replaced: no other source overrides it, and if the file changes   *)
(* between the check of the options and the execution, it does not run.    *)
CheckedRuns ==
  kms.path /\ kms.lower /\ process = "running" => plugin = "file" /\ bytes = "checked"
=============================================================================
