--------------------------- MODULE ContainerRunner ---------------------------
(***************************************************************************)
(* plugincontainer/container_runner_linux.go: a plugin run in a container. *)
(* Start, Wait, Kill and the goroutine that copies the logs are actions of *)
(* the runner, one for each request to the Docker daemon; the daemon, the  *)
(* container and whoever moves image tags are external.  A request may     *)
(* fail, and may fail after it took effect (its context ran out).  go-     *)
(* plugin calls Kill and Wait after Start has returned.                    *)
(***************************************************************************)
EXTENDS Integers

CONSTANTS
  Image,             \* image IDs that exist locally
  NoPin,             \* in place of an ID where there is none
  MaxLines           \* bound: log lines not yet copied

ASSUME ConstantsAssumption ==
  NoPin \notin Image /\ MaxLines \in Nat \ {0}

NoKill == [pc |-> "no", err |-> FALSE, removeErr |-> FALSE]

VARIABLES
  cfg,               \* Debug, and the SHA256 asked for or NoPin
  tag,               \* the image that cfg.Image:cfg.Tag names
  container,         \* none, created, running, exited or removed ...
  image,             \* ... and the image it was made from
  id,                \* whether c.id is set
  start,             \* where Start is; or the program crashed, and reattached
  kill,              \* where Kill is, with the errors of its requests
  wait,              \* where Wait is
  logs,              \* number of log lines not yet copied
  copier             \* the goroutine: none, copying or done (pipes closed)

vars == <<cfg, tag, container, image, id, start, kill, wait, logs, copier>>

Init ==
  /\ cfg \in [Debug : BOOLEAN, SHA256 : Image \cup {NoPin}] /\ tag \in Image
  /\ container = "none" /\ image = NoPin /\ id = FALSE
  /\ start = "check" /\ kill = NoKill /\ wait = "no"
  /\ logs = 0 /\ copier = "none"

Pinned == cfg.SHA256 # NoPin

-----------------------------------------------------------------------------
(* ImageList, for a pinned image: the tag must name the image asked for.   *)
StartCheck ==
  /\ start = "check"
  /\ \/ (Pinned => tag = cfg.SHA256) /\ start' = "create"
     \/ Pinned /\ start' = "failed"
  /\ UNCHANGED <<cfg, tag, container, image, id, kill, wait, logs, copier>>

(* A mutant: the container is made from what the tag names.                *)
ImageRefByTag == tag

(* imageRef (lines 78-85): the SHA256 if there is one.                     *)
ImageRef == IF Pinned THEN cfg.SHA256 ELSE tag

(* A mutant: c.id is not set before the container is started.              *)
StartCreateNoID ==
  /\ start = "create"
  /\ container' = "created" /\ image' = ImageRef /\ start' = "start"
  /\ UNCHANGED <<cfg, tag, id, kill, wait, logs, copier>>

(* ContainerCreate: with an answer, c.id is set.                           *)
StartCreate ==
  /\ start = "create"
  /\ \/ /\ container' = "created" /\ image' = ImageRef
        /\ \/ id' = TRUE /\ start' = "start"
           \/ id' = FALSE /\ start' = "failed"
     \/ start' = "failed" /\ UNCHANGED <<container, image, id>>
  /\ UNCHANGED <<cfg, tag, kill, wait, logs, copier>>

StartStart ==
  /\ start = "start"
  /\ \/ container' = "running" /\ start' \in {"logs", "failed"}
     \/ start' = "failed" /\ UNCHANGED container
  /\ UNCHANGED <<cfg, tag, image, id, kill, wait, logs, copier>>

(* ContainerLogs, and the goroutine is on its way.                         *)
StartLogs ==
  /\ start = "logs"
  /\ \/ container # "removed" /\ start' = "started" /\ copier' = "copying"
     \/ start' = "failed" /\ UNCHANGED copier
  /\ UNCHANGED <<cfg, tag, container, image, id, kill, wait, logs>>

-----------------------------------------------------------------------------
(* StdCopy moves a line to its pipe, where the reader takes it.            *)
CopyLine ==
  /\ copier = "copying" /\ logs > 0
  /\ logs' = logs - 1
  /\ UNCHANGED <<cfg, tag, container, image, id, start, kill, wait, copier>>

(* A mutant: at EOF it is started again.                                   *)
CopyAgain ==
  /\ copier = "copying" /\ logs = 0 /\ container # "running"
  /\ UNCHANGED vars

(* At EOF the goroutine closes both pipes, ...                             *)
CopyEnd ==
  /\ copier = "copying" /\ logs = 0 /\ container # "running"
  /\ copier' = "done"
  /\ UNCHANGED <<cfg, tag, container, image, id, start, kill, wait, logs>>

(* ... and so it does if the stream of the logs breaks.                    *)
CopyBroken ==
  /\ copier = "copying" /\ container # "none"
  /\ copier' = "done"
  /\ UNCHANGED <<cfg, tag, container, image, id, start, kill, wait, logs>>

-----------------------------------------------------------------------------
Returned == start \in {"started", "failed", "attached"}

(* A runner made by ReattachFunc has c.id, but neither c.debug nor streams. *)
Debug == cfg.Debug /\ start # "attached"

WaitCall ==
  /\ Returned /\ id /\ wait = "no"
  /\ wait' = "waiting"
  /\ UNCHANGED <<cfg, tag, container, image, id, start, kill, logs, copier>>

(* The container is not running, or there is an error.                     *)
WaitReturn ==
  /\ wait = "waiting"
  /\ wait' \in IF container = "running" THEN {"error"} ELSE {"ok", "error"}
  /\ UNCHANGED <<cfg, tag, container, image, id, start, kill, logs, copier>>

(* Kill without a container to kill.                                       *)
KillNothing ==
  /\ Returned /\ ~ id /\ kill.pc = "no"
  /\ kill' = [kill EXCEPT !.pc = "returned"]
  /\ UNCHANGED <<cfg, tag, container, image, id, start, wait, logs, copier>>

(* A mutant: the error is returned without the removal being deferred.     *)
AfterStopUnlessError(err) == IF Debug /\ ~ err THEN "remove" ELSE "returned"

(* What is deferred follows, whatever ContainerStop said.                  *)
AfterStop(err) == IF Debug THEN "remove" ELSE "returned"

(* An error counts, except for "no such container".                        *)
StopErrorMatters(gone) == ~ gone

KillStop ==
  /\ Returned /\ id /\ kill.pc = "no"
  /\ \/ /\ container # "removed"
        /\ container' = IF container = "running" THEN "exited" ELSE container
        /\ kill' = [kill EXCEPT !.pc = AfterStop(FALSE)]
     \/ /\ \E gone \in {FALSE, container = "removed"} :
             LET err == StopErrorMatters(gone)
             IN  kill' = [kill EXCEPT !.pc = AfterStop(err), !.err = err]
        /\ UNCHANGED container
  /\ UNCHANGED <<cfg, tag, image, id, start, wait, logs, copier>>

(* The forced ContainerRemove; its error is only logged.                   *)
KillRemove ==
  /\ kill.pc = "remove"
  /\ \/ container' = "removed" /\ kill' = [kill EXCEPT !.pc = "returned"]
     \/ kill' = [kill EXCEPT !.pc = "returned", !.removeErr = TRUE] /\ UNCHANGED container
  /\ UNCHANGED <<cfg, tag, image, id, start, wait, logs, copier>>

-----------------------------------------------------------------------------
(* The program ends with its plugin running, which it knows by its ID.     *)
HostCrash ==
  /\ start = "started"
  /\ start' = "crashed" /\ id' = FALSE /\ kill' = NoKill /\ wait' = "no" /\ copier' = "none"
  /\ UNCHANGED <<cfg, tag, container, image, logs>>

(* Without an error, ContainerInspect found the container.                 *)
Reattach ==
  /\ start = "crashed" /\ container # "removed"
  /\ start' = "attached" /\ id' = TRUE
  /\ UNCHANGED <<cfg, tag, container, image, kill, wait, logs, copier>>

-----------------------------------------------------------------------------
(* The container logs, and exits; AutoRemove then removes it, unless       *)
(* cfg.Debug is set.  A tag is moved.                                      *)
LogLine ==
  /\ container = "running" /\ logs < MaxLines
  /\ logs' = logs + 1
  /\ UNCHANGED <<cfg, tag, container, image, id, start, kill, wait, copier>>

Exit ==
  /\ container = "running" /\ container' = "exited"
  /\ UNCHANGED <<cfg, tag, image, id, start, kill, wait, logs, copier>>

AutoRemove ==
  /\ ~ cfg.Debug /\ container = "exited" /\ container' = "removed"
  /\ UNCHANGED <<cfg, tag, image, id, start, kill, wait, logs, copier>>

Retag ==
  /\ \E i \in Image \ {tag} : tag' = i
  /\ UNCHANGED <<cfg, container, image, id, start, kill, wait, logs, copier>>

Next ==
  \/ StartCheck \/ StartCreate \/ StartStart \/ StartLogs
  \/ CopyLine \/ CopyEnd \/ CopyBroken
  \/ WaitCall \/ WaitReturn \/ KillNothing \/ KillStop \/ KillRemove
  \/ HostCrash \/ Reattach
  \/ LogLine \/ Exit \/ AutoRemove \/ Retag

Spec == Init /\ [][Next]_vars

(* The goroutine runs, its pipes are read, and requests are answered.      *)
FairSpec ==
  Spec /\ WF_vars(CopyLine) /\ WF_vars(CopyEnd) /\ WF_vars(WaitReturn) /\ WF_vars(KillRemove)

-----------------------------------------------------------------------------
(* Types; c.id stands for a container that was made.                       *)
TypeOK ==
  /\ cfg \in [Debug : BOOLEAN, SHA256 : Image \cup {NoPin}]
  /\ tag \in Image /\ image \in Image \cup {NoPin}
  /\ container \in {"none", "created", "running", "exited", "removed"}
  /\ container = "none" <=> image = NoPin
  /\ id \in BOOLEAN /\ (id => container # "none")
  /\ start \in {"check", "create", "start", "logs", "started", "failed",
               "crashed", "attached"}
  /\ kill \in [pc : {"no", "remove", "returned"}, err : BOOLEAN, removeErr : BOOLEAN]
  /\ wait \in {"no", "waiting", "ok", "error"}
  /\ logs \in 0..MaxLines /\ copier \in {"none", "copying", "done"}
  /\ start = "started" => id /\ copier # "none"

(* "secure pinning of images" (line 76): whenever the tag moves, even      *)
(* between the check and the creation, no other image is run.              *)
PinnedImage == Pinned /\ container # "none" => image = cfg.SHA256

(* When Kill returns nil, the plugin is not running, and never runs again, *)
(* even if the Start before it had failed half-way; and whatever Kill      *)
(* returns, nothing of a debugged plugin is left, even if it could not be  *)
(* stopped (lines 267-276), unless the program has been restarted.         *)
KilledIsGone ==
  kill.pc = "returned" =>
    /\ ~ kill.err => container # "running"
    /\ Debug /\ id /\ ~ kill.removeErr => container = "removed"

(* After a successful Kill, Wait returns and the two streams end: nobody   *)
(* stays blocked on a plugin that is gone.                                 *)
KillReleasesAll ==
  kill.pc = "returned" /\ ~ kill.err ~> wait # "waiting" /\ copier # "copying"
=============================================================================
