------------------------------ MODULE UnixSocket ------------------------------
(***************************************************************************)
(* listenerutil/listener.go: UnixSocketListener binds a listener to a path *)
(* and gives the socket file its owner and mode; the rmListener it returns *)
(* removes the file when it is closed.  A process that starts again, or a  *)
(* second one, uses the same path.  The file system and the socket are     *)
(* external: a file is the listener that bound it, or a leftover.          *)
(***************************************************************************)
EXTENDS Integers, FiniteSets

CONSTANT Listener    \* calls of UnixSocketListener with the one path

VARIABLES
  file,              \* what is at the path
  owner, fileMode,   \* of the file: as made, or as configured for a listener
  config,            \* Listener -> the UnixSocketsConfig it is given
  pc,                \* Listener -> where its call is, or what became of it
  open,              \* listeners whose socket accepts connections
  overlapped         \* history: a call began while another listener had the path

vars == <<file, owner, fileMode, config, pc, open, overlapped>>

None == "none"
Leftover == "leftover"

(* A user and a group are looked up unless they are numbers; each can be   *)
(* unknown.  An owner may not be allowed, a mode not be one.               *)
Setting == {"", "good", "bad"}
UnixSocketsConfig ==
  [given : {TRUE}, User : Setting, Group : Setting, Mode : Setting]
  \cup {[given |-> FALSE]}

Init ==
  /\ file \in {None, Leftover} /\ owner = "default" /\ fileMode = "default"
  /\ config \in [Listener -> UnixSocketsConfig]
  /\ pc = [l \in Listener |-> "idle"]
  /\ open = {} /\ overlapped = FALSE

To(l, next) == pc' = [pc EXCEPT ![l] = next]

-----------------------------------------------------------------------------
(* os.Remove of what a process left behind, or another is listening on.    *)
HasPath == {"listen", "set owner", "set mode", "listening", "remove"}

RemoveOld(l) ==
  /\ pc[l] = "idle"
  /\ overlapped' = (overlapped \/ \E k \in Listener : pc[k] \in HasPath)
  /\ \/ file' = None /\ To(l, "listen")
     \/ file # None /\ UNCHANGED file /\ To(l, "failed")      \* it may not be removed
  /\ UNCHANGED <<owner, fileMode, config, open>>

(* A mutant: no user, no settings.                                         *)
AfterListenByUser(l) ==
  IF ~ config[l].given \/ config[l].User = "" THEN "listening" ELSE "set owner"

AfterListen(l) == IF config[l].given THEN "set owner" ELSE "listening"

Listen(l) ==
  /\ pc[l] = "listen"
  /\ IF file = None
       THEN /\ file' = l /\ owner' = "default" /\ fileMode' = "default"
            /\ open' = open \cup {l} /\ To(l, AfterListen(l))
       ELSE To(l, "failed") /\ UNCHANGED <<file, owner, fileMode, open>>
  /\ UNCHANGED <<config, overlapped>>

(* setFilePermissions: whoever's the file at the path is by then.  The     *)
(* listener of a call that fails stays open, and nobody has it.            *)
OwnerFails(l) == config[l].User = "bad" \/ config[l].Group = "bad" \/ file = None

Chown(l) ==
  /\ pc[l] = "set owner"
  /\ IF OwnerFails(l) THEN To(l, "abandoned") /\ UNCHANGED owner
     ELSE To(l, "set mode") /\ owner' = l
  /\ UNCHANGED <<file, fileMode, config, open, overlapped>>

Chmod(l) ==
  /\ pc[l] = "set mode"
  /\ IF config[l].Mode = "bad" \/ (config[l].Mode = "good" /\ file = None)
       THEN To(l, "abandoned") /\ UNCHANGED fileMode
       ELSE To(l, "listening") /\ fileMode' = IF config[l].Mode = "good" THEN l ELSE fileMode
  /\ UNCHANGED <<file, owner, config, open, overlapped>>

-----------------------------------------------------------------------------
(* rmListener.Close: Go's own Close of a socket that it bound unlinks the  *)
(* path, whoever's file is there, and ...                                  *)
CloseSocket(l) ==
  /\ pc[l] = "listening"
  /\ open' = open \ {l} /\ file' = None
  /\ To(l, "remove")
  /\ UNCHANGED <<owner, fileMode, config, overlapped>>

(* ... os.Remove does so again: it finds no file, which Close returns as   *)
(* an error, or one made since.                                            *)
RemoveFile(l) ==
  /\ pc[l] = "remove"
  /\ file' = None
  /\ To(l, "closed")
  /\ UNCHANGED <<owner, fileMode, config, open, overlapped>>

(* The process dies: its sockets are closed and its file stays.            *)
Crash(l) ==
  /\ pc[l] \notin {"idle", "failed", "closed", "crashed"}
  /\ open' = open \ {l}
  /\ To(l, "crashed")
  /\ UNCHANGED <<file, owner, fileMode, config, overlapped>>

Next ==
  \E l \in Listener :
    \/ RemoveOld(l) \/ Listen(l) \/ Chown(l) \/ Chmod(l)
    \/ CloseSocket(l) \/ RemoveFile(l) \/ Crash(l)

Spec == Init /\ [][Next]_vars

-----------------------------------------------------------------------------
(* lines 36-38, 50-72: calls that use the path one after the other, after  *)
(* crashes and failures too, find it free, so only a file that may not be  *)
(* removed stops them; a listener is returned with its own file at the     *)
(* path, with the owner and mode it asked for; and at no time, with any    *)
(* overlap, does a listener that was closed leave its file.                *)
SocketSound ==
  /\ ~ overlapped =>
       \A l \in Listener :
         /\ pc[l] = "listen" => file = None
         /\ pc[l] = "listening" =>
              /\ file = l /\ l \in open
              /\ owner = IF config[l].given THEN l ELSE "default"
              /\ config[l].given =>
                   /\ "bad" \notin {config[l].User, config[l].Group, config[l].Mode}
                   /\ fileMode = IF config[l].Mode = "" THEN "default" ELSE l
  /\ file \in Listener => pc[file] \notin {"idle", "listen", "remove", "closed"}
=============================================================================
