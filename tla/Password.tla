------------------------------- MODULE Password -------------------------------
(***************************************************************************)
(* password: Read asks for a line on a terminal that does not echo.  A     *)
(* goroutine sets the terminal, reads byte by byte and sets it back; Read  *)
(* waits for it or for SIGINT, whichever comes first.  A goroutine whose   *)
(* Read was interrupted goes on.  The terminal and its user are external.  *)
(***************************************************************************)
EXTENDS Integers, Sequences, SequencesExt, Lists

CONSTANTS
  MaxCalls, MaxKeys, \* bounds
  AfterInterrupt     \* is Read called again while an interrupted one's goroutine reads?

Call == 1..MaxCalls

(* removeiTermDelete looks for a space and a delete.                       *)
Key == {"a", "space", "delete", "enter", "ctrl-c"}
CtrlC == "ctrl-c"

VARIABLES
  platform,          \* which read() was built
  isTerminal,
  mode,              \* of the terminal
  bytes, taken,      \* what was typed into it; how much of it was read
  open,              \* the terminal was not hung up
  pc,                \* Call -> "idle", "waiting" in its select, "returned"
  start,             \* Call -> history: the bytes read before it
  signalled,         \* Call -> a SIGINT is in its channel
  reader,            \* Call -> its goroutine
  result,            \* Call -> what Read returned
  echoed             \* history: a key was echoed while a Read was reading

vars == <<platform, isTerminal, mode, bytes, taken, open,
          pc, start, signalled, reader, result, echoed>>

Nothing == [err |-> "none"]
Text(line) == [err |-> "", text |-> line]
Error == [err |-> "error"]
ErrInterrupted == [err |-> "interrupted"]

Init ==
  /\ platform \in {"unix", "solaris", "windows"} /\ isTerminal \in BOOLEAN
  /\ mode = "normal" /\ bytes = << >> /\ taken = 0 /\ open = TRUE
  /\ pc = [c \in Call |-> "idle"] /\ start = [c \in Call |-> 0]
  /\ signalled = [c \in Call |-> FALSE]
  /\ reader = [c \in Call |-> [pc |-> "none", oldState |-> "normal", resultBuf |-> << >>, result |-> Nothing]]
  /\ result = [c \in Call |-> Nothing] /\ echoed = FALSE

(* Raw mode passes every byte on at once; the others by lines, and turn    *)
(* Ctrl-C into SIGINT.                                                     *)
HiddenMode == IF platform = "unix" THEN "raw" ELSE "no echo"

BytesOf(key) ==
  CASE key = "enter" /\ platform = "windows" -> <<"cr", "lf">>
    [] key = "enter" /\ mode = "raw"         -> <<"cr">>
    [] key = "enter"                         -> <<"lf">>
    [] OTHER                                 -> <<key>>

Unread == SubSeq(bytes, taken + 1, Len(bytes))
Readable == Unread # << >> /\ (mode = "raw" \/ ~ open \/ "lf" \in ToSet(Unread))

-----------------------------------------------------------------------------
Waiting(c) == pc[c] = "waiting"
Reading(c) == reader[c].pc = "reading"

(* signal.Notify and the start of the goroutine.                           *)
Read(c) ==
  /\ pc[c] = "idle" /\ \A d \in 1..c - 1 : pc[d] = "returned"
  /\ AfterInterrupt \/ \A d \in 1..c - 1 : reader[d].pc = "done"
  /\ pc' = [pc EXCEPT ![c] = "waiting"]
  /\ start' = [start EXCEPT ![c] = taken]
  /\ reader' = [reader EXCEPT ![c].pc = "started"]
  /\ UNCHANGED <<platform, isTerminal, mode, bytes, taken, open, signalled, result, echoed>>

Ends(c, res) == reader' = [reader EXCEPT ![c].pc = "done", ![c].result = res]

(* No terminal, or its mode cannot be got or set.                          *)
CannotHide(c) ==
  /\ reader[c].pc = "started"
  /\ Ends(c, Error)
  /\ UNCHANGED <<platform, isTerminal, mode, bytes, taken, open, pc, start, signalled, result, echoed>>

makeRaw(c) ==
  /\ reader[c].pc = "started" /\ isTerminal
  /\ reader' = [reader EXCEPT ![c].pc = "reading", ![c].oldState = mode]
  /\ mode' = HiddenMode
  /\ UNCHANGED <<platform, isTerminal, bytes, taken, open, pc, start, signalled, result, echoed>>

(* A mutant: the terminal is set back only if the line came to its end.    *)
RestoreOnSuccess(c, res) ==
  Ends(c, res) /\ mode' = IF res.err = "" THEN reader[c].oldState ELSE mode

(* The deferred Restore.                                                   *)
Restore(c, res) == Ends(c, res) /\ mode' = reader[c].oldState

(* One byte.  A carriage return ends the line, except on Windows.          *)
readline(c) ==
  LET b == bytes[taken + 1]
  IN  /\ Reading(c) /\ Readable
      /\ taken' = taken + 1
      /\ \/ /\ b = "lf" \/ (b = "cr" /\ platform # "windows")
            /\ Restore(c, Text(reader[c].resultBuf))
         \/ b = "cr" /\ platform = "windows" /\ UNCHANGED <<reader, mode>>
         \/ b = CtrlC /\ Restore(c, ErrInterrupted)
         \/ /\ b \notin {"lf", "cr", CtrlC}
            /\ reader' = [reader EXCEPT ![c].resultBuf = Append(@, b)] /\ UNCHANGED mode
      /\ UNCHANGED <<platform, isTerminal, bytes, open, pc, start, signalled, result, echoed>>

(* A hung up terminal: f.Read fails, or there is nothing more to read.     *)
ReadError(c) ==
  /\ Reading(c) /\ ~ open
  /\ Restore(c, Error)
  /\ UNCHANGED <<platform, isTerminal, bytes, taken, open, pc, start, signalled, result, echoed>>

EndOfFile(c) ==
  /\ Reading(c) /\ ~ open /\ Unread = << >>
  /\ Restore(c, Text(reader[c].resultBuf))
  /\ UNCHANGED <<platform, isTerminal, bytes, taken, open, pc, start, signalled, result, echoed>>

removeiTermDelete(line) ==
  IF IsPrefix(<<"space", "delete">>, line) THEN SubSeq(line, 3, Len(line)) ELSE line

(* The two cases of the select.                                            *)
Return(c, res) ==
  /\ Waiting(c)
  /\ pc' = [pc EXCEPT ![c] = "returned"] /\ result' = [result EXCEPT ![c] = res]
  /\ UNCHANGED <<platform, isTerminal, mode, bytes, taken, open, start, signalled, reader, echoed>>

Interrupted(c) == signalled[c] /\ Return(c, ErrInterrupted)

Done(c) ==
  LET res == reader[c].result
  IN  /\ reader[c].pc = "done"
      /\ Return(c, IF res.err = "" THEN Text(removeiTermDelete(res.text)) ELSE res)

-----------------------------------------------------------------------------
(* The user types.  Outside raw mode Ctrl-C is SIGINT and takes what was   *)
(* not read with it; with no Read waiting it ends the program.  Delete is  *)
(* handed on in raw mode only.                                             *)
Type(key) ==
  /\ open /\ isTerminal /\ Len(bytes) < MaxKeys
  /\ key = "delete" => mode = "raw"
  /\ IF key = CtrlC /\ mode # "raw"
       THEN \E c \in Call :
              /\ Waiting(c) /\ signalled' = [signalled EXCEPT ![c] = TRUE]
              /\ bytes' = SubSeq(bytes, 1, taken)
       ELSE bytes' = bytes \o BytesOf(key) /\ UNCHANGED signalled
  /\ echoed' = (echoed \/ (mode = "normal" /\ \E c \in Call : Waiting(c) /\ Reading(c)))
  /\ UNCHANGED <<platform, isTerminal, mode, taken, open, pc, start, reader, result>>

(* SIGINT from elsewhere; the terminal is hung up.                         *)
Interrupt(c) ==
  /\ Waiting(c) /\ ~ signalled[c]
  /\ signalled' = [signalled EXCEPT ![c] = TRUE]
  /\ UNCHANGED <<platform, isTerminal, mode, bytes, taken, open, pc, start, reader, result, echoed>>

HangUp ==
  /\ open /\ open' = FALSE
  /\ UNCHANGED <<platform, isTerminal, mode, bytes, taken, pc, start, signalled, reader, result, echoed>>

Next ==
  \/ \E c \in Call :
       \/ Read(c) \/ CannotHide(c) \/ makeRaw(c) \/ readline(c) \/ ReadError(c) \/ EndOfFile(c)
       \/ Interrupted(c) \/ Done(c) \/ Interrupt(c)
  \/ \E key \in Key : Type(key)
  \/ HangUp

Spec == Init /\ [][Next]_vars

-----------------------------------------------------------------------------
(* What may be read; a carriage return is nothing on Windows.              *)
Byte == (Key \ {"enter"}) \cup {"cr", "lf"}
Counted == IF platform = "windows" THEN Byte \ {"cr"} ELSE Byte

(* The line that starts after the first n bytes.                           *)
FirstLine(rest) ==
  LET ends == {i \in DOMAIN rest : rest[i] \in {"cr", "lf"}}
  IN  IF ends = {} THEN rest ELSE SubSeq(rest, 1, (CHOOSE i \in ends : \A j \in ends : i <= j) - 1)

LineFrom(n) == FirstLine(Only(SubSeq(bytes, n + 1, Len(bytes)), Counted))

(* password.go:20-21: "The password will not be echoed back to the user":  *)
(* no key is, from when the terminal is set until Read returns.            *)
NotEchoed == ~ echoed

(* That, and the terminal is as it was once no goroutine reads, whichever  *)
(* way the reading ended; and Read returns the whole line that was typed   *)
(* for it and nothing of another's.  A Read beside the goroutine that a    *)
(* SIGINT left behind is excluded (AfterInterrupt): it would take part of  *)
(* the line and set the terminal back.                                     *)
PasswordSound ==
  /\ NotEchoed
  /\ (\A c \in Call : ~ Reading(c)) => mode = "normal"
  /\ \A c \in Call :
       result[c].err = "" => result[c].text = removeiTermDelete(LineFrom(start[c]))
=============================================================================
