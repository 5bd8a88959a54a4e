----------------------------- MODULE GatedWriter ----------------------------
(***************************************************************************)
(* gatedwriter/writer.go: writes are held in a buffer until Flush, then    *)
(* let through.  Both run under the lock.  Data is the sequence numbers of *)
(* its bytes; the underlying writer may take only some of them and fail.   *)
(***************************************************************************)
EXTENDS Integers, Sequences, SequencesExt

CONSTANTS
  MaxWrite,          \* bound: longest Write
  MaxByte            \* bound: bytes offered

VARIABLES
  flush,
  buf,
  out,               \* what the underlying writer took
  offered,           \* bytes given to Write so far
  accepted,          \* history: the bytes Write said it wrote, in order
  failedFlush        \* history: a Flush returned an error

vars == <<flush, buf, out, offered, accepted, failedFlush>>

Init ==
  /\ flush = FALSE /\ buf = << >> /\ out = << >>
  /\ offered = 0 /\ accepted = << >> /\ failedFlush = FALSE

Bytes(n) == [i \in 1..n |-> offered + i]

Buffered(n) ==
  /\ ~ flush
  /\ buf' = buf \o Bytes(n) /\ accepted' = accepted \o Bytes(n)
  /\ offered' = offered + n
  /\ UNCHANGED <<flush, out, failedFlush>>

(* Past the gate the count is the underlying writer's.                     *)
Passed(n) ==
  /\ flush
  /\ \E taken \in 0..n :
       /\ out' = out \o SubSeq(Bytes(n), 1, taken)
       /\ accepted' = accepted \o SubSeq(Bytes(n), 1, taken)
  /\ offered' = offered + n
  /\ UNCHANGED <<flush, buf, failedFlush>>

(* A mutant: a failed flush keeps the whole buffer.                        *)
FlushKeepsAll ==
  /\ flush' = TRUE
  /\ \E taken \in 0..Len(buf) :
       /\ out' = out \o SubSeq(buf, 1, taken)
       /\ buf' = IF taken = Len(buf) THEN << >> ELSE buf
       /\ failedFlush' = (failedFlush \/ taken < Len(buf))
  /\ UNCHANGED <<offered, accepted>>

(* Flush: buf.WriteTo offers the buffer once and keeps what was not taken. *)
Flush ==
  /\ flush' = TRUE
  /\ \E taken \in 0..Len(buf) :
       /\ out' = out \o SubSeq(buf, 1, taken)
       /\ buf' = SubSeq(buf, taken + 1, Len(buf))
       /\ failedFlush' = (failedFlush \/ taken < Len(buf))
  /\ UNCHANGED <<offered, accepted>>

Next ==
  \/ Flush
  \/ \E n \in 1..MaxWrite : offered + n <= MaxByte /\ (Buffered(n) \/ Passed(n))

Spec == Init /\ [][Next]_vars

-----------------------------------------------------------------------------
(* Types; nothing reaches the underlying writer before the gate opens.     *)
TypeOK ==
  /\ flush \in BOOLEAN /\ failedFlush \in BOOLEAN /\ offered \in 0..MaxByte
  /\ \A s \in {buf, out, accepted} : s \in Seq(1..offered)
  /\ ~ flush => out = << >>

(* Every byte Write said it wrote is in the output or still held, once,    *)
(* through partial writes, failed flushes and flushes repeated; in the     *)
(* order of the writes, until a Flush fails.  (After a failed Flush a      *)
(* Write overtakes what the buffer still holds.)                           *)
NothingLostOrDoubled ==
  /\ IsInjective(out \o buf)
  /\ ToSet(out \o buf) = ToSet(accepted)
  /\ ~ failedFlush => out \o buf = accepted
=============================================================================
