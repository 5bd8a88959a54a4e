----------------------------- MODULE PermitPool -----------------------------
(***************************************************************************)
(* permitpool/permitpool.go: a counting semaphore made of a buffered Go    *)
(* channel.  Workers acquire a permit, work, and release it; a worker      *)
(* whose Acquire returned an error does neither.  The runtime serves the   *)
(* senders blocked on a channel first come first served, and a receive     *)
(* hands the freed slot to the first of them in the same step.             *)
(***************************************************************************)
EXTENDS Integers, FiniteSets, Sequences, SequencesExt

CONSTANTS
  Worker,
  Requested          \* the argument of New

ASSUME ConstantsAssumption == IsFiniteSet(Worker) /\ Requested \in Int

DefaultParallelOperations == 128

Permits == IF Requested < 1 THEN DefaultParallelOperations ELSE Requested

VARIABLES
  sem,               \* len(c.sem): permits taken, what CurrentPermits returns
  senders,           \* workers blocked in Acquire, in the channel's order
  state,             \* Worker -> what it does
  cancelled          \* workers whose context is done

vars == <<sem, senders, state, cancelled>>

Running == {w \in Worker : state[w] = "running"}

Init ==
  /\ sem = 0 /\ senders = << >>
  /\ state = [w \in Worker |-> "idle"]
  /\ cancelled = {}

-----------------------------------------------------------------------------
(* Acquire's select: either ready case may be taken; with neither the      *)
(* worker queues up.                                                       *)
AcquireAtOnce(w) ==
  /\ state[w] = "idle" /\ sem < Permits
  /\ sem' = sem + 1
  /\ state' = [state EXCEPT ![w] = "running"]
  /\ UNCHANGED <<senders, cancelled>>

AcquireBlocks(w) ==
  /\ state[w] = "idle" /\ sem = Permits /\ w \notin cancelled
  /\ senders' = Append(senders, w)
  /\ state' = [state EXCEPT ![w] = "waiting"]
  /\ UNCHANGED <<sem, cancelled>>

(* The error is returned; the worker's next call has another context.      *)
AcquireFails(w) ==
  /\ state[w] = "idle" /\ w \in cancelled
  /\ cancelled' = cancelled \ {w}
  /\ UNCHANGED <<sem, senders, state>>

(* A mutant: the cancelled worker leaves a permit taken.                   *)
CancelTakesPermit(w) ==
  /\ \E i \in DOMAIN senders :
       senders[i] = w /\ senders' = RemoveAt(senders, i)
  /\ sem < 2 * Permits /\ sem' = sem + 1
  /\ state' = [state EXCEPT ![w] = "idle"]
  /\ UNCHANGED cancelled

(* A context is cancelled.  If its worker is blocked, closing Done takes   *)
(* it out of the queue there and then, and Acquire returns the error.      *)
CancelWaiting(w) ==
  /\ \E i \in DOMAIN senders :
       senders[i] = w /\ senders' = RemoveAt(senders, i)
  /\ state' = [state EXCEPT ![w] = "idle"]
  /\ UNCHANGED <<sem, cancelled>>

Cancel(w) ==
  /\ state[w] # "waiting" /\ w \notin cancelled
  /\ cancelled' = cancelled \cup {w}
  /\ UNCHANGED <<sem, senders, state>>

(* A mutant: the last sender is served first.                              *)
ReleaseWakesLast(w) ==
  /\ state[w] = "running" /\ sem > 0
  /\ IF senders = << >>
     THEN /\ sem' = sem - 1
          /\ state' = [state EXCEPT ![w] = "idle"]
          /\ UNCHANGED senders
     ELSE /\ senders' = Front(senders)
          /\ state' = [state EXCEPT ![w] = "idle", ![Last(senders)] = "running"]
          /\ UNCHANGED sem
  /\ cancelled' = cancelled \ {w}

(* Release receives: the slot is free, or the first sender's.  With        *)
(* nothing to receive it would block.                                      *)
Release(w) ==
  /\ state[w] = "running" /\ sem > 0
  /\ IF senders = << >>
     THEN /\ sem' = sem - 1
          /\ state' = [state EXCEPT ![w] = "idle"]
          /\ UNCHANGED senders
     ELSE /\ senders' = Tail(senders)
          /\ state' = [state EXCEPT ![w] = "idle", ![Head(senders)] = "running"]
          /\ UNCHANGED sem
  /\ cancelled' = cancelled \ {w}

Next ==
  \E w \in Worker :
    \/ AcquireAtOnce(w) \/ AcquireBlocks(w) \/ AcquireFails(w)
    \/ CancelWaiting(w) \/ Cancel(w) \/ Release(w)

Spec == Init /\ [][Next]_vars

(* Every operation ends and its deferred Release is called.                *)
FairSpec == Spec /\ \A w \in Worker : WF_vars(Release(w))

-----------------------------------------------------------------------------
(* Types, and the queue holds exactly the waiting workers, once each.      *)
TypeOK ==
  /\ sem \in Nat
  /\ senders \in Seq(Worker)
  /\ state \in [Worker -> {"idle", "waiting", "running"}]
  /\ cancelled \in SUBSET Worker
  /\ \A i \in 1..Len(senders) : state[senders[i]] = "waiting"
  /\ \A i, j \in 1..Len(senders) : senders[i] = senders[j] => i = j

(* "Pool is used to limit maximum outstanding requests" (line 12), through *)
(* every race of Release, a hand-over and a cancellation.                  *)
LimitRespected == Cardinality(Running) <= Permits

(* CurrentPermits "corresponds to the number of running operations"        *)
(* (lines 45-46): a cancelled Acquire neither keeps nor returns a permit.  *)
CurrentPermitsExact == sem = Cardinality(Running)

(* No permit is idle while somebody waits for one.                         *)
NoneWaitsInVain == senders # << >> => sem = Permits

(* "Acquire returns when a permit has been acquired, or if the context is  *)
(* canceled" (lines 29-30): every wait ends, whoever else competes.        *)
EveryWaitEnds == \A w \in Worker : state[w] = "waiting" ~> state[w] # "waiting"
=============================================================================
