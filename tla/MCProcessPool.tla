--------------------------- MODULE MCProcessPool ---------------------------
(***************************************************************************)
(* ProcessPool on small instances.                                         *)
(***************************************************************************)
EXTENDS PoolContract, TLC

(* Workers, calls and process ids are interchangeable.  Used only where    *)
(* no liveness property is checked.                                        *)
Symmetry == Permutations(Worker) \cup Permutations(Task)
              \cup Permutations(ProcessID)

(* A bound on the instance: the signal never comes.  Nothing obliges it    *)
(* to, so this removes behaviours but no fairness.                         *)
NoSignal == pc'[Main] # "draining"

(* Fresh process ids are interchangeable: where they are numbers, it is    *)
(* enough to look at the behaviours that draw them in order.  Unlike       *)
(* Symmetry this may be used with liveness properties.                     *)
InOrder ==
  \A a \in Agent : fresh'[a] \in ProcessID \ {fresh[a]} =>
    \A id \in ProcessID : id < fresh'[a] => proc[id].child # "none"

(* A bound on the instance: a behaviour has the signal, or a call with a   *)
(* small task, or a process that exits of itself, not two of these, and    *)
(* the monitor begins its rounds before there is a call.  Nothing obliges  *)
(* any of them to come, so this removes behaviours but no fairness.        *)
Apart ==
  LET signalled == pc'[Main] \in StopPC \cup (MainPC \ {"serving", "failed"})
      small     == \E t \in Task \ Large : call'[t] # "new"
      exited    == \E id \in ProcessID : proc'[id].child = "exited"
      ticks     == pc[Monitor] = "wait" /\ pc'[Monitor] = "scan"
  IN  /\ ~(signalled /\ small) /\ ~(signalled /\ exited) /\ ~(small /\ exited)
      /\ ticks => ~signalled /\ \A t \in Task : call[t] = "new"

=============================================================================
