------------------------------- MODULE Saga -------------------------------
(***************************************************************************)
(* What compensating workflows promise, without saying how: the steps of a *)
(* saga that have a compensation complete one after the other; once the    *)
(* saga gives up, nothing more completes and the completed steps are       *)
(* undone, each of them once, the latest first.  WorkflowRunner implements *)
(* this with a stack that several calls share (SagaRefinement there).      *)
(***************************************************************************)
EXTENDS Integers, Sequences

CONSTANTS Sagas, Steps

VARIABLES
  done,      \* steps with a compensation, in the order they completed
  undone,    \* steps whose compensation was called, in call order
  unwinding  \* the sagas that have given up

vars == <<done, undone, unwinding>>

Init ==
  /\ done = [s \in Sagas |-> <<>>]
  /\ undone = [s \in Sagas |-> <<>>]
  /\ unwinding = {}

Complete(s, x) ==
  /\ s \notin unwinding
  /\ done' = [done EXCEPT ![s] = Append(@, x)]
  /\ UNCHANGED <<undone, unwinding>>

GiveUp(s) ==
  /\ unwinding' = unwinding \cup {s}
  /\ UNCHANGED <<done, undone>>

\* The latest completed step that has not been undone.
UndoLatest(s) ==
  /\ s \in unwinding
  /\ Len(undone[s]) < Len(done[s])
  /\ undone' = [undone EXCEPT ![s] =
                  Append(@, done[s][Len(done[s]) - Len(undone[s])])]
  /\ UNCHANGED <<done, unwinding>>

Next ==
  \E s \in Sagas :
    \/ \E x \in Steps : Complete(s, x)
    \/ GiveUp(s)
    \/ UndoLatest(s)

Spec == Init /\ [][Next]_vars
=============================================================================
