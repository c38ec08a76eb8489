--------------------------- MODULE MCWorkflowRuntime ---------------------------
(***************************************************************************)
(* An instance of WorkflowRuntime for TLC.                                 *)
(***************************************************************************)
EXTENDS WorkflowRuntime

CONSTANTS w1, w2

\* A document and the message that waits for its approval, or facts that are
\* looked up once the person has said where, and a task.
TwoPlans == {[kinds |-> <<"draft", "mail">>, asks |-> {}],
             [kinds |-> <<"read", "task">>, asks |-> {1}]}
==============================================================================
