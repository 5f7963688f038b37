------------------------------ MODULE MCEngine ------------------------------
(* Three parts of the engine that share no variable, each in behaviours of *)
(* its own: loading the weights, forward passes, and the experts' kernels. *)
EXTENDS WeightLoading, ForwardPass, FusedExperts

VARIABLE part
vars == <<part, loadVars, forwardVars, expertVars>>

\* What the other parts are while one runs.
AnyLoad == tp = 2 /\ vocab = 8
AnyForward == /\ engine.prefill = "paged" /\ engine.decode = "paged"
              /\ engine.graphs = {} /\ ~engine.speculating

Init ==
    /\ part \in {"load", "forward", "experts"}
    /\ LoadInit /\ ForwardInit /\ ExpertsInit
    /\ part # "load" => AnyLoad
    /\ part # "forward" => AnyForward

Next ==
    \/ part = "load" /\ LoadNext /\ UNCHANGED <<part, forwardVars, expertVars>>
    \/ part = "forward" /\ ForwardNext /\ UNCHANGED <<part, loadVars, expertVars>>
    \/ part = "experts" /\ ExpertsNext /\ UNCHANGED <<part, loadVars, forwardVars>>

Spec == Init /\ [][Next]_vars

\* Three requests for two rows, so that one is used again.
MCPromptLen == <<3, 1, 1>>
MCOutputLen == <<1, 2, 4>>
MCGraphLists == {{}, {1}, {2}}
\* Blocks that do not divide what they tile, and a group cut short at the end.
MCSmallConfig == [blockM |-> 1, blockN |-> 3, groupM |-> 1]
MCLargeConfig == [blockM |-> 2, blockN |-> 3, groupM |-> 4]
=============================================================================
