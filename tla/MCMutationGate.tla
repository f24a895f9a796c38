-------------------------- MODULE MCMutationGate --------------------------
EXTENDS MutationGate, TLC

CONSTANTS p1, p2, decisions, server

MCBaselines ==
    [p \in {p1, p2} |-> [mutantCount |-> 1, timeouts |-> 0, errors |-> 0, survived |-> 0,
                         noCoverage |-> 0, wallTime |-> 100]]
=============================================================================
