---------------------------- MODULE MCCoordinator ----------------------------
EXTENDS CoordinatorHistory, TLC

\* Request slots, endpoints and ids are interchangeable.
Symmetric == UNION {Permutations(Req), Permutations(Endpoint \ Keyless),
                    Permutations(Id)}
=============================================================================
