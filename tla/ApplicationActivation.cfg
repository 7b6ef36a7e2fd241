\* Two activations, one deactivation, two processes: four requests, three failures.
CONSTANTS
    Activations = {a1, a2}
    Deactivations = {d1}
    Processes = {p1, p2}
    None = None
    MaxRequests = 4
    MaxFaults = 3
SPECIFICATION Spec
SYMMETRY Symmetry
CHECK_DEADLOCK FALSE
INVARIANTS ActivationConsistent Settled OneRelease NoReplay RetiredIsGone
PROPERTIES VerdictsStand
