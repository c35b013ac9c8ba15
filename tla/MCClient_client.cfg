\* One client follows the self-rescue path, the other calls as it likes.
CONSTANTS
    a = a
    b = b
    Apps = {"app"}
    Plains = {"good"}
    Ips = {"ip1"}
    Nonces = {"n1"}
    MaxDevices = 12
    Clients = {a, b}
    Rescuers = {a}
    Nobody = Nobody
    Code <- TheCode
    Limit = 1
    MaxCalls <- CallsOf
    MaxFaults = 2
SPECIFICATION FairSpec
INVARIANTS TypeOK AnswersTrue SlotsAccounted RetriesBounded
PROPERTIES ImplementsRegistry Rescued
CHECK_DEADLOCK FALSE
