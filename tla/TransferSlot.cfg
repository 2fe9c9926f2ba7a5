CONSTANTS
    Workers = {w1, w2}
    Kinds = {"airdrop_recv", "airdrop_send", "qs_recv", "qs_recv_lan", "qs_send"}
    MaxId = 4
    Stale = 1
SYMMETRY Threads
SPECIFICATION Spec
INVARIANTS  HoldsHaveReleasers AirDropKeepsRadio
