\* get_hard_fork_heights against the active period of each version, on the testnet table, where version 18 has two snode revisions.
CONSTANTS
    Nets = {"TESTNET"}
    QueryVersions = {6, 7, 8, 9, 10, 11, 12, 13, 14, 15, 16, 17, 18, 19}
SPECIFICATION Spec
INVARIANT HeightRangeIsActivePeriod
