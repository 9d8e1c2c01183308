------------------------------ MODULE HardFork -------------------------------
(***************************************************************************)
(* The hard-fork schedule (src/src/cryptonote_basic/hardfork.cpp): one     *)
(* table per network and the linear scans that answer questions about it. *)
(* Each scan is a RECURSIVE operator over the table index that follows the *)
(* code's loop, break included.  A query (network, version, height) is    *)
(* the state; every step poses another one, and the invariants compare    *)
(* each scan with a declarative reference built from sets of entries.      *)
(***************************************************************************)
EXTENDS Integers, Sequences, FiniteSets, FiniteSetsExt, Functions

CONSTANTS
    Nets,           \* networks the queries range over
    QueryVersions   \* versions the queries range over

\* std::nullopt of the optional heights.
None == -1

HF(version, snode_revision, height, time) ==
    [version |-> version, snode_revision |-> snode_revision,
     height |-> height, time |-> time]

mainnet_hard_forks ==
    << HF(7, 0, 0, 1503046577),   HF(8, 0, 100, 1692426487),
       HF(9, 0, 102, 1692426900), HF(10, 0, 110, 1692427080),
       HF(11, 0, 118, 1692427200), HF(12, 0, 120, 1692427260),
       HF(13, 0, 125, 1692427500), HF(14, 0, 128, 1692427620),
       HF(15, 0, 130, 1692427740) >>

testnet_hard_forks ==
    << HF(7, 0, 0, 1533631121),      HF(8, 0, 2, 1533631122),
       HF(9, 0, 3, 1533631123),      HF(10, 0, 4, 1542681077),
       HF(11, 0, 5, 1551223964),     HF(12, 0, 75471, 1561608000),
       HF(13, 0, 127028, 1568440800), HF(14, 0, 174630, 1575075600),
       HF(15, 0, 244777, 1583940000), HF(16, 0, 382222, 1600468200),
       HF(17, 0, 447275, 1608276840), HF(18, 0, 501750, 1616631051),
       HF(18, 1, 578637, 1624040400) >>

devnet_hard_forks ==
    << HF(7, 0, 0, 1599848400),  HF(11, 0, 2, 1599848400),
       HF(12, 0, 3, 1599848400), HF(13, 0, 4, 1599848400),
       HF(15, 0, 5, 1599848400), HF(16, 0, 99, 1599848400) >>

\* is_ordered: starts at version 7; (version, snode_revision) strictly
\* increasing lexicographically; heights strictly, times weakly increasing.
PairLeq(a, b) ==
    a.version < b.version \/ (a.version = b.version /\ a.snode_revision <= b.snode_revision)

is_ordered(forks) ==
    /\ Len(forks) > 0 /\ forks[1].version >= 7
    /\ \A i \in 2..Len(forks) :
          ~ (PairLeq(forks[i], forks[i - 1])
             \/ forks[i].height <= forks[i - 1].height
             \/ forks[i].time < forks[i - 1].time)

\* The static_asserts.
ASSUME is_ordered(mainnet_hard_forks) /\ is_ordered(testnet_hard_forks)
       /\ is_ordered(devnet_hard_forks)

\* get_hard_forks: FAKECHAIN's vector is empty unless a test fills it; an
\* unknown network has the empty range.
get_hard_forks(nettype) ==
    CASE nettype = "MAINNET" -> mainnet_hard_forks
      [] nettype = "TESTNET" -> testnet_hard_forks
      [] nettype = "DEVNET"  -> devnet_hard_forks
      [] OTHER               -> << >>

(***************************************************************************)
(* The scans, i is the loop's iterator.                                    *)
(***************************************************************************)
RECURSIVE HeightsLoop(_, _, _, _)
HeightsLoop(T, version, i, found) ==
    IF i > Len(T) THEN found
    ELSE IF T[i].version > version
         THEN IF found.first # None THEN [found EXCEPT !.second = T[i].height - 1]
              ELSE found
    ELSE HeightsLoop(T, version, i + 1,
                     IF T[i].version = version THEN [found EXCEPT !.first = T[i].height]
                     ELSE found)

get_hard_fork_heights(nettype, version) ==
    HeightsLoop(get_hard_forks(nettype), version, 1, [first |-> None, second |-> None])

\* Seeded fault (mutation testing): the comparison written as it->version > version.
RECURSIVE CeilLoopStrict(_, _, _)
CeilLoopStrict(T, version, i) ==
    IF i > Len(T) THEN version
    ELSE IF T[i].version > version THEN T[i].version
    ELSE CeilLoopStrict(T, version, i + 1)

RECURSIVE CeilLoop(_, _, _)
CeilLoop(T, version, i) ==
    IF i > Len(T) THEN version
    ELSE IF T[i].version >= version THEN T[i].version
    ELSE CeilLoop(T, version, i + 1)

hard_fork_ceil(nettype, version) == CeilLoop(get_hard_forks(nettype), version, 1)

\* Seeded fault (mutation testing): the break test written as height >= it->height.
RECURSIVE RevisionLoopStrict(_, _, _, _)
RevisionLoopStrict(T, height, i, result) ==
    IF i > Len(T) \/ T[i].height >= height THEN result
    ELSE RevisionLoopStrict(T, height, i + 1, <<T[i].version, T[i].snode_revision>>)

\* result is value-initialised to (0, 0).
RECURSIVE RevisionLoop(_, _, _, _)
RevisionLoop(T, height, i, result) ==
    IF i > Len(T) \/ T[i].height > height THEN result
    ELSE RevisionLoop(T, height, i + 1, <<T[i].version, T[i].snode_revision>>)

get_network_version_revision(nettype, height) ==
    RevisionLoop(get_hard_forks(nettype), height, 1, <<0, 0>>)

\* get_network_version (hardfork.h) is the first of the pair.
is_hard_fork_at_least(type, version, height) ==
    get_network_version_revision(type, height)[1] >= version

\* Seeded fault (mutation testing): result.second assigned inside the height test.
RECURSIVE IdealLoopInside(_, _, _, _)
IdealLoopInside(T, height, i, result) ==
    IF i > Len(T) THEN result
    ELSE IdealLoopInside(T, height, i + 1,
                         IF T[i].height <= height THEN <<T[i].version, T[i].version>>
                         ELSE result)

RECURSIVE IdealLoop(_, _, _, _)
IdealLoop(T, height, i, result) ==
    IF i > Len(T) THEN result
    ELSE IdealLoop(T, height, i + 1,
                   <<IF T[i].height <= height THEN T[i].version ELSE result[1],
                     T[i].version>>)

get_ideal_block_version(nettype, height) ==
    IdealLoop(get_hard_forks(nettype), height, 1, <<0, 0>>)

(***************************************************************************)
(* The query machine.                                                     *)
(***************************************************************************)
VARIABLE q

\* The heights where a scan can change its answer: 0 and either side of
\* every activation height.
SampleHeights(n) ==
    {0} \cup UNION {{e.height - 1, e.height, e.height + 1} \cap Nat :
                    e \in Range(get_hard_forks(n))}

Queries ==
    UNION {[net : {n}, version : QueryVersions, height : SampleHeights(n)] : n \in Nets}

Init == q \in Queries
Pose == q' \in Queries
Spec == Init /\ [][Pose]_q

(***************************************************************************)
(* Reference definitions, from the table as a set of entries (spec 4).    *)
(***************************************************************************)
Entries == Range(get_hard_forks(q.net))
ActiveEntries(h) == {e \in Entries : e.height <= h}
LastActive(h) == CHOOSE e \in ActiveEntries(h) :
                     \A f \in ActiveEntries(h) : f.height <= e.height
MinOrNone(S) == IF S = {} THEN None ELSE Min(S)

\* The version and revision in force at q.height: those of the entry with
\* the highest activation height at or below it.
ActiveVersionMatchesSchedule ==
    get_network_version_revision(q.net, q.height) =
        IF ActiveEntries(q.height) = {} THEN <<0, 0>>
        ELSE <<LastActive(q.height).version, LastActive(q.height).snode_revision>>

\* hard_fork_ceil: the smallest scheduled version at or above the one asked
\* for, or the one asked for when none is.
CeilIsLeastScheduledAbove ==
    hard_fork_ceil(q.net, q.version) =
        LET above == {e.version : e \in {x \in Entries : x.version >= q.version}}
        IN  IF above = {} THEN q.version ELSE Min(above)

\* get_ideal_block_version: the version in force at the height, and the
\* newest version the schedule knows.
IdealVersionIsActiveAndNewest ==
    get_ideal_block_version(q.net, q.height) =
        << IF ActiveEntries(q.height) = {} THEN 0 ELSE LastActive(q.height).version,
           IF Entries = {} THEN 0 ELSE Max({e.version : e \in Entries}) >>

\* get_hard_fork_heights(version): the inclusive range of heights at which
\* the version is in force (spec 4: "the inclusive height range during
\* which a given version was active"): from its first activation to one
\* below the next version's.
HeightRangeIsActivePeriod ==
    LET first == MinOrNone({e.height : e \in {x \in Entries : x.version = q.version}})
        next  == MinOrNone({e.height : e \in {x \in Entries : x.version > q.version}})
    IN  get_hard_fork_heights(q.net, q.version) =
            [first  |-> first,
             second |-> IF first = None \/ next = None THEN None ELSE next - 1]

=============================================================================
