----------------------------- MODULE MCQueries ------------------------------
(***************************************************************************)
(* The pure code of cryptonote_basic checked in one run: the scans of the  *)
(* hard-fork schedule (HardFork) and the difficulty arithmetic             *)
(* (Difficulty, as instantiated by MCDifficulty).  Both are query machines *)
(* over the one variable q; a query is a schedule question                 *)
(* [net, version, height], a hash check or a retargeting window, and each  *)
(* step poses another question of the same kind.                           *)
(***************************************************************************)
EXTENDS MCDifficulty

CONSTANTS
    Nets,           \* networks the schedule queries range over
    QueryVersions   \* versions the schedule queries range over

HF == INSTANCE HardFork

IsScheduleQuery == "net" \in DOMAIN q

PoseSchedule == IsScheduleQuery /\ HF!Pose

QueriesSpec ==
    /\ q \in HF!Queries \cup HashQueries \cup WindowQueries
    /\ [][PoseSchedule \/ PoseHash \/ PoseWindow]_q

\* get_network_version_revision(height): the version and snode revision
\* of the entry with the highest activation height at or below the height.
ActiveVersionMatchesSchedule ==
    IsScheduleQuery => HF!ActiveVersionMatchesSchedule

\* hard_fork_ceil(version): the smallest scheduled version at or above the
\* one asked for, or the one asked for when none is.
CeilIsLeastScheduledAbove ==
    IsScheduleQuery => HF!CeilIsLeastScheduledAbove

\* get_ideal_block_version(height): the version in force at the height and
\* the newest version of the table.
IdealVersionIsActiveAndNewest ==
    IsScheduleQuery => HF!IdealVersionIsActiveAndNewest

=============================================================================
