---------------------------- MODULE PerfCounters ----------------------------
(***************************************************************************)
(* The performance accounting of one source (perf_port_unit_update and     *)
(* perf_port_unit_query, in a build with PROFILING): how many frames came, *)
(* and how many are missing according to the sequence numbers of the       *)
(* autopilot, which run around.  The autopilot and the link are outside:   *)
(* frames arrive in order, and some of them not at all.                    *)
(***************************************************************************)
EXTENDS Integers

CONSTANTS SeqRange,     \* the values of mavlink_message_t.seq, 256
          MaxSent       \* bound: frames the autopilot and others send in all

ASSUME PerfAssumption == SeqRange \in Nat \ {0} /\ MaxSent \in Nat

VARIABLES
    prev_seq, succ_count, drop_count,   \* struct perf_port_unit_t
    last_succ_count, last_drop_count,
    seq,        \* the next sequence number of the autopilot
    burst,      \* how many of its frames were lost since the last that came
    lost,       \* how many were lost since the first that came
    offset,     \* the count the first one made up
    started,    \* a frame of the autopilot has come
    total,      \* how many frames were sent, by the autopilot and others
    reported    \* the sums of the reports of successes and drops

unitVars == <<prev_seq, succ_count, drop_count, last_succ_count, last_drop_count>>
linkVars == <<seq, burst, lost, offset, started, total>>
perfVars == <<unitVars, linkVars, reported>>

Seqs == 0 .. SeqRange - 1

\* seq is a uint8_t.
NextSeq == IF seq = SeqRange - 1 THEN 0 ELSE seq + 1

\* perf_init; the autopilot may be anywhere in its numbers.
PerfInit ==
    /\ prev_seq = 0 /\ succ_count = 0 /\ drop_count = 0
    /\ last_succ_count = 0 /\ last_drop_count = 0
    /\ seq \in Seqs /\ burst = 0 /\ lost = 0 /\ offset = 0 /\ started = FALSE
    /\ total = 0
    /\ reported = [succ |-> 0, drop |-> 0]

\* A frame is lost.  The numbers cannot tell a burst of SeqRange from none, so
\* no burst is that long here.
FrameLost ==
    /\ total < MaxSent /\ burst < SeqRange - 1
    /\ total' = total + 1 /\ seq' = NextSeq
    /\ burst' = IF started THEN burst + 1 ELSE 0
    /\ lost' = IF started THEN lost + 1 ELSE 0
    /\ UNCHANGED <<unitVars, offset, started, reported>>

\* Mutant of Missing: a negative difference stays so.
MissingUnwrapped(s) == s - prev_seq - 1

\* The drops that sequence number s stands for.
Missing(s) == LET d == s - prev_seq - 1 IN IF d < 0 THEN SeqRange + d ELSE d

\* A frame of the autopilot (compid 1) comes.
FrameComes ==
    /\ total < MaxSent
    /\ total' = total + 1 /\ seq' = NextSeq
    /\ succ_count' = succ_count + 1
    /\ drop_count' = drop_count + Missing(seq)
    /\ prev_seq' = seq
    /\ burst' = 0 /\ started' = TRUE
    /\ offset' = IF started THEN offset ELSE Missing(seq)
    /\ UNCHANGED <<last_succ_count, last_drop_count, lost, reported>>

\* A frame of another component, whose numbers are not looked at.
OtherFrameComes ==
    /\ total < MaxSent
    /\ total' = total + 1
    /\ succ_count' = succ_count + 1
    /\ UNCHANGED <<prev_seq, drop_count, last_succ_count, last_drop_count,
                   seq, burst, lost, offset, started, reported>>

\* Mutant of LastDrops: the number of the last report is not brought up to date.
LastDropsKept == last_drop_count

\* What perf_port_unit_query keeps for the next report.
LastDrops == drop_count

\* perf_show reports what has changed since its last report.
Query ==
    /\ reported' = [succ |-> reported.succ + succ_count - last_succ_count,
                    drop |-> reported.drop + drop_count - last_drop_count]
    /\ last_succ_count' = succ_count
    /\ last_drop_count' = LastDrops
    /\ UNCHANGED <<prev_seq, succ_count, drop_count, linkVars>>

PerfNext == FrameLost \/ FrameComes \/ OtherFrameComes \/ Query

PerfSpec == PerfInit /\ [][PerfNext]_perfVars
-----------------------------------------------------------------------------
(***************************************************************************)
(* Properties.                                                             *)
(***************************************************************************)

\* The counters are counters, and prev_seq a sequence number.
PerfTypeOK ==
    /\ prev_seq \in Seqs /\ seq \in Seqs
    /\ succ_count \in Nat /\ drop_count \in Nat
    /\ last_succ_count \in Nat /\ last_drop_count \in Nat
    /\ burst \in Seqs /\ lost \in Nat /\ offset \in Seqs
    /\ started \in BOOLEAN /\ total \in Nat
    /\ reported \in [succ : Nat, drop : Nat]

\* perf_port_unit_update counts exactly the frames that are missing between two
\* that came, through every wrap of the numbers, plus what it made up for the
\* first one, which it compares with 0: fewer than SeqRange, once.
DropsExact ==
    /\ started => drop_count = offset + lost - burst
    /\ ~started => drop_count = 0

\* The reports of perf_port_unit_query add up to the counts: no frame is
\* reported twice or not at all.
ReportsAddUp ==
    /\ reported.drop = last_drop_count /\ reported.drop <= drop_count
    /\ reported.succ = last_succ_count /\ reported.succ <= succ_count
=============================================================================
