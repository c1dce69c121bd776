----------------------------- MODULE MatchFeatures -----------------------------
(***************************************************************************)
(* The features of one batch, from the rows of a CSV file to the gold      *)
(* matrix: how the normaliser of apps/go-ingestor names the players, how   *)
(* apps/rust-structured-streamer flattens the two envelopes into one       *)
(* Bronze schema, and how the silver and gold layers are computed from it. *)
(*                                                                         *)
(* Around the computation stands as much of the streamer as decides which  *)
(* rows meet in a batch: it consumes the file in order, may be set back,   *)
(* and closes a batch whenever it likes (by count, bytes or time).         *)
(***************************************************************************)
EXTENDS Integers, SequencesExt

CONSTANTS
    Rows,          \* the CSV rows that may occur
    None,          \* an empty CSV cell, a null column
    MaxRows,       \* bound: length of the file
    MaxRewinds     \* bound: how often the consumer is set back

\* A row of kill_match_stats_final_*.csv or of a match summary.
DeathRow(r)   == r.kind = "death"
SummaryRow(r) == r.kind = "summary"

ASSUME RowsAssumption ==
    \A r \in Rows :
        \/ /\ DeathRow(r)
           /\ {r.killer, r.victim} # {None}
           /\ {r.time, r.distance} \subseteq Int \cup {None}
        \/ /\ SummaryRow(r)
           /\ r.kills \in Nat

\* An empty cell is neither a number nor a name.
ASSUME NoneAssumption ==
    /\ None \notin Int
    /\ \A r \in Rows : DeathRow(r) => [form |-> "plain", of |-> r.killer] # None

ASSUME BoundsAssumption == MaxRows \in Nat

VARIABLES
    source,      \* the CSV file, a sequence of rows
    position,    \* how many of its rows have been consumed
    buffer,      \* the batch being gathered: numbers of rows
    batch,       \* the rows of the batch that was projected last
    gold,        \* and the gold rows computed from it, by match and player
    rewinds      \* how often the consumer has been set back

vars == <<source, position, buffer, batch, gold, rewinds>>

-------------------------------------------------------------------------------
(* From a CSV row to a Bronze row *)

\* The envelope carries a digest of a player's name, the payload of a kill
\* event the name itself.  Both are identifiers of the lake, and differ.
Digest(name) == [form |-> "digest", of |-> name]
Plain(name)  == IF name = None THEN None ELSE [form |-> "plain", of |-> name]

\* normalizeMatchDeaths and normalizeFinishPlacement.  The event id digests the
\* file and the record index, so it stands for the number of the row.
Envelope(row, i) ==
    IF DeathRow(row)
    THEN [event |-> i, match |-> row.match,
          player |-> Digest(IF row.killer = None THEN row.victim ELSE row.killer),
          killer |-> Plain(row.killer), victim |-> Plain(row.victim),
          time |-> row.time, weapon |-> row.weapon, distance |-> row.distance,
          kills |-> None]
    ELSE [event |-> i, match |-> row.match, player |-> Digest(row.player),
          killer |-> None, victim |-> None,
          time |-> None, weapon |-> None, distance |-> None,
          kills |-> row.kills]

\* events_to_record_batch: both envelopes share one schema, and a player-stat
\* becomes a row whose killer is the player.  The four coordinates of a kill
\* are the one distance computed from them, null if one of them is.
BronzeRow(row, i) ==
    LET e == Envelope(row, i)
    IN  IF DeathRow(row) THEN e ELSE [e EXCEPT !.killer = e.player]

\* Mutation: rows of a repeated event id are kept.
KeepRepeated(events) == events

\* The first of each event id: EventDeduplicator before the Bronze file is
\* written, process_silver when it is read.  What is left keeps its place.
Deduplicated(events) ==
    Restrict(events, {n \in DOMAIN events :
                        \A m \in DOMAIN events :
                            m < n => events[m].event # events[n].event})

\* The Bronze file of a batch.
Bronze(rows) ==
    Deduplicated([n \in DOMAIN rows |-> BronzeRow(source[rows[n]], rows[n])])

-------------------------------------------------------------------------------
(* Silver: process_silver *)

\* Every row is a kill event, by the killer's name or else by the player's id.
KillEvents(rows) ==
    [n \in DOMAIN rows |->
        LET r == rows[n]
        IN  [match |-> r.match, time |-> r.time, weapon |-> r.weapon,
             distance |-> r.distance,
             killer |-> IF r.killer = None THEN r.player ELSE r.killer]]

PlayerKey(r) == <<r.match, r.player>>
VictimKey(r) == <<r.match, r.victim>>

\* player_stats_map: an entry for the player of each row and for each victim.
\* Of the eight statistics, all of them a maximum that starts at 0, only the
\* kills are read again.
PlayerMatch(rows) ==
    LET all  == Range(rows)
        keys == {PlayerKey(r) : r \in all}
                \cup {VictimKey(r) : r \in {v \in all : v.victim # None}}
    IN  [key \in keys |-> Max({0} \cup
            {r.kills : r \in {s \in all : PlayerKey(s) = key /\ s.kills # None}})]

-------------------------------------------------------------------------------
(* Gold: generate_gold *)

\* Columns are functions from the places of the rows to their cells.
Known(column)  == Restrict(column, {n \in DOMAIN column : column[n] # None})

\* The differences of neighbours, unless one is negative.
Differences(t) ==
    [n \in {m \in 1..(Len(t) - 1) : t[m + 1] - t[m] >= 0} |-> t[n + 1] - t[n]]

\* Mutation: the times are taken in the order in which the kills arrived.
IntervalsAsArrived(times) ==
    LET places == CHOOSE s \in SetToSeqs(DOMAIN times) :
                      \A m, n \in DOMAIN s : m < n => s[m] < s[n]
    IN  Differences([n \in DOMAIN places |-> times[places[n]]])

\* Any order of the cells in which none is above a later one.
Sorted(values) ==
    LET places == CHOOSE s \in SetToSeqs(DOMAIN values) :
                      \A m, n \in DOMAIN s : m < n => values[s[m]] <= values[s[n]]
    IN  [n \in DOMAIN places |-> values[places[n]]]

\* The intervals between the kills, in the order of time.
Intervals(times) == Differences(Sorted(times))

\* Twice the median, so that the mean of the middle two is an integer.
TwiceMedian(values) ==
    LET v   == Sorted(values)
        mid == Len(v) \div 2        \* the code's index from 0
    IN  IF Len(v) % 2 = 0 THEN v[mid] + v[mid + 1] ELSE 2 * v[mid + 1]

\* The features of a player with kill records.
Features(records) ==
    LET column(f) == [n \in DOMAIN records |-> records[n][f]]
        intervals == Intervals(Known(column("time")))
        distances == Known(column("distance"))
        gaps      == Range(intervals)
    IN  [kills         |-> Cardinality(DOMAIN records),
         minInterval   |-> IF gaps = {} THEN None ELSE Min(gaps),
         twiceMedian   |-> IF Range(distances) = {} THEN None ELSE TwiceMedian(distances),
         shortCount    |-> Cardinality({n \in DOMAIN intervals : intervals[n] <= 10}),
         uniqueWeapons |-> Cardinality(Range(Known(column("weapon"))))]

\* The features of a player without any.
NoRecords(kills) ==
    [kills |-> kills, minInterval |-> None, twiceMedian |-> None,
     shortCount |-> 0, uniqueWeapons |-> 0]

Gold(killEvents, playerMatch) ==
    [key \in DOMAIN playerMatch |->
        LET records == Restrict(killEvents,
                                {n \in DOMAIN killEvents :
                                    <<killEvents[n].match, killEvents[n].killer>> = key})
        IN  IF DOMAIN records # {} THEN Features(records)
            ELSE NoRecords(playerMatch[key])]

\* What becomes of a batch.
Projection(rows) ==
    LET unique == Deduplicated(Bronze(rows))
    IN  Gold(KillEvents(unique), PlayerMatch(unique))

-------------------------------------------------------------------------------
(* The batches *)

Init ==
    /\ source \in BoundedSeq(Rows, MaxRows) \ {<<>>}
    /\ position = 0
    /\ buffer = <<>>
    /\ batch = <<>>
    /\ gold = <<>>
    /\ rewinds = 0

Receive ==
    /\ position < Len(source)
    /\ position' = position + 1
    /\ buffer' = Append(buffer, position + 1)
    /\ UNCHANGED <<source, batch, gold, rewinds>>

\* The streamer is set back to its committed offset, and its memory is lost (a
\* restart) or kept (a rebalance).
SetBack ==
    /\ rewinds < MaxRewinds
    /\ position' \in 0..(position - 1)
    /\ buffer' \in {<<>>, buffer}
    /\ rewinds' = rewinds + 1
    /\ UNCHANGED <<source, batch, gold>>

\* process_manifest computes the layers of one batch.
ProcessManifest ==
    /\ buffer # <<>>
    /\ batch' = buffer
    /\ gold' = Projection(buffer)
    /\ buffer' = <<>>
    /\ UNCHANGED <<source, position, rewinds>>

Next == Receive \/ SetBack \/ ProcessManifest

Spec == Init /\ [][Next]_vars

-------------------------------------------------------------------------------
(* Properties *)

\* The ids of the source: who a row counts as a kill of.
KillerOf(i) ==
    LET row == source[i]
    IN  IF SummaryRow(row) THEN Digest(row.player)
        ELSE IF row.killer = None THEN Digest(row.victim) ELSE Plain(row.killer)

KillsBy(rows, key) ==
    {i \in Range(rows) : <<source[i].match, KillerOf(i)>> = key}
Timed(kills)   == {i \in kills : DeathRow(source[i]) /\ source[i].time # None}
Placed(kills)  == {i \in kills : DeathRow(source[i]) /\ source[i].distance # None}
Distance(i)    == source[i].distance
Gap(i, j)      == IF source[i].time < source[j].time
                  THEN source[j].time - source[i].time
                  ELSE source[i].time - source[j].time
Precedes(i, j) == \/ source[i].time < source[j].time
                  \/ source[i].time = source[j].time /\ i < j

\* d is the k-th smallest of the distances of `kills`, by counting.
IsKth(kills, k, d) ==
    /\ Cardinality({i \in kills : Distance(i) < d}) < k
    /\ Cardinality({i \in kills : Distance(i) <= d}) >= k
Kth(kills, k) == CHOOSE d \in {Distance(i) : i \in kills} : IsKth(kills, k, d)

\* The features by their meaning: over the set of distinct rows, without an
\* order and without neighbours.
Reference(kills) ==
    LET timed  == Timed(kills)
        placed == Placed(kills)
        n      == Cardinality(placed)
        gaps   == {Gap(p[1], p[2]) : p \in {q \in timed \X timed : q[1] # q[2]}}
    IN  [kills         |-> Cardinality(kills),
         minInterval   |-> IF gaps = {} THEN None ELSE Min(gaps),
         twiceMedian   |-> IF placed = {} THEN None
                           ELSE Kth(placed, (n + 1) \div 2) + Kth(placed, (n + 2) \div 2),
         shortCount    |-> Cardinality({i \in timed :
                               \E j \in timed : Precedes(j, i) /\ Gap(i, j) <= 10}),
         uniqueWeapons |-> Cardinality({source[i].weapon :
                               i \in {k \in kills : DeathRow(source[k])}} \ {None})]

\* Sorting and scanning neighbours (gold.rs:144-200) finds what the features
\* mean: the closest pair of kills, how many kills follow another within ten
\* seconds, the median by rank.  Neither the order of the rows in the batch nor
\* a redelivered row makes a difference, and a player without kills has none of
\* the features.
GoldMeetsReference ==
    \A key \in DOMAIN gold : gold[key] = Reference(KillsBy(batch, key))

\* The features are computed batch by batch (gold.rs:29), so a match that spans
\* batches gives a player partial rows.  None of them makes a player look
\* worse than the whole file does: no kill is counted twice, no interval is
\* shorter, no short interval or weapon is added.
SplitNeverExaggerates ==
    LET whole == Projection([i \in DOMAIN source |-> i])
    IN  \A key \in DOMAIN gold :
            LET part == gold[key]
                all  == whole[key]
            IN  /\ part.kills <= all.kills
                /\ part.shortCount <= all.shortCount
                /\ part.uniqueWeapons <= all.uniqueWeapons
                /\ part.minInterval # None =>
                       /\ all.minInterval # None
                       /\ part.minInterval >= all.minInterval

\* gold.rs:45 groups the kill events by killer so that the features of each
\* player come from his kills (gold.rs:28): who has killed in a batch has a
\* gold row, under one of his ids, that counts his kills.
KillsAreCredited ==
    \A i \in Range(batch) :
        LET row == source[i]
            key == <<row.match, Plain(row.killer)>>
        IN  DeathRow(row) /\ row.killer # None =>
                \E id \in {Plain(row.killer), Digest(row.killer)} :
                    /\ <<row.match, id>> \in DOMAIN gold
                    /\ gold[<<row.match, id>>].kills = Cardinality(KillsBy(batch, key))
================================================================================
