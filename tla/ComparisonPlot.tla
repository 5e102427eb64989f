--------------------------- MODULE ComparisonPlot ---------------------------
(***************************************************************************)
(* The plot of a comparison: frontend/src/views/Observability/             *)
(* WorkflowStatistics/WorkflowComparisonPlot, with the grouping of the     *)
(* runs by date in WorkflowComparisonTable that makes its data.            *)
(*                                                                         *)
(* The averages are built date by date over all scenarios, each date at    *)
(* its first appearance, and sorted by date at the end.                    *)
(*                                                                         *)
(* A time is a number of hours, two of which make a day and four a month.  *)
(* Scores are multiples of 36, so that every average is a whole number;    *)
(* what toFixed(2) rounds away is left out.                                *)
(***************************************************************************)
EXTENDS Naturals, FiniteSets, Sequences, SequencesExt

CONSTANTS Times, Scores,    \* when a run ended and what it scored
          MaxRuns           \* bound: runs of a scenario

VARIABLES
    series,         \* the runs of the scenarios compared, in the order they came
    granularity,
    plot            \* what is drawn: the average line and the two extremes

plotVars == <<series, granularity, plot>>

Granularities == {"Hourly", "Daily", "Monthly"}
DateOf(time, g) == CASE g = "Hourly" -> time
                     [] g = "Daily" -> time \div 2
                     [] OTHER -> time \div 4

Total(f) == FoldSeq(LAMBDA x, sum : x + sum, 0, f)
Mean(f) == Total(f) \div Len(f)

Has(seq, x) == \E i \in DOMAIN seq : seq[i] = x
AppendNew(seq, x) == IF Has(seq, x) THEN seq ELSE Append(seq, x)

\* _.groupBy: the dates in the order of their first run, and each one's mean.
Grouped(runs, g) ==
    LET dates == FoldLeft(LAMBDA ds, r : AppendNew(ds, DateOf(r.at, g)), <<>>, runs)
        ScoresOf(d) == LET of == SelectSeq(runs, LAMBDA r : DateOf(r.at, g) = d)
                       IN  [i \in DOMAIN of |-> of[i].score]
    IN  [x |-> dates, y |-> [i \in DOMAIN dates |-> Mean(ScoresOf(dates[i]))]]

At(line, d) == line.y[CHOOSE i \in DOMAIN line.x : line.x[i] = d]

\* One step of avgWorkflowsAll: a date is averaged at its first appearance only.
AddDate(avg, lines, d) ==
    LET with == SelectSeq(lines, LAMBDA l : Has(l.x, d) /\ ~ Has(avg.x, d))
    IN  IF with = <<>> THEN avg
        ELSE [x |-> Append(avg.x, d),
              y |-> Append(avg.y, Mean([k \in DOMAIN with |-> At(with[k], d)]))]

avgWorkflowsAll(lines) ==
    FoldLeft(LAMBDA avg, d : AddDate(avg, lines, d), [x |-> <<>>, y |-> <<>>],
             FlattenSeq([i \in DOMAIN lines |-> lines[i].x]))

\* The averages by their dates' order, then the dates in order.
argSort(values, dates) ==
    LET pairs == SortSeq([i \in DOMAIN dates |-> [arg |-> dates[i], item |-> values[i]]],
                         LAMBDA p, q : p.arg > q.arg)
    IN  [i \in DOMAIN pairs |-> pairs[i].item]

\* The scenarios with the highest and the lowest mean, the first ones of
\* those; a scenario without points has NaN for its mean and spoils both.
Edges(lines) ==
    IF \E i \in DOMAIN lines : lines[i].x = <<>> THEN [high |-> 0, low |-> 0]
    ELSE LET normalized(i) == Mean([j \in DOMAIN lines[i].y |-> 6 * lines[i].y[j]])
             highest == {i \in DOMAIN lines : \A j \in DOMAIN lines :
                                                 normalized(i) >= normalized(j)}
             lowest == {i \in DOMAIN lines : \A j \in DOMAIN lines :
                                                 normalized(i) <= normalized(j)}
         IN  [high |-> Min(highest), low |-> Min(lowest)]

processData(runs, g) ==
    LET lines == [i \in DOMAIN runs |-> Grouped(runs[i], g)]
        avg == avgWorkflowsAll(lines)
    IN  [x |-> SortSeq(avg.x, LAMBDA a, b : a < b),
         y |-> Reverse(argSort(avg.y, avg.x)),
         edges |-> Edges(lines)]

Series == UNION {[1 .. n -> [at : Times, score : Scores]] : n \in 0 .. MaxRuns}

PlotInit ==
    /\ series \in [1 .. 2 -> Series]
    /\ granularity = "Daily"
    /\ plot = processData(series, granularity)

\* The effect of [currentGranularity].
handleChangeInGranularity(g) ==
    /\ g # granularity
    /\ granularity' = g
    /\ plot' = processData(series, g)
    /\ UNCHANGED series

PlotNext == \E g \in Granularities : handleChangeInGranularity(g)

PlotSpec == PlotInit /\ [][PlotNext]_plotVars

-----------------------------------------------------------------------------
(* Properties.                                                             *)

\* The scores of a scenario at a date, straight from its runs.
ScoresAt(i, d) ==
    LET of == SelectSeq(series[i], LAMBDA r : DateOf(r.at, granularity) = d)
    IN  [k \in DOMAIN of |-> of[k].score]

\* Whatever the order and the overlap of the runs, the line of the averages
\* goes through every date that a scenario has runs of, once and from left to
\* right, at the mean of the scenarios that have it; and no scenario scores
\* better than the one named best or worse than the one named worst.
PlotsTheAverages ==
    LET with(d) == SelectSeq(<<1, 2>>, LAMBDA i : ScoresAt(i, d) # <<>>)
        mean(i) == LET ys == Grouped(series[i], granularity).y
                   IN  (6 * Total(ys)) \div Len(ys)
        dates == {DateOf(r.at, granularity) : r \in ToSet(series[1]) \cup ToSet(series[2])}
    IN  /\ ToSet(plot.x) = dates
        /\ \A i, j \in DOMAIN plot.x : i < j => plot.x[i] < plot.x[j]
        /\ \A i \in DOMAIN plot.x :
              LET of == with(plot.x[i])
              IN  plot.y[i] = Mean([k \in DOMAIN of |-> Mean(ScoresAt(of[k], plot.x[i]))])
        /\ plot.edges.high # 0 =>
              \A i \in 1 .. 2 : mean(i) \in mean(plot.edges.low) .. mean(plot.edges.high)
=============================================================================
