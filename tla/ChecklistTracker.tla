--------------------------- MODULE ChecklistTracker ---------------------------
(***************************************************************************)
(* scripts/checklist-tracker.js.  A file is the sequence of its lines that   *)
(* the parser tells apart; the tracker loads the files, analyzes them for    *)
(* each report it gives, and once more for its exit code.                   *)
(***************************************************************************)
EXTENDS Arrays, FiniteSetsExt

CONSTANTS
    ChecklistFiles, \* the contents that a file may have
    Owners,         \* who owns items
    Files           \* how many files the tracker is called with

ASSUME FilesAreSoMany == Files \in Nat

\* What the parser tells apart: the heading of a phase and an item, with a mark.
Marks == {"open", "in_progress", "done"}

Line == [kind : {"phase"}, number : Nat]
        \union [kind : {"item"}, mark : Marks, owner : STRING, due : BOOLEAN]

ASSUME FilesAreLines == ChecklistFiles \subseteq Seq(Line)

VARIABLES
    files,      \* the contents of the files
    tracker,    \* the process: where it is, how many files it has read, the checklists
    summary     \* report.summary and report.recommendations

trackerVars == <<files, tracker, summary>>

------------------------------------------------------------------------------
\* An item counts from the first phase on; one that is done is not in progress.
Items(lines) == {i \in DOMAIN lines : /\ lines[i].kind = "item"
                                      /\ \E j \in 1..i : lines[j].kind = "phase"}

PhaseOf(lines, i) == lines[Max({j \in 1..i : lines[j].kind = "phase"})].number

Phases(lines) == {lines[i].number : i \in {j \in DOMAIN lines : lines[j].kind = "phase"}}

Completed(lines)  == {i \in Items(lines) : lines[i].mark = "done"}
InProgress(lines) == {i \in Items(lines) : lines[i].mark = "in_progress"}
NotStarted(lines) == {i \in Items(lines) : lines[i].mark = "open"}

\* Math.round of a percentage, 0 of nothing.
Percentage(part, total) == IF total = 0 THEN 0 ELSE (200 * part + total) \div (2 * total)

ParseChecklist(lines) ==
    [lines |-> lines,
     stats |-> [total      |-> Cardinality(Items(lines)),
                completed  |-> Cardinality(Completed(lines)),
                inProgress |-> Cardinality(InProgress(lines)),
                notStarted |-> Cardinality(NotStarted(lines)),
                percentage |-> Percentage(Cardinality(Completed(lines)),
                                          Cardinality(Items(lines)))]]

------------------------------------------------------------------------------
\* The sizes of the sets that the checklists of the tracker have, added up.
Counted(sets) == Sum([c \in DOMAIN sets |-> Cardinality(sets[c])])

InPhase(lines, n) == {i \in Items(lines) : PhaseOf(lines, i) = n}
OwnedBy(lines, o) == {i \in Items(lines) : lines[i].owner = o}
Overdue(lines)    == {i \in Items(lines) : lines[i].due /\ lines[i].mark # "done"}

ByPhase(lists) ==
    [n \in UNION {Phases(lists[c].lines) : c \in DOMAIN lists} |->
        [total     |-> Counted([c \in DOMAIN lists |-> InPhase(lists[c].lines, n)]),
         completed |-> Counted([c \in DOMAIN lists |->
                           InPhase(lists[c].lines, n) \intersect Completed(lists[c].lines)])]]

\* The owners that have an item, of which those that are due and not done are overdue.
ByOwner(lists) ==
    LET Owned(o) == [c \in DOMAIN lists |-> OwnedBy(lists[c].lines, o)]
    IN [o \in {p \in Owners : Counted(Owned(p)) > 0} |->
           [total     |-> Counted(Owned(o)),
            completed |-> Counted([c \in DOMAIN lists |->
                              Owned(o)[c] \intersect Completed(lists[c].lines)]),
            overdue   |-> Counted([c \in DOMAIN lists |->
                              Owned(o)[c] \intersect Overdue(lists[c].lines)])]]

\* The average counts items without an owner too, as the code does.
Recommendations(s) ==
    LET owners == DOMAIN s.byOwner
    IN {<<"blocker", n>> : n \in {m \in DOMAIN s.byPhase :
            m <= 3 /\ Percentage(s.byPhase[m].completed, s.byPhase[m].total) < 30}}
       \union {<<"overdue", o>> : o \in {p \in owners : s.byOwner[p].overdue > 0}}
       \union {<<"workload", o>> : o \in {p \in owners :
            /\ Cardinality(owners) > 1
            /\ 2 * Cardinality(owners) * s.byOwner[p].total > 3 * s.totalItems}}
       \union {<<"progress", x>> : x \in {y \in {s.overallPercentage} : y < 50}}

NoSummary == [totalItems |-> 0, completedItems |-> 0, overallPercentage |-> 0,
              byPhase |-> << >>, byOwner |-> << >>]

\* What analyze adds to the totals that it starts from.
Aggregate(from, checklists) ==
    LET total     == from.totalItems
                     + Sum([c \in DOMAIN checklists |-> checklists[c].stats.total])
        completed == from.completedItems
                     + Sum([c \in DOMAIN checklists |-> checklists[c].stats.completed])
    IN [totalItems        |-> total,
        completedItems    |-> completed,
        overallPercentage |-> Percentage(completed, total),
        byPhase           |-> ByPhase(checklists),
        byOwner           |-> ByOwner(checklists)]

\* Mutant: the summary of the last analysis is not reset.
AnalyzeAgain(last, checklists) == Aggregate(last, checklists)

\* Each analysis starts from an empty summary.
Analyze(last, checklists) == Aggregate(NoSummary, checklists)

\* The steps of the text report that the recommendations do not name: the first phase of
\* those that have the least done.
NextSteps(s) ==
    LET Done(n) == Percentage(s.byPhase[n].completed, s.byPhase[n].total)
        lowest  == {n \in DOMAIN s.byPhase : /\ Done(n) < 100
                                             /\ \A m \in DOMAIN s.byPhase :
                                                   \/ Done(m) > Done(n)
                                                   \/ Done(m) = Done(n) /\ m >= n}
    IN {<<"focus", n>> : n \in lowest}

Rates(shares) == [x \in DOMAIN shares |-> Percentage(shares[x].completed, shares[x].total)]

\* The first three items of a checklist that are not done.
PendingItems(lines) ==
    LET pending == Items(lines) \ Completed(lines)
    IN {i \in pending : Cardinality({j \in pending : j < i}) < 3}

\* The json format is the analysis alone.
GenerateReport(format, s, checklists) ==
    IF format = "json" THEN [summary |-> s, recommendations |-> Recommendations(s)]
    ELSE [summary         |-> s,
          recommendations |-> Recommendations(s),
          phases          |-> Rates(s.byPhase),
          owners          |-> Rates(s.byOwner),
          next            |-> [c \in DOMAIN checklists |-> PendingItems(checklists[c].lines)],
          steps           |-> NextSteps(s)]

------------------------------------------------------------------------------
NoOptions == [display |-> FALSE, output |-> "none"]

TrackerInit ==
    /\ files \in [1..Files -> ChecklistFiles]
    /\ tracker = [at |-> "start", options |-> NoOptions, read |-> 0, checklists |-> << >>,
                  exit |-> 0]
    /\ summary = NoSummary

Exit(code) == tracker' = [tracker EXCEPT !.at = "exit", !.exit = code]

\* Without arguments the usage is shown; without files, or with one that is not there, the
\* process ends. An output has a format, text unless another is given.
ParseArguments ==
    /\ tracker.at = "start"
    /\ \/ Exit(0)
       \/ Exit(1)
       \/ \E display \in BOOLEAN, output \in {"none", "text", "json"} :
             tracker' = [tracker EXCEPT !.at = "load", !.options.display = display,
                                        !.options.output = output]
    /\ UNCHANGED <<files, summary>>

\* A file that cannot be read is reported and left out.
LoadChecklists ==
    /\ tracker.at = "load" /\ tracker.read < Files
    /\ \E readable \in BOOLEAN :
          tracker' = [tracker EXCEPT
             !.read = @ + 1,
             !.checklists = IF readable THEN Append(@, ParseChecklist(files[tracker.read + 1]))
                            ELSE @]
    /\ UNCHANGED <<files, summary>>

\* The options --display and --output ask for a report each.
DisplayReport ==
    /\ tracker.at = "load" /\ tracker.read = Files
    /\ summary' = IF tracker.options.display THEN Analyze(summary, tracker.checklists)
                  ELSE summary
    /\ tracker' = [tracker EXCEPT !.at = "save"]
    /\ UNCHANGED files

\* An output file that cannot be written ends the process.
SaveTrackerReport ==
    /\ tracker.at = "save"
    /\ IF tracker.options.output = "none"
       THEN UNCHANGED summary /\ tracker' = [tracker EXCEPT !.at = "rate"]
       ELSE /\ summary' = Analyze(summary, tracker.checklists)
            /\ Exit(1) \/ tracker' = [tracker EXCEPT !.at = "rate"]
    /\ UNCHANGED files

Rate ==
    /\ tracker.at = "rate"
    /\ summary' = Analyze(summary, tracker.checklists)
    /\ Exit(IF summary'.overallPercentage < 50 THEN 1 ELSE 0)
    /\ UNCHANGED files

Track == ParseArguments \/ LoadChecklists \/ DisplayReport \/ SaveTrackerReport \/ Rate
=============================================================================
