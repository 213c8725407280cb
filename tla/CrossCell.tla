----------------------------- MODULE CrossCell -----------------------------
(***************************************************************************)
(* main() of src/main.cpp for several memory-cell types: nvsim() runs once *)
(* per cell file, one after the other, each with fresh Result arrays and a *)
(* fresh solution count; then the Results of every later cell are reduced  *)
(* into those of cell 0 with compareAndUpdate, and main() prints the       *)
(* Result of the optimization target (or of every target) when the total   *)
(* solution count is positive.                                             *)
(*                                                                         *)
(* The search of the running cell is SearchDriver itself, with the same   *)
(* variables; the estimator of each cell is independent, so `estimate` is *)
(* cleared with the rest of nvsim()'s state when the next cell starts.     *)
(***************************************************************************)
EXTENDS Result

CONSTANTS
  Configs, LocalWires, GlobalWires, Outcomes, Invalid, Unevaluated,
  IsCache, IsConstraintApplied, Tolerance, DieCount, InitialLayers,
  NumCells,               \* inputParameter->fileMemCell.size()
  OptTarget,              \* inputParameter->optimizationTarget
  PrintAllOptimals,       \* inputParameter->printAllOptimals
  TagTechChoices          \* the values of inputParameter->allowDifferentTagTech explored

ASSUME NumCells \in Nat \ {0}
ASSUME OptTarget \in Targets
ASSUME TagTechChoices \subseteq BOOLEAN

\* The variables of nvsim() for the running cell (see SearchDriver).
VARIABLES phase, idx, tgt, bestTag, bestData, numSolution, localWire,
          globalWire, techLayers, estimate, seen, optimum

VARIABLES
  stage,           \* "search", "reduce" or "printed"
  cellIdx,         \* the cellIdx of the running loop of main()
  dataRes,         \* bestDataResults[cellIdx][0..7]
  tagRes,          \* bestTagResults[cellIdx][0..7]
  dataTech,        \* bestDataResults[0][t].cellTech, as a cell index
  tagTech,         \* bestTagResults[0][t].cellTech, as a cell index
  totalSolutions,  \* totalSolutions
  failures,        \* failures
  printed,         \* the targets whose Result main() prints
  allowDifferentTagTech,  \* inputParameter->allowDifferentTagTech, read once
  cellResults      \* history: the data and tag Results each nvsim() returned,
                   \* its solutions and whether it failed

SD == INSTANCE SearchDriver

\* nvsim() starts for the next cell: SearchDriver's initial state, taken
\* by a step (fresh Result arrays, solutions = 0, basic wires, and the new
\* cell's own estimator).
StartNvsim ==
  /\ phase' = IF IsCache THEN "tagSearch" ELSE "dataSearch"
  /\ idx' = 1
  /\ tgt' = 1
  /\ bestTag' = [t \in Targets |-> NewResult(t)]
  /\ bestData' = [t \in Targets |-> NewResult(t)]
  /\ numSolution' = 0
  /\ localWire' = SD!BasicLocalWire
  /\ globalWire' = SD!BasicGlobalWire
  /\ estimate' = [k \in SD!Candidates |-> Unevaluated]
  /\ techLayers' = techLayers  \* tech is created once, before the cell loop
  /\ seen' = <<>>
  /\ optimum' = [t \in Targets |-> NewResult(t)]

nvsimVars == <<phase, idx, tgt, bestTag, bestData, numSolution, localWire,
               globalWire, techLayers, estimate, seen, optimum>>
mainVars == <<stage, cellIdx, dataRes, tagRes, dataTech, tagTech,
              totalSolutions, failures, printed, allowDifferentTagTech, cellResults>>
vars == <<nvsimVars, mainVars>>

Cells == 0..(NumCells - 1)

\* new Result[full_exploration] for every cell; nvsim() of cell 0 sets
\* the cellTech of its Results to cell 0.
Init ==
  /\ SD!Init
  /\ stage = "search"
  /\ cellIdx = 0
  /\ dataRes = [c \in Cells |-> [t \in Targets |-> NewResult(t)]]
  /\ tagRes = [c \in Cells |-> [t \in Targets |-> NewResult(t)]]
  /\ dataTech = [t \in Targets |-> 0]
  /\ tagTech = [t \in Targets |-> 0]
  /\ totalSolutions = 0
  /\ failures = 0
  /\ printed = {}
  /\ allowDifferentTagTech \in TagTechChoices
  /\ cellResults = [c \in Cells |-> [solutions |-> 0, failed |-> FALSE,
                                       data |-> [t \in Targets |-> NewResult(t)],
                                       tag  |-> [t \in Targets |-> NewResult(t)]]]

\* One step of nvsim() for the running cell.
RunNvsim ==
  /\ stage = "search"
  /\ SD!Next
  /\ UNCHANGED mainVars

TallyOverwrite(total, fails) ==
  IF phase = "failed" THEN [total |-> total, failures |-> fails + 1]
  ELSE [total |-> numSolution, failures |-> fails]

\* main() after nvsim() returns: a nonzero return counts a failure, else the
\* cell's solutions are added to totalSolutions.
Tally(total, fails) ==
  IF phase = "failed" THEN [total |-> total, failures |-> fails + 1]
  ELSE [total |-> total + numSolution, failures |-> fails]

(***************************************************************************)
(* nvsim() of the running cell returned: a failure is counted, otherwise   *)
(* its solution count is added to the total; the next cell starts with     *)
(* fresh Results and solutions = 0, or the reduction starts after the last.*)
(***************************************************************************)
CellDone ==
  /\ stage = "search"
  /\ phase \in {"done", "failed"}
  /\ dataRes' = [dataRes EXCEPT ![cellIdx] = bestData]
  /\ tagRes' = [tagRes EXCEPT ![cellIdx] = bestTag]
  /\ cellResults' = [cellResults EXCEPT ![cellIdx] =
                       [solutions |-> numSolution, failed |-> phase = "failed",
                        data |-> bestData, tag |-> bestTag]]
  /\ totalSolutions' = Tally(totalSolutions, failures).total
  /\ failures' = Tally(totalSolutions, failures).failures
  /\ IF cellIdx + 1 < NumCells
     THEN /\ cellIdx' = cellIdx + 1
          /\ StartNvsim
          /\ UNCHANGED stage
     ELSE /\ cellIdx' = 1
          /\ stage' = "reduce"
          /\ UNCHANGED nvsimVars
  /\ UNCHANGED <<dataTech, tagTech, printed, allowDifferentTagTech>>

CopyTagNoBank(r, from) ==
  [r EXCEPT !.localWire = from.localWire, !.globalWire = from.globalWire]

\* The copy main() makes of the tag Result when the data Result of the same
\* target was updated and tag technology must match: bank and both wires.
CopyTag(r, from) ==
  [r EXCEPT !.cfg = from.cfg, !.bank = from.bank,
            !.localWire = from.localWire, !.globalWire = from.globalWire]

ReduceTagCopyOnly(t0, tc, dataUpdated) ==
  IF dataUpdated THEN CopyTag(t0, tc) ELSE t0

\* Cell 0's tag Result after a later cell's: reduced by its own
\* compareAndUpdate when tag technology may differ, else copied along with
\* an updated data Result.
ReduceTag(t0, tc, dataUpdated) ==
  IF allowDifferentTagTech THEN CompareAndUpdate(t0, tc)
  ELSE IF dataUpdated THEN CopyTag(t0, tc) ELSE t0

(***************************************************************************)
(* One iteration of the cellIdx loop of the reduction: for every target,   *)
(* cell 0's data Result takes the later cell's by compareAndUpdate; on an  *)
(* update the tag Result is copied along (or, with allowDifferentTagTech,  *)
(* reduced by its own compareAndUpdate) and cellTech follows.              *)
(***************************************************************************)
ReduceCell ==
  /\ stage = "reduce"
  /\ cellIdx < NumCells
  /\ LET d0 == dataRes[0]
         t0 == tagRes[0]
         dc == dataRes[cellIdx]
         tc == tagRes[cellIdx]
         updated(t) == ToUpdate(d0[t], dc[t])
         tagUpdated(t) == ToUpdate(t0[t], tc[t])
     IN /\ dataRes' = [dataRes EXCEPT ![0] = [t \in Targets |-> CompareAndUpdate(d0[t], dc[t])]]
        /\ dataTech' = [t \in Targets |-> IF updated(t) THEN cellIdx ELSE dataTech[t]]
        /\ tagRes' = [tagRes EXCEPT ![0] = [t \in Targets |-> ReduceTag(t0[t], tc[t], updated(t))]]
        /\ tagTech' = [t \in Targets |->
                        IF IF allowDifferentTagTech THEN tagUpdated(t) ELSE updated(t)
                        THEN cellIdx ELSE tagTech[t]]
  /\ cellIdx' = cellIdx + 1
  /\ UNCHANGED <<nvsimVars, stage, totalSolutions, failures, printed,
                 allowDifferentTagTech, cellResults>>

\* The print decision: the optimization target's Result, or every target's
\* with printAllOptimals, when there are solutions; otherwise none.
PrintDecision ==
  /\ stage = "reduce"
  /\ cellIdx >= NumCells
  /\ stage' = "printed"
  /\ printed' = IF totalSolutions = 0 THEN {}
                ELSE IF PrintAllOptimals THEN Targets ELSE {OptTarget}
  /\ UNCHANGED <<nvsimVars, cellIdx, dataRes, tagRes, dataTech, tagTech,
                 totalSolutions, failures, allowDifferentTagTech, cellResults>>

Next == RunNvsim \/ CellDone \/ ReduceCell \/ PrintDecision

\* main() is a single-threaded sequence of loops.
Spec == Init /\ [][Next]_vars /\ WF_vars(Next)

-----------------------------------------------------------------------------
\* The earliest cell whose array k ("data" or "tag") Result for target t
\* has the least metric.
FirstBestCell(k, t) ==
  CHOOSE c \in Cells :
    \A d \in Cells :
      LET mc == Metric(t, cellResults[c][k][t].bank)
          md == Metric(t, cellResults[d][k][t].bank)
      IN mc < md \/ (mc = md /\ c <= d)

(***************************************************************************)
(* Without a design constraint, the reduction of main.cpp:248-273 leaves   *)
(* in bestDataResults[0] the best design over all cell types, the first    *)
(* cell winning a tie, with cellTech naming that cell; and, when the tag   *)
(* technology must match, the tag Result of the same target comes from the *)
(* same cell as its data Result, and when it may differ, it is the best    *)
(* tag design over all cells in its own right.                             *)
(***************************************************************************)
BestAcrossCells ==
  stage = "printed" =>
    \A t \in Targets :
      LET c  == FirstBestCell("data", t)
          ct == IF allowDifferentTagTech THEN FirstBestCell("tag", t) ELSE c
      IN /\ dataTech[t] = c
         /\ dataRes[0][t].bank = cellResults[c].data[t].bank
         /\ dataRes[0][t].cfg = cellResults[c].data[t].cfg
         /\ tagTech[t] = ct
         /\ tagRes[0][t].bank = cellResults[ct].tag[t].bank
         /\ tagRes[0][t].cfg = cellResults[ct].tag[t].cfg

(***************************************************************************)
(* The print decision of main() follows the searches of all the cells:    *)
(* it prints at least one Result exactly when the search of some cell      *)
(* returned without failure and with solutions; a later cell's search,     *)
(* failed or empty, never cancels an earlier one's, and a failed search's  *)
(* solutions are never counted.                                            *)
(***************************************************************************)
SolutionsArePrinted ==
  stage = "printed" =>
    (printed # {} <=> \E c \in Cells : ~cellResults[c].failed /\ cellResults[c].solutions > 0)

(***************************************************************************)
(* When main() prints a Result (totalSolutions > 0), the Result holds a    *)
(* real bank, never the sentinel of a Result nothing was stored in.        *)
(***************************************************************************)
PrintedIsReal ==
  stage = "printed" => \A t \in printed : dataRes[0][t].bank # SentinelBank

=============================================================================
