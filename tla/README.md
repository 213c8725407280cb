# TLA+ models of DESTINY (NVSim-based 3D cache / memory estimator)

This directory holds TLA+ models of the design-space explorer in `src/`.
They are checked with TLC. The program is sequential and single-threaded,
and it persists nothing. So its hard behaviours are not races or crashes.
They are:

- the order in which a long loop nest mutates shared state (the global
  wires, `numSolution`, the per-objective Results);
- tie-breaks and strictness in the winner tracker;
- flags (`initialized`, `invalid`) that must travel correctly through a
  multi-step object lifecycle;
- integer arithmetic at its edges (non-power-of-two ways, rounding of block
  sizes, stage counts of 1).

## The system

| Part | Source | State | Operations |
|------|--------|-------|------------|
| Winner tracker | `Result.cpp/.h` | bank metrics, wires, eight limits, target | `Result()`, `reset`, `compareAndUpdate` |
| Search driver | `main.cpp` `nvsim()` | `bestTagResults[8]`, `bestDataResults[8]`, `numSolution`, globals `localWire`/`globalWire` | tag sweep, tag refine, tag failure, data sweep, data refine, pruning (a stub), constrained re-search |
| Cross-cell reduction | `main.cpp` `main()` | `bestDataResults[cell][8]`, `totalSolutions` | compareAndUpdate reduction, print decision |
| Input validation | `main.cpp` `applyConstraint` | `inputParameter` | rejects or warns on unsupported inputs |
| Bank | `Bank.cpp`, `BankWithoutHtree.cpp` | organization, `initialized`, `invalid`, metrics | `Initialize`, `CalculateArea`, `CalculateRC`, `CalculateLatencyAndPower`, `operator=` |
| Leaf circuits | `SenseAmp.cpp`, `Mux.cpp`, `Comparator.cpp`, `TSV.cpp`, `RowDecoder.cpp`, `BasicDecoder.cpp`, `FunctionUnit.cpp`; `OutputDriver.h` (header only) | `initialized`, `invalid`, sizing, extracted capacitances, the `FunctionUnit` fields | `Initialize`, `CalculateArea`, `CalculateRC`, `CalculateLatency`, `CalculatePower` (TSV: `CalculateLatencyAndPower`) |
| Cell, tech, input | `MemCell.cpp`; `Technology`, `Wire`, `InputParameter` (headers only) | cell parameters, write energies, retention time | `ReadCellFromFile`, `ApplyPVT`, `CalculateWriteEnergy` |

The parts interact as follows. `nvsim()` sweeps the structural
configurations (BIGFOR). For each one it builds a bank (CALCULATE), drops it
if it is invalid, and offers it to all eight Results (UPDATE_BEST_*). It then
refines the wires of each Result separately (TRY_AND_UPDATE). With a design
constraint, it derives limits from the optima and sweeps again. `main()`
repeats this for each cell type and reduces across cells.

The macros (`macros.h`) and the implementations of Mat, SubArray,
BankWithHtree, Wire and Technology are not in the repository. Where the model
needs the macros, it follows their use sites in `main.cpp` and the
description in `spec.md`.

## Modules

- **`Result.tla`** models `Result.cpp`.
  - A Result is a record `[optimizationTarget, cfg, localWire, globalWire,
    bank, limits]`.
  - `bank` holds the six metrics that `compareAndUpdate` reads.
  - The sentinel `invalid_value` (1e41) is the constant `InvalidValue`. It is
    larger than every valid metric and every valid EDP.
  - Limits are stored ×100, so that the percentage tolerances of the
    constrained search stay exact integers.
  - `NewResult` corresponds to `Result()`, `Reset` to `reset()`, and
    `CompareAndUpdate` to `compareAndUpdate`. `CompareAndUpdate` applies the
    limit guard `WithinLimits`, then the strict `<` on the target's `Metric`,
    then copies the bank and both wires.
- **`SearchDriver.tla`** models `nvsim()` for one cell type. Its variables:
  - `phase` is the position in `nvsim()`;
  - `idx` and `tgt` are the loop indices;
  - `bestTag`, `bestData`, `numSolution`, `localWire` and `globalWire` are
    the code's variables;
  - `estimate` memoises the estimator.

  The estimator (Bank → Mat → SubArray → circuits) is a deterministic
  function of the array kind, the configuration and the two wires. The first
  evaluation of a candidate chooses its outcome from `Outcomes ∪ {Invalid}`,
  and later evaluations reuse it. So every estimator behaviour is explored,
  including the same configuration giving different results with different
  wires.

  The actions:

  | Action | Code |
  |--------|------|
  | `SweepStep` | one BIGFOR body (tag, data or constrained) |
  | `TagSearchFails` | `return 1` |
  | `StartRefinement` | `numSolution > 0` |
  | `RefineStep` | one `(wire style, target)` iteration of `REFINE_*_WIRE_FORLOOP`, with `LOAD_*_WIRE` and `TRY_AND_UPDATE` |
  | `StartGlobalRefinement` | the local loop ends and the global loop starts |
  | `StartDataSearch` | the `else` branch after the tag refinement |
  | `Finish` | return without constraint |
  | `ApplyDesignConstraint` | the `allowedData*` computation, `APPLY_LIMIT`, `numSolution = 0` and `INITIAL_BASIC_WIRE` |
  | `ConstrainedSearchOver` | the end of the constrained sweep |

  `seen` (the solutions of the running sweep) and `optimum` (`bestData` when
  the constraint is applied) are history variables used only by the
  properties.

  `techLayers` is `tech->layerCount`, the one `Technology` that every
  estimate reads. The tag BIGFOR calls `tech->SetLayerCount(stackedDieCount)`
  for each configuration (`main.cpp:367`); nothing else sets it. The
  estimator key therefore holds the layer count the TSV array sees
  (`TsvLayers`): the current `techLayers` when the configuration stacks more
  than one die (`BankWithoutHtree.cpp:218`), else `InitialLayers`.
  `DieCount` gives each configuration's `stackedDieCount`.
- **`BestSoFar.tla`** is the abstract specification of one `nvsim()` call,
  written from the spec's data flow (no code of its own). Its state is a
  `stage` (`tag`, `data`, `constrained`, `done`, `failed`) and one Result per
  array kind and target. `Offer` offers one design to the Results of the
  array being searched: each keeps its own or takes it (within its limits
  and strictly better), and all that take it take the same design.
  `TagFails`, `TagDone`, `Constrain` (fresh Results under the relaxed
  optima) and `Finish` move between stages. `SearchDriver` instantiates it
  as `Abstract` with the mapping `stage <- StageOf(phase)` and
  `best <- [tag |-> bestTag, data |-> bestData]`, and
  `ImplementsBestSoFar == Abstract!Spec` is checked as a property. A sweep
  step and a refinement step both refine `Offer`; every other driver step
  either changes only driver bookkeeping (a stuttering step of the
  abstraction) or is one of the stage changes.
- **`Bank.tla`** models the lifecycle of one `BankWithoutHtree`, as the search
  drives it: `Initialize`, `CalculateArea`, `CalculateRC` and
  `CalculateLatencyAndPower`. The search builds a fresh bank per candidate
  (`main.cpp:388, 482`).
  - The variables are the `initialized` and `invalid` flags, `memoryType`,
    and the eight area, timing and energy fields.
  - Each field is abstracted to `Zero` (the constructor's value), `Computed`,
    `Sentinel`, or `SentinelFraction` (the sentinel divided by the
    associativity in fast mode). Adding a computed term to the sentinel
    leaves the sentinel, as it does in double precision.
  - Conditions that depend on the real-valued geometry are nondeterministic
    inputs: mat validity, sense-amp pitch, aspect ratio, and refresh time
    against retention time.
  - `InitializeOutcome` follows the early returns of `Initialize` in order.
  - `CalculateLatencyAndPower` keeps the statements after its if/else, which
    run on every path.
- **`Organization.tla`** models how the ways of a set become mux levels.
  - `AdjustDataParameters` is `main.cpp:432-459` together with the
    associativity rule of `applyConstraint`.
  - `InitializeDataArray` is the data path of `Initialize`
    (`BankWithoutHtree.cpp:111-140`).
  - `Log2Code` translates `(int)(log2(x)+0.1)` exactly: it is the largest
    `k` with `2^k <= x·2^0.1`. For example, it gives 4 for 15.
  - `ExtraMux` gives the extra mux factors.
  - `InitializeTagArray` is the tag path of `Initialize`
    (`BankWithoutHtree.cpp:141-155`) with the block size the tag BIGFOR
    gives it: `TagBits` is the tag width of `main.cpp:361-369` for the
    constants `Capacity` (bytes) and `WordWidth` (bits), `TagBlock` its
    rounding up to a multiple of the active mats (`main.cpp:374-377`), and
    `TagWays` the ways per active mat. The active-mat and active-sub-array
    counts range over `ActiveCounts`; they are assumed to be powers of two,
    as the BIGFOR of the absent `macros.h` enumerates them (spec.md).
  - The data path runs after the tag path for a cache, directly for a RAM.
- **`CrossCell.tla`** models `main()` over several cell types
  (`main.cpp:198-297`). It declares SearchDriver's variables and runs
  `SearchDriver`'s `Next` for the current cell (`RunNvsim`).
  - `CellDone` is the return of `nvsim()`. It stores the cell's Results,
    counts a failure or adds the solutions to `totalSolutions`, and starts
    the next cell from a fresh `nvsim()` state (`StartNvsim`). The estimator
    is cleared too, because each cell has its own.
  - `ReduceCell` is one `cellIdx` iteration of the reduction into cell 0's
    Results. `ReduceTag` is the tag's part of it: with
    `allowDifferentTagTech` (the variable of that name, chosen once in
    `Init` from `TagTechChoices`) the tag Result is reduced by its own
    `compareAndUpdate` and its `cellTech` follows the tag's update; without
    it the tag is copied along with an updated data Result (`CopyTag`).
  - `PrintDecision` chooses the printed targets from `totalSolutions` and
    `printAllOptimals`.
  - `Tally` is what `main()` adds up after each `nvsim()`: a failure, or
    the cell's solutions.
  - `cellResults` is a history variable: what each `nvsim()` returned (its
    Results, its solution count and whether it failed).
- **`GlobalSensing.tla`** models the bank's global sensing path: the calls
  that `BankWithoutHtree` makes on its `globalSenseAmp`, `globalBitlineMux`,
  `globalComparator` (tag arrays) and `tsvArray` (3D stacking), together with
  those units' own methods (`SenseAmp.cpp`, `Mux.cpp`, `Comparator.cpp`,
  `TSV.cpp`).
  - Each unit is a record `[init, invalid, rc, m]`: its `initialized` and
    `invalid` flags, whether `CalculateRC` extracted its capacitances, and its
    `FunctionUnit` fields. The unit methods are pure operators over it
    (`SA_*`, `Mux_*`, `Cmp_*`, `TSV_*`).
  - The bank's actions are `BankInitialize` (the early returns in the code's
    order, then the sense amp, mux, comparator and TSV calls),
    `BankCalculateArea`, `BankCalculateRC` and
    `BankCalculateLatencyAndPower`. `env` (data or tag, internal sensing,
    DRAM-like, fast cache access, associativity 1, stacked) is chosen once,
    as the input parameters fix it.
  - The bank's fields `bm` include `refreshLatency` and
    `refreshDynamicEnergy`: the invalid branch (311-314) leaves them alone,
    the valid one computes them from the mat. In fast cache access the
    write energy is divided by the associativity (456-457), which turns a
    sentinel into `SentinelFraction` when the associativity exceeds 1.
  - A formula that reads a member not assigned in the current sizing (a
    capacitance before `CalculateRC`, say) reads garbage. It is the argument
    `junk` of the operator, any of `Zero`, `Computed` and `Sentinel`, and the
    history flag `unsetRead` records the read. `misuse` records a method
    called on a unit that was never initialized.
  - `BankCalculateLatencyAndPower` ends with the eDRAM check of
    `BankWithoutHtree.cpp:541-544`: a DRAM-like, initialized bank may be
    found invalid there, after its metrics are computed.
- **`BankSensing.tla`** composes `Bank` and `GlobalSensing`: both are views
  of one `BankWithoutHtree`. It instantiates both, sharing `stage`,
  `initialized`, `invalid` and `memoryType`, and maps GlobalSensing's `env`
  from Bank's inputs (an eDRAM cell is DRAM-like, the die count gives
  stacking, the access mode and associativity are Bank's) and the array kind. Each action is the same call in both views,
  so an early return or a late invalidation happens only when both views
  agree on the flags it leaves.
- **`ProcessNode.tla`** models the technology set-up of `main()`
  (`main.cpp:140-169`): the if-chain choosing the tabulated node `techHigh`
  above the requested one, and the weight `alpha` passed to
  `InterpolateWith`, as an exact rational. `Technology.cpp` is absent, so
  the model keeps only what `main()` decides.
- **`OutputDriver.tla`** holds operators only: the contract of the output
  driver that the two decoders own. Only `OutputDriver.h` is in the
  repository, so its methods are modelled from the spec's leaf-unit contract
  (marked `spec_modelled` in `PROJECT.json`).
- **`RowDecoder.tla`** and **`BasicDecoder.tla`** model one decoder with its
  output driver, driven through the lifecycle by its owner (SubArray and
  PredecodeBlock, both absent). The code expects re-initialization (it
  warns "Already initialized!" and carries on), so `Initialize` may come
  again after a finished lifecycle, up to `MaxInits` times. The variables are
  the code's members (`initialized`, `invalid` for the row decoder,
  `numNandInput`, `numNandGate`, `outputDriver`), the fields `m`, and
  `nandCaps`: whether the NAND capacitances were extracted for the current
  sizing.
- **`Decoders.tla`** composes the two decoders of one mat. It instantiates
  `RowDecoder` and `BasicDecoder` with renamed variables, and each lifecycle
  call of the mat (`MatInitialize`, `MatCalculateArea`, ...) is the same
  call of both decoders. Mat is absent, so the lockstep follows spec.md 4.3;
  each decoder's step is its own module's.
- **`MemCell.tla`** models the cell parameters that reach the write energies
  and the retention time (`MemCell.cpp`):
  - `ReadLine` is one iteration of `ReadCellFromFile`'s loop over a line
    from `Lines` (the keys that reach these parameters, each with a small set
    of values). `tmp` is the function's char buffer; it starts uninitialized
    (`"garbage"`, assumed not to be `"vdd"`). `lines` records the lines read,
    for the property only.
  - `ReadSetVoltage` follows the code: its format is the reset one, so the
    `%s` fails and leaves `tmp` as it was, and a stale `"vdd"` in `tmp`
    sets `resetVoltage`.
  - `ReadEdramLine`: `-RetentionTime` and `-Temperature` are ignored unless
    the type read so far is eDRAM.
  - `ReadCellArea` and `ReadAspectRatio`: `-CellAspectRatio` derives the
    height and width in feature sizes from the area read so far; `Dims`
    keeps the pair they are computed from. The constructor never
    initializes them (`"garbage"`).
  - `ApplyPVT` (`MemCell.cpp:430-442`) moves an eDRAM retention time from
    the cell's temperature to the ambient one; `Retention(value, from, to)`
    keeps the value and the temperature difference `to - from`, the only
    thing the factor `exp(-0.0268 * (to - from))` depends on, so a file
    written at the ambient temperature describes an unscaled retention.
  - `CalculateWriteEnergy` derives each energy the file left at 0
    (`WriteEnergy`, `ResetEnergyOf`, `SetEnergyOf`). Unit conversions and
    the division by `resistanceOn` are left out: they scale the file's value
    and the derived one alike.
- **`MC_SearchDriver.tla`** gives the constants their values:
  - configurations, wire styles and metric records as model values and
    definitions;
  - three metric records, chosen so that ties, trade-offs between targets and
    strict improvements by refinement all occur.

## Runs

| Run | Configuration | Properties |
|-----|---------------|------------|
| `search_data` (`SearchDriver_data.cfg`, pass) | RAM design with constraint: 3 configurations, 2 local × 2 global wires, 0% read-latency and 100% other tolerances, one die per configuration. About 238k states, 55 s. | `TypeOK`, `BestIsFirstMinimum`, `ConstrainedNeverBeatsOptimum`, `SolutionsAreReported`, `Terminates`, `ImplementsBestSoFar` |
| `search_cache` (`SearchDriver_cache.cfg`, pass) | Cache design without constraint: 2 configurations, 2 local × 1 global wire, for both tag and data arrays. Includes the all-invalid tag sweep that returns 1. About 224k states, 40 s. | `BestIsFirstMinimum`, `Terminates`, `ImplementsBestSoFar` |
| `search_layers` (`SearchDriver_layers.cfg`, violation) | As `search_cache`, but the first configuration stacks 2 dies and the second 1. | `ResultsReproducible`: every Result holds the bank its own configuration and wires give when estimated with that configuration's layer count. It is violated at depth 5; see the findings. |
| `crosscell_cache` (`CrossCell_cache.cfg`, pass) | Two cell types, cache design without constraint, one configuration and 2 × 1 wires per array; includes tag failures and empty data searches of either cell; `allowDifferentTagTech` both false and true. About 428k states, 30 s. | `BestAcrossCells`: cell 0's Results end with the first best data design over all cells with its `cellTech`; the tag Result comes from the same cell, or, when tag technology may differ, is the first best tag design over all cells. `SolutionsArePrinted`: `main()` prints a Result exactly when some cell's search returned solutions without failing. |
| `crosscell_printed` (`CrossCell_printed.cfg`, violation) | Two cell types, RAM design with a read-latency-only constraint (0%), two configurations. | `PrintedIsReal`: a Result that `main()` prints holds a real bank. It is violated; see the findings. |
| `bank_sensing` (`BankSensing.cfg`, pass) | The composed bank: all cell kinds (SRAM, eDRAM, MRAM), data and tag arrays, internal and external sensing, fast cache access with associativity 1 or more, stacked or not, every early return, the late eDRAM invalidation, every junk value; 3160 states. | `AcceptedBankComputed`: a bank left valid was initialized and has every field computed. `UnitCallsWellFormed`: no unit method runs uninitialized and no formula reads an unassigned capacitance. `ValidBankComputed`: a valid, initialized bank has every timing and refresh field computed. |
| `bank_sentinel` (`Bank_sentinel.cfg`, violation) | `Bank` alone: all cell kinds, inputs and early returns. | `InvalidImpliesSentinel`: the spec's validity rule. It is violated; see the findings. |
| `organization_pow2` (`Organization_pow2.cfg`, pass) | Associativity 1..16, all modes, rows per set {1,2,4}, eDRAM and SRAM, active mats and sub-arrays {1,2,4}, 1 KiB of 64-bit words; about 14.7k states. | `PowerOfTwoWaysContained`: for a power-of-two associativity, the mux levels times the rows select exactly the set's ways. `PowerOfTwoTagWaysContained`: a valid tag array of a power-of-two associativity spreads exactly its ways over the active mats, in a block that is a multiple of the active mats and holds the tag. |
| `organization_ways` (`Organization_ways.cfg`, violation) | Same as `organization_pow2`. | `WaysContained`: the same for every associativity. It is violated at 5 ways on eDRAM. |
| `decoders` (`Decoders.cfg`, pass) | Both decoders of a mat in lockstep: `NumRows = {8, 9}` (the NAND boundary), `AddressBits = {1, 2, 3}` (inverters, NAND2, NAND3), with and without way selection, valid and invalid drivers, up to 3 lifecycles; 1909 states. | `ValidRowDecoderComputed`: after each lifecycle a row decoder not flagged invalid has every field computed. `DecoderFollowsDriver`: after each lifecycle every basic-decoder field is computed when the driver is valid and the sentinel when it is not. |
| `process_node` (`ProcessNode.cfg`, violation) | Nodes 20, 22, 32, 40, 45, 65, 90, 100, 120, 150, 180, 200, 250 nm: both ends of the table, every tabulated node and one inside most intervals. | `InterpolatesBetweenNeighbours`: `techHigh` is the tabulated node above the requested one and `alpha` its fraction of the way from the node below. It is violated at 150 nm; see the findings. |
| `memcell_energy` (`MemCell_energy.cfg`, violation) | Cell files of up to 4 lines, voltages `vdd` and `2`, ambient 350 K, area 4 F² and aspect ratio 1. | `CellAsDescribed`: after `ApplyPVT` and `CalculateWriteEnergy` the cell's write energies, eDRAM retention time and dimensions are those its file describes, in any line order. It is violated; see the findings. |

Findings:

- **Invalid banks without the sentinel.** The spec says an invalid unit has
  every field at the sentinel. `BankWithoutHtree` breaks this in three
  places:
  - the invalid branch leaves the refresh fields at zero (311-314);
  - eDRAM invalidation happens after all metrics are computed (541-544);
  - the external-sensing return leaves the bank uninitialized with zero
    metrics (38-42).

  The search is safe only because it checks `invalid` before it reads
  metrics.
- **Non-power-of-two associativity loses ways.** A non-power-of-two
  associativity passes `applyConstraint`, because its `exit(-1)` is
  commented out. Then:
  - 5 ways on eDRAM give 4 mux inputs;
  - 10 ways on other cells give 8, and 15 give 12.

- **The tag refinement estimates with a stale layer count.** The tag
  BIGFOR sets `tech->layerCount` to each configuration's die count
  (`main.cpp:367`), and the tag refinement (`main.cpp:416-420`) never sets
  it back. After the sweep it holds the last configuration's count. A tag
  Result whose configuration stacks 2 dies, refined after a last
  configuration of 1 die, is re-estimated with 1 layer, and the refined bank
  replaces the real one. The data sweep and its refinement have the same
  staleness: they never set the layer count at all.
- **The constrained re-search can come back empty.** The limits are taken
  from optima found with refined wires (`main.cpp:587-596`). The re-search
  then restarts from `INITIAL_BASIC_WIRE` (`main.cpp:603`) and never refines.
  With a 0% read-latency tolerance and no other constraint, TLC finds a run
  where refinement improved the read-latency optimum, so no basic-wire design
  meets the limit and `numSolution` ends at 0. The spec does not mention this
  outcome. The `crosscell_printed` trace shows it as its first step.

- **`main()` can print a sentinel Result.** This follows from the previous
  finding. Suppose cell 0's constrained re-search found nothing, so its
  Results keep the sentinel bank. The reduction (`main.cpp:251`) then offers
  cell 1's Results against cell 0's limits. A cell-1 design outside those
  limits is never copied in, but it is counted in `totalSolutions`. So
  `main()` prints cell 0's Result, with every metric at `invalid_value`.
- **The cell's dimensions depend on the line order.** `MemCell.cpp:115`
  computes `heightInFeatureSize` and `widthInFeatureSize` when
  `-CellAspectRatio` is read, from the area read so far. The file
  `-CellAspectRatio: 1`, `-CellArea: 4` gives a 0F × 0F cell (TLC, with the
  dimension conjunct of `CellAsDescribed` checked alone); a file without
  `-CellAspectRatio` leaves both uninitialized.
- **`-SetVoltage` is scanned with the reset format.** `MemCell.cpp:260`
  scans a `-SetVoltage` line with `"-ResetVoltage (V): %s"`, so `tmp` keeps
  the previous token. `-SetVoltage: vdd` then leaves `setVoltage` at 0 (the
  `%lf` fails), and the derived set energy is 0 (a 2-line trace); after a
  `-ResetVoltage: vdd` line, any `-SetVoltage` overwrites `resetVoltage`
  with `vdd` instead.
- **The current-mode set energy tests the reset voltage.** `MemCell.cpp:561`
  chooses between `vdd` and `setVoltage` by `resetVoltage == 0`. A file with
  `-ResetVoltage: 2`, set mode current and no set voltage gets a set energy
  of 0. With `VoltageTokens = {"2"}` TLC reports this 4-line trace.
- **An eDRAM retention time is scaled from an uninitialized temperature.**
  The constructor never sets `temperature`. A file that gives
  `-RetentionTime` but no `-Temperature` has its retention scaled by
  `ApplyPVT` from whatever the member holds (`MemCell.cpp:438`). Lines before
  `-MemCellType: eDRAM` are also silently ignored (`MemCell.cpp:408`).
- **The 120-200 nm interpolation overshoots.** `main.cpp:149` weights
  the 200 nm technology by `(processNode - 120) / 60`, but the interval is
  80 nm wide. At 150 nm alpha is 1/2 instead of 3/8, and at 200 nm it is
  4/3, an extrapolation past the 200 nm parameters.
- **No data solution is not a failure.** The spec says `nvsim()` returns a
  failure indicator when no valid data-array solution exists. The code
  returns 0 with `numSolution = 0` (`main.cpp:629`). `main()` only counts
  failures and never reads the count, so nothing observable changes, and no
  run checks this.

What the properties say:

- **`BestIsFirstMinimum`**: during every sweep, each of the eight Results
  equals the reference argmin `FirstBest`. `FirstBest` is the earliest
  solution of least metric within the Result's limits, defined over the
  sequence of solutions seen. So the tracker computes exactly the spec's
  "first found wins" selection.
- **`ConstrainedNeverBeatsOptimum`**: the constrained re-search never beats,
  on any target, the optimum it was derived from.
- **`SolutionsAreReported`**: at return, `numSolution > 0` exactly when
  every data Result holds a real bank.
- **`Terminates`**: `nvsim()` returns.
- **`ImplementsBestSoFar`**: every behaviour of `nvsim()` is a behaviour of
  `BestSoFar` under the mapping; in particular no step changes Results of
  the array not being searched, changes a Result's limits outside the
  constrained restart, or takes a design outside the limits or not strictly
  better.
- **`PowerOfTwoTagWaysContained`**: the tag array's block rounding and
  way split lose no way and no tag bit.
- **`ValidRowDecoderComputed`**, **`DecoderFollowsDriver`**: each decoder's
  fields follow its validity across re-initializations of the mat.
- **`CellAsDescribed`** (violation run): the parsed cell's derived energies
  and retention are the file's.
- **`ResultsReproducible`** (violation run): a Result's bank is what the
  estimator gives for its configuration, wires and layer count.

Every property has a mutant in `PROJECT.json` that TLC must kill: for
example `<=` for `<`, a missing `numSolution = 0`, a missing
`INITIAL_BASIC_WIRE`, or an unfiltered constrained sweep.

Why the bounds are enough:

- Three configurations with three outcomes plus Invalid produce ties
  (equal records), dominance and trade-offs.
- Two wire styles make refinement both succeed and fail.
- Tolerance 0 on read latency makes the constrained sweep's limits tight,
  so that it finds both nothing and something.
- The cache run is smaller because tag and data estimates multiply.

Fairness: the specification assumes weak fairness of `Next`. This is
justified because `nvsim()` is a single-threaded loop nest that never blocks
or waits, so an enabled step is always taken. `CHECK_DEADLOCK FALSE` is set
because `nvsim()` returns: the `done` and `failed` states have no successor.

## Further work

- The normal-access cache hit latency (`Result.cpp:674`) reads the data
  mat's latency and the column decoder's; the bank abstraction would need
  those two figures to check it.
- The TSV stage count needs no module. The bank calls
  `TSV::Initialize(tsv_type)`, and `buffered` defaults to false, so
  `num_gates` is always 0 on that path and `FunctionUnit::logical_effort`
  is never reached. Its `num_gates == 1` cases (an odd stage count after
  "make it even", a division by `num_gates - 1`) are therefore not
  reachable from the code in the repository.

Observations on the leaf circuits:

- `TSV::invalid` starts `true` in the constructor and no method clears it
  (`TSV.cpp:23`). Nothing reads it, so no metric is affected and no run
  checks it.
- An invalid `RowDecoder` returns from `Initialize` before setting
  `initialized`, so its later calls do nothing and its metrics stay zero,
  not the sentinel. Its `invalid` flag is never cleared, so a later valid
  re-initialization still reports it invalid (`RowDecoder.cpp:69-72`);
  `ValidRowDecoderComputed` holds only for decoders not flagged invalid.
- `SenseAmp::CalculateLatency` has no `invalid` branch, but the bank never
  reaches it with a rejected sense amp: `Initialize` returns first, and
  `UnitCallsWellFormed` checks that no unassigned `capLoad` is read.

## Not modelled

- Floating-point analytic formulas: out of TLC's reach. They enter only
  through the abstract estimator.
- The input-parameter file and the cell-file keys that reach no modelled
  parameter, and all printing (most of `Result.cpp`, `MemCell::PrintCell`):
  these are pure I/O.
- Code whose implementation is absent from the repository: `OutputDriver`
  (modelled from its contract), `Precharger`, `PredecodeBlock`, `Mat`,
  `SubArray`, `BankWithHtree`, `Wire`, `Technology`, `InputParameter`,
  `macros.h`.
- The pruning pass: it only builds and prints structures, and its filter is
  a TO-DO in the code.
- `Bank::operator=`: it copies every `Bank` field the Results read; the
  `BankWithoutHtree` members it slices off are never read from a Result, so
  a copy is indistinguishable from the bank in the model.
- `CellScaling`: its call in `main()` is commented out (`main.cpp:211`).
- `tsvVerif` (`main.cpp:46-137`): its call is commented out.
- `MemCell::CalculateReadPower` and `GetMemristance`: nothing in the
  repository calls them (their callers would be in the absent `SubArray`).
- `printAsCache` and its CSV copy (`printAsCacheToCsvFile`): they print
  arithmetic over the Results' metrics. Their normal-access hit latency
  also reads the data mat's latency and column decoder, which the bank
  abstraction does not carry.
- `InterpolateWith` with a `techHigh` never initialized (nodes below 22 nm
  or above 200 nm, `main.cpp:145`): `Technology.cpp` is absent, so what it
  reads from the default-constructed technology cannot be modelled.
