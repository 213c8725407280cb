-------------------------------- MODULE Bank --------------------------------
(***************************************************************************)
(* The lifecycle of one BankWithoutHtree (src/BankWithoutHtree.cpp) as the *)
(* search drives it: a fresh bank, then Initialize, CalculateArea,         *)
(* CalculateRC and CalculateLatencyAndPower in that order, after which the *)
(* search reads `invalid` and the metrics.  The search builds a new bank   *)
(* for every candidate and deletes it afterwards (main.cpp:388, 482), so   *)
(* Initialize always starts from the constructor's flags.                  *)
(*                                                                         *)
(* Metrics are abstracted to what the spec's validity rules tell apart:    *)
(* Zero (never assigned since the FunctionUnit constructor), Computed (the *)
(* result of the analytic formulas), Sentinel (invalid_value, absorbing    *)
(* any computed term added to it in double precision) and                  *)
(* SentinelFraction (invalid_value divided by an associativity above 1).   *)
(* The conditions that depend on real-valued geometry (mat validity, sense *)
(* amplifier pitch, aspect ratio, refresh time against retention time) are *)
(* inputs chosen nondeterministically.                                     *)
(***************************************************************************)

Zero             == "zero"
Computed         == "computed"
Sentinel         == "sentinel"
SentinelFraction == "sentinelFraction"
Values == {Zero, Computed, Sentinel, SentinelFraction}

\* enum MemCellType of typedef.h: the cells whose handling differs, and one
\* standing for the other non-volatile cells.  DRAM is absent: applyConstraint
\* exits before any bank of a DRAM cell is built (main.cpp:638-641).
CellTypes == {"SRAM", "eDRAM", "MRAM"}

\* The bank's area, timing and energy fields (FunctionUnit.h).
BankFields == {"area", "readLatency", "writeLatency", "readDynamicEnergy",
               "writeDynamicEnergy", "leakage", "refreshLatency",
               "refreshDynamicEnergy"}

\* The fields the invalid branch of CalculateLatencyAndPower overwrites.
InvalidOverwritten == {"readLatency", "writeLatency", "readDynamicEnergy",
                       "writeDynamicEnergy", "leakage"}

ValidBranchFieldsNoRefresh == BankFields \ {"area", "refreshLatency", "refreshDynamicEnergy"}

\* The fields the valid branch of CalculateLatencyAndPower assigns: all
\* but the area, the refresh fields from the mat's included.
ValidBranchFields == BankFields \ {"area"}

\* The fields to which the Mat's values are added after the branch.
MatAdded == {"readLatency", "writeLatency", "readDynamicEnergy",
             "writeDynamicEnergy", "leakage"}

\* The fields that get the TSV crossing overhead of a stacked bank.
TsvAdded == {"readLatency", "writeLatency", "readDynamicEnergy",
             "writeDynamicEnergy", "refreshLatency", "refreshDynamicEnergy",
             "leakage"}

\* Addition in double precision: invalid_value absorbs any computed term.
Add(a, b) ==
  CASE Sentinel \in {a, b}         -> Sentinel
    [] SentinelFraction \in {a, b} -> SentinelFraction
    [] a = Zero /\ b = Zero        -> Zero
    [] OTHER                       -> Computed

\* writeDynamicEnergy /= inputParameter->associativity.
DivAssociativity(a, assocOne) ==
  IF a = Sentinel /\ ~assocOne THEN SentinelFraction ELSE a

VARIABLES
  env,          \* the global cell and input parameters the bank reads
  stage,        \* the lifecycle call the search makes next
  initialized,  \* Bank::initialized
  invalid,      \* Bank::invalid
  memoryType,   \* Bank::memoryType
  m             \* the bank's metric fields

vars == <<env, stage, initialized, invalid, memoryType, m>>

\* cell->memCellType; whether the cell file gave a retention time (else it
\* stays invalid_value, MemCell.cpp:63); cache with fast_access_mode; an
\* associativity of 1; stackedDieCount > 1.
Env == [cell : CellTypes, retentionGiven : BOOLEAN, fastWrite : BOOLEAN,
        assocOne : BOOLEAN, stacked : BOOLEAN]

\* Bank::Bank() and FunctionUnit::FunctionUnit().
Init ==
  /\ env \in Env
  /\ stage = "constructed"
  /\ initialized = FALSE
  /\ invalid = FALSE
  /\ memoryType = "none"
  /\ m = [f \in BankFields |-> Zero]

(***************************************************************************)
(* The flags Initialize leaves, in the order of its early returns:         *)
(* external sensing on DRAM/eDRAM (invalid, but not initialized), external *)
(* sensing with a repeated global wire, too few ways for the rows of a set *)
(* or no way in a mat (orgBad), an invalid mat, an invalid global sense    *)
(* amplifier, and the successful end.  `assigned` says whether the         *)
(* parameters (memoryType among them) were stored before returning.       *)
(***************************************************************************)
InitializeOutcome(internal, repeated, orgBad, matBad, senseAmpBad) ==
  CASE ~internal /\ env.cell \in {"DRAM", "eDRAM"} ->
         [initialized |-> initialized, invalid |-> TRUE, assigned |-> FALSE]
    [] ~internal /\ repeated ->
         [initialized |-> TRUE, invalid |-> TRUE, assigned |-> FALSE]
    [] orgBad \/ matBad \/ (~internal /\ senseAmpBad) ->
         [initialized |-> TRUE, invalid |-> TRUE, assigned |-> TRUE]
    [] OTHER ->
         [initialized |-> TRUE, invalid |-> invalid, assigned |-> TRUE]

Initialize ==
  /\ stage = "constructed"
  /\ \E internal, repeated, orgBad, matBad, senseAmpBad \in BOOLEAN,
        kind \in {"data", "tag"} :
       LET out == InitializeOutcome(internal, repeated, orgBad, matBad, senseAmpBad)
       IN /\ initialized' = out.initialized
          /\ invalid' = out.invalid
          /\ memoryType' = IF out.assigned THEN kind ELSE memoryType
  /\ stage' = "initialized"
  /\ UNCHANGED <<env, m>>

\* CalculateArea: an error message only before initialization; the sentinel
\* for an invalid bank; otherwise the area, and for a data array the
\* aspect-ratio check, which invalidates the bank.
CalculateArea ==
  /\ stage = "initialized"
  /\ \E aspectBad \in BOOLEAN :
       CASE ~initialized ->
              UNCHANGED <<invalid, m>>
         [] invalid ->
              /\ m' = [m EXCEPT !.area = Sentinel]
              /\ UNCHANGED invalid
         [] memoryType = "data" /\ aspectBad ->
              /\ invalid' = TRUE
              /\ m' = [m EXCEPT !.area = Sentinel]
         [] OTHER ->
              /\ m' = [m EXCEPT !.area = Computed]
              /\ UNCHANGED invalid
  /\ stage' = "area"
  /\ UNCHANGED <<env, initialized, memoryType>>

\* CalculateRC computes the RC of the Mat and the global circuits only; the
\* bank's own fields do not change.
CalculateRC ==
  /\ stage = "area"
  /\ stage' = "rc"
  /\ UNCHANGED <<env, initialized, invalid, memoryType, m>>

(***************************************************************************)
(* CalculateLatencyAndPower: the branch on initialized / invalid, then the *)
(* statements after it that run on every path (the fast-mode division and  *)
(* the Mat's values, which are Zero unless the valid branch calculated     *)
(* them), the TSV overhead of a valid stacked bank, and last the eDRAM     *)
(* check of refresh latency against retention time.                       *)
(***************************************************************************)
CalculateLatencyAndPower ==
  /\ stage = "rc"
  /\ LET valid  == initialized /\ ~invalid
         branch == CASE ~initialized -> m
                     [] invalid -> [f \in BankFields |->
                                      IF f \in InvalidOverwritten THEN Sentinel ELSE m[f]]
                     [] OTHER -> [f \in BankFields |->
                                      IF f \in ValidBranchFields THEN Computed ELSE m[f]]
         fast   == IF env.fastWrite
                   THEN [branch EXCEPT !.writeDynamicEnergy =
                                         DivAssociativity(@, env.assocOne)]
                   ELSE branch
         matV   == IF valid THEN Computed ELSE Zero
         summed == [f \in BankFields |->
                      IF f \in MatAdded THEN Add(fast[f], matV) ELSE fast[f]]
         final  == IF valid /\ env.stacked
                   THEN [f \in BankFields |->
                           IF f \in TsvAdded THEN Add(summed[f], Computed) ELSE summed[f]]
                   ELSE summed
         refreshCheck == env.cell = "eDRAM" /\ env.retentionGiven
                         /\ final.refreshLatency = Computed
     IN /\ m' = final
        /\ \E tooSlow \in BOOLEAN : invalid' = (invalid \/ (refreshCheck /\ tooSlow))
  /\ stage' = "done"
  /\ UNCHANGED <<env, initialized, memoryType>>

Next == Initialize \/ CalculateArea \/ CalculateRC \/ CalculateLatencyAndPower

\* The lifecycle is a straight sequence of calls; each is taken.
Spec == Init /\ [][Next]_vars /\ WF_vars(Next)

-----------------------------------------------------------------------------
(***************************************************************************)
(* A bank the search accepts (invalid is false after CALCULATE) went       *)
(* through the whole of Initialize and has every metric computed: no field *)
(* is left at the constructor's zero, which compareAndUpdate would take    *)
(* for an unbeatable design.                                               *)
(***************************************************************************)
AcceptedBankComputed ==
  stage = "done" /\ ~invalid =>
    /\ initialized
    /\ \A f \in BankFields : m[f] = Computed

(***************************************************************************)
(* The spec's validity rule: once the lifecycle is over, an invalid bank   *)
(* has every area, timing and energy field at the sentinel, never a        *)
(* computed number or a stale zero.                                        *)
(***************************************************************************)
InvalidImpliesSentinel ==
  stage = "done" /\ invalid => \A f \in BankFields : m[f] = Sentinel

=============================================================================
