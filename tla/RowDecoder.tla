----------------------------- MODULE RowDecoder -----------------------------
(***************************************************************************)
(* One RowDecoder (src/RowDecoder.cpp) with its output driver, driven      *)
(* through the spec's lifecycle (Initialize, CalculateArea, CalculateRC,   *)
(* CalculateLatency, CalculatePower) by its owner, the sub-array, whose    *)
(* code is not in the repository.  Initialize may come again after a       *)
(* finished lifecycle (the code warns "Already initialized!" and carries   *)
(* on), up to MaxInits times.                                              *)
(***************************************************************************)
EXTENDS Naturals, OutputDriver

CONSTANTS
  NumRows,   \* the numRow values the owner passes
  MaxInits   \* bound on the number of Initialize calls

ASSUME NumRows \subseteq Nat \ {0} /\ MaxInits \in Nat \ {0}

VARIABLES
  stage,         \* the last lifecycle call
  inits,         \* Initialize calls so far
  initialized,   \* RowDecoder::initialized
  invalid,       \* RowDecoder::invalid
  numNandInput,  \* RowDecoder::numNandInput
  nandCaps,      \* capNandInput/capNandOutput assigned for the current sizing
  outputDriver,  \* RowDecoder::outputDriver
  m              \* the FunctionUnit fields

vars == <<stage, inits, initialized, invalid, numNandInput, nandCaps,
          outputDriver, m>>

\* RowDecoder::RowDecoder().
Init ==
  /\ stage = "constructed"
  /\ inits = 0
  /\ initialized = FALSE
  /\ invalid = FALSE
  /\ numNandInput = 0
  /\ nandCaps = FALSE
  /\ outputDriver = NewDriver
  /\ m = [f \in Fields |-> Zero]

\* The NAND gate in front of the driver: none when at most eight rows are
\* decoded directly, one more input for way selection.
NandInputs(numRow, multipleRowPerSet) ==
  IF numRow <= 8 THEN (IF multipleRowPerSet THEN 2 ELSE 0)
  ELSE (IF multipleRowPerSet THEN 3 ELSE 2)

(***************************************************************************)
(* Initialize: the NAND size, then the driver sized for it; an invalid     *)
(* driver makes the decoder invalid and returns before `initialized` is    *)
(* set.                                                                    *)
(***************************************************************************)
Initialize ==
  /\ stage \in {"constructed", "power"}
  /\ inits < MaxInits
  /\ \E numRow \in NumRows, multipleRowPerSet, driverBad \in BOOLEAN :
       /\ numNandInput' = NandInputs(numRow, multipleRowPerSet)
       /\ outputDriver' = OD_Initialize(outputDriver, driverBad)
       /\ IF driverBad
          THEN /\ invalid' = TRUE
               /\ UNCHANGED initialized
          ELSE /\ initialized' = TRUE
               /\ UNCHANGED invalid
  /\ inits' = inits + 1
  /\ nandCaps' = FALSE
  /\ stage' = "initialized"
  /\ UNCHANGED m

\* The NAND's own area, when there is a NAND.
NandTerm == IF numNandInput = 0 THEN Zero ELSE Computed

CalculateArea ==
  /\ stage = "initialized"
  /\ IF initialized
     THEN LET od == OD_CalculateArea(outputDriver)
          IN /\ outputDriver' = od
             /\ m' = [m EXCEPT !.area = Plus(NandTerm, od.m.area)]
     ELSE UNCHANGED <<outputDriver, m>>
  /\ stage' = "area"
  /\ UNCHANGED <<inits, initialized, invalid, numNandInput, nandCaps>>

CalculateRCNoDriver ==
  /\ stage = "area"
  /\ IF initialized THEN nandCaps' = TRUE ELSE UNCHANGED nandCaps
  /\ stage' = "rc"
  /\ UNCHANGED <<inits, initialized, invalid, numNandInput, outputDriver, m>>

\* CalculateRC: the driver's, then the NAND's capacitances (zero when there
\* is no NAND).
CalculateRC ==
  /\ stage = "area"
  /\ IF initialized
     THEN /\ outputDriver' = OD_CalculateRC(outputDriver)
          /\ nandCaps' = TRUE
     ELSE UNCHANGED <<outputDriver, nandCaps>>
  /\ stage' = "rc"
  /\ UNCHANGED <<inits, initialized, invalid, numNandInput, m>>

\* capNandOutput + outputDriver.capInput[0], the load of the NAND.
NandLoad(junk) == IF nandCaps THEN OD_Cap(outputDriver, junk) ELSE junk

\* CalculateLatency: the driver alone, or the NAND's Horowitz delay into
\* the driver followed by the driver's.
CalculateLatency ==
  /\ stage = "rc"
  /\ \E jNand, jDriver \in Values :
       IF initialized
       THEN LET od  == OD_CalculateLatency(outputDriver, jDriver)
                lat == IF numNandInput = 0 THEN od.m.readLatency
                       ELSE Plus(NandLoad(jNand), od.m.readLatency)
            IN /\ outputDriver' = od
               /\ m' = [m EXCEPT !.readLatency = lat, !.writeLatency = lat]
       ELSE UNCHANGED <<outputDriver, m>>
  /\ stage' = "latency"
  /\ UNCHANGED <<inits, initialized, invalid, numNandInput, nandCaps>>

\* CalculatePower: the driver's leakage plus the NAND's, and the switching
\* energy of the NAND's load plus the driver's.
CalculatePower ==
  /\ stage = "latency"
  /\ \E jNand, jDriver \in Values :
       IF initialized
       THEN LET od  == OD_CalculatePower(outputDriver, jDriver)
                dyn == IF numNandInput = 0 THEN od.m.readDynamicEnergy
                       ELSE Plus(NandLoad(jNand), od.m.readDynamicEnergy)
            IN /\ outputDriver' = od
               /\ m' = [m EXCEPT !.leakage = Plus(NandTerm, od.m.leakage),
                                 !.readDynamicEnergy = dyn, !.writeDynamicEnergy = dyn]
       ELSE UNCHANGED <<outputDriver, m>>
  /\ stage' = "power"
  /\ UNCHANGED <<inits, initialized, invalid, numNandInput, nandCaps>>

Next == Initialize \/ CalculateArea \/ CalculateRC \/ CalculateLatency
        \/ CalculatePower

Spec == Init /\ [][Next]_vars

-----------------------------------------------------------------------------
(***************************************************************************)
(* After each lifecycle, a decoder that is not flagged invalid has every   *)
(* field computed: the driver's capInput[0] and the NAND's capacitances    *)
(* were extracted for the current sizing before the latency and energy     *)
(* formulas read them, across re-initializations that change the NAND.    *)
(***************************************************************************)
ValidRowDecoderComputed ==
  stage = "power" /\ ~invalid => \A f \in Fields : m[f] = Computed

=============================================================================
