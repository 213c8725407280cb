---------------------------- MODULE BasicDecoder ----------------------------
(***************************************************************************)
(* One BasicDecoder (src/BasicDecoder.cpp), the 1-, 2- or 3-bit decoder of *)
(* a predecode block, with its output driver, driven through the spec's    *)
(* lifecycle by its owner (PredecodeBlock, whose code is not in the        *)
(* repository).  The code expects re-initialization ("might be             *)
(* re-initialized by predecodeblock"), allowed here up to MaxInits times   *)
(* after a finished lifecycle.  Unlike RowDecoder, a BasicDecoder has no   *)
(* invalid flag and does not look at its driver's.                         *)
(***************************************************************************)
EXTENDS Naturals, OutputDriver

CONSTANTS
  AddressBits,  \* the _numAddressBit values the owner passes
  MaxInits      \* bound on the number of Initialize calls

ASSUME AddressBits \subseteq Nat /\ MaxInits \in Nat \ {0}

VARIABLES
  stage,         \* the last lifecycle call
  inits,         \* Initialize calls so far
  initialized,   \* BasicDecoder::initialized
  numNandInput,  \* BasicDecoder::numNandInput
  numNandGate,   \* BasicDecoder::numNandGate
  nandCaps,      \* capNandInput/capNandOutput extracted for the current sizing
  outputDriver,  \* BasicDecoder::outputDriver
  m              \* the FunctionUnit fields

vars == <<stage, inits, initialized, numNandInput, numNandGate, nandCaps,
          outputDriver, m>>

\* BasicDecoder::BasicDecoder().
Init ==
  /\ stage = "constructed"
  /\ inits = 0
  /\ initialized = FALSE
  /\ numNandInput = 0
  /\ numNandGate = 0
  /\ nandCaps = FALSE
  /\ outputDriver = NewDriver
  /\ m = [f \in Fields |-> Zero]

\* One address bit needs only inverters; otherwise one NAND input per bit.
NandInputsOf(bits) == IF bits = 1 THEN 0 ELSE bits

\* The number of NAND gates: none, four NAND2s, or eight gates otherwise.
NandGatesOf(nni) == CASE nni = 0 -> 0 [] nni = 2 -> 4 [] OTHER -> 8

\* Initialize: the gate sizes and the driver; initialized whatever the
\* driver's validity.
Initialize ==
  /\ stage \in {"constructed", "power"}
  /\ inits < MaxInits
  /\ \E bits \in AddressBits, driverBad \in BOOLEAN :
       /\ numNandInput' = NandInputsOf(bits)
       /\ numNandGate' = NandGatesOf(NandInputsOf(bits))
       /\ outputDriver' = OD_Initialize(outputDriver, driverBad)
  /\ initialized' = TRUE
  /\ inits' = inits + 1
  /\ nandCaps' = FALSE
  /\ stage' = "initialized"
  /\ UNCHANGED m

\* An inverter pair has twice the driver's height; otherwise the NAND
\* column and the driver side by side.
CalculateArea ==
  /\ stage = "initialized"
  /\ IF initialized
     THEN LET od == OD_CalculateArea(outputDriver)
          IN /\ outputDriver' = od
             /\ m' = [m EXCEPT !.area = IF numNandInput = 0 THEN od.m.area
                                        ELSE Plus(Computed, od.m.area)]
     ELSE UNCHANGED <<outputDriver, m>>
  /\ stage' = "area"
  /\ UNCHANGED <<inits, initialized, numNandInput, numNandGate, nandCaps>>

ExtractsNandCapsNand3(nni) == nni > 2

\* Whether CalculateRC extracts the NAND's capacitances.
ExtractsNandCaps(nni) == nni > 0

CalculateRC ==
  /\ stage = "area"
  /\ IF initialized
     THEN /\ outputDriver' = OD_CalculateRC(outputDriver)
          /\ nandCaps' = ExtractsNandCaps(numNandInput)
     ELSE UNCHANGED <<outputDriver, nandCaps>>
  /\ stage' = "rc"
  /\ UNCHANGED <<inits, initialized, numNandInput, numNandGate, m>>

\* capNandOutput + outputDriver.capInput[0], the load of the NAND.
NandLoad(junk) == IF nandCaps THEN OD_Cap(outputDriver, junk) ELSE junk

CalculateLatency ==
  /\ stage = "rc"
  /\ \E jNand, jDriver \in Values :
       IF initialized
       THEN LET od  == OD_CalculateLatency(outputDriver, jDriver)
                lat == IF numNandInput = 0 THEN od.m.readLatency
                       ELSE Plus(NandLoad(jNand), od.m.readLatency)
            IN /\ outputDriver' = od
               /\ m' = [m EXCEPT !.readLatency = lat, !.writeLatency = lat]
       ELSE UNCHANGED <<outputDriver, m>>
  /\ stage' = "latency"
  /\ UNCHANGED <<inits, initialized, numNandInput, numNandGate, nandCaps>>

\* CalculatePower: for inverters, twice the driver's leakage and the energy
\* of the driver's input and output capacitance; for NANDs, the gates'
\* leakage with the driver's, and the energy of the NAND's load.
CalculatePower ==
  /\ stage = "latency"
  /\ \E jNand, jDriver \in Values :
       IF initialized
       THEN LET od  == OD_CalculatePower(outputDriver, jDriver)
                load == IF numNandInput = 0 THEN OD_Cap(outputDriver, jDriver)
                        ELSE NandLoad(jNand)
                dyn == Plus(load, od.m.readDynamicEnergy)
                leak == IF numNandInput = 0 THEN od.m.leakage
                        ELSE Plus(Computed, od.m.leakage)
            IN /\ outputDriver' = od
               /\ m' = [m EXCEPT !.leakage = leak,
                                 !.readDynamicEnergy = dyn, !.writeDynamicEnergy = dyn]
       ELSE UNCHANGED <<outputDriver, m>>
  /\ stage' = "power"
  /\ UNCHANGED <<inits, initialized, numNandInput, numNandGate, nandCaps>>

Next == Initialize \/ CalculateArea \/ CalculateRC \/ CalculateLatency
        \/ CalculatePower

Spec == Init /\ [][Next]_vars

-----------------------------------------------------------------------------
(***************************************************************************)
(* With no invalid flag of its own, a BasicDecoder reports its driver's    *)
(* validity only through its values: after each lifecycle every field is   *)
(* computed when the driver is valid and the sentinel when it is not,      *)
(* across re-initializations that switch between inverters, NAND2 and      *)
(* NAND3 (so the NAND's capacitances must be those of the current sizing). *)
(***************************************************************************)
DecoderFollowsDriver ==
  stage = "power" =>
    \A f \in Fields :
      m[f] = IF outputDriver.invalid THEN Sentinel ELSE Computed

=============================================================================
