------------------------------ MODULE Decoders ------------------------------
(***************************************************************************)
(* The decoders of one mat: the row decoder of its sub-array and a basic   *)
(* decoder of its predecode blocks.  The mat owns both (spec.md 4.3: a mat *)
(* composes its sub-arrays with predecode blocks) and takes its whole tree *)
(* through each lifecycle call, so both decoders see Initialize,           *)
(* CalculateArea, CalculateRC, CalculateLatency and CalculatePower         *)
(* together, and a re-initialized mat re-initializes both.  Mat, SubArray  *)
(* and PredecodeBlock are not in the repository: the lockstep is the       *)
(* spec's; each decoder's step is its own module's translation of its     *)
(* code.                                                                   *)
(***************************************************************************)
EXTENDS Naturals

CONSTANTS
  NumRows,      \* the numRow values the sub-array passes its row decoder
  AddressBits,  \* the address-bit counts a predecode block passes
  MaxInits      \* bound on the number of times the mat is initialized

VARIABLES
  stage, inits,  \* the mat's last lifecycle call and its Initialize count
  rdInitialized, rdInvalid, rdNumNandInput, rdNandCaps, rdDriver, rdM,
  bdInitialized, bdNumNandInput, bdNumNandGate, bdNandCaps, bdDriver, bdM

vars == <<stage, inits,
          rdInitialized, rdInvalid, rdNumNandInput, rdNandCaps, rdDriver, rdM,
          bdInitialized, bdNumNandInput, bdNumNandGate, bdNandCaps, bdDriver, bdM>>

RD == INSTANCE RowDecoder
        WITH initialized <- rdInitialized, invalid <- rdInvalid,
             numNandInput <- rdNumNandInput, nandCaps <- rdNandCaps,
             outputDriver <- rdDriver, m <- rdM

BD == INSTANCE BasicDecoder
        WITH initialized <- bdInitialized, numNandInput <- bdNumNandInput,
             numNandGate <- bdNumNandGate, nandCaps <- bdNandCaps,
             outputDriver <- bdDriver, m <- bdM

Init == RD!Init /\ BD!Init

\* Each lifecycle call of the mat reaches both decoders.
MatInitialize == RD!Initialize /\ BD!Initialize

MatCalculateArea == RD!CalculateArea /\ BD!CalculateArea

MatCalculateRC == RD!CalculateRC /\ BD!CalculateRC

MatCalculateLatency == RD!CalculateLatency /\ BD!CalculateLatency

MatCalculatePower == RD!CalculatePower /\ BD!CalculatePower

Next ==
  \/ MatInitialize
  \/ MatCalculateArea
  \/ MatCalculateRC
  \/ MatCalculateLatency
  \/ MatCalculatePower

Spec == Init /\ [][Next]_vars

-----------------------------------------------------------------------------
(***************************************************************************)
(* The row decoder's property (RowDecoder.cpp): after each lifecycle, a    *)
(* row decoder not flagged invalid has every field computed, across        *)
(* re-initializations that change its NAND.                                *)
(***************************************************************************)
ValidRowDecoderComputed == RD!ValidRowDecoderComputed

(***************************************************************************)
(* The basic decoder's property (BasicDecoder.cpp): after each lifecycle,  *)
(* every field is computed when its driver is valid and the sentinel when *)
(* it is not.                                                              *)
(***************************************************************************)
DecoderFollowsDriver == BD!DecoderFollowsDriver

=============================================================================
