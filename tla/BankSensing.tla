---------------------------- MODULE BankSensing ----------------------------
(***************************************************************************)
(* One BankWithoutHtree seen whole: module Bank follows its own area,      *)
(* timing and energy fields, module GlobalSensing the global units it      *)
(* drives.  Both are views of the same object, so they share its           *)
(* lifecycle stage and its members initialized and invalid, and they read  *)
(* the same inputs: the cell (an eDRAM cell is GlobalSensing's DRAM-like   *)
(* cell) and the die count.  Each call of the search on the bank is the    *)
(* same call in both views; an outcome of a call (an early return of       *)
(* Initialize, an aspect-ratio rejection, the late eDRAM invalidation)     *)
(* happens in the bank only if both views agree on the flags it leaves.    *)
(* The memory type Initialize stores is the candidate's array kind.  (The *)
(* inputs are fixed first in each step, as TLC evaluates the views' env.) *)
(***************************************************************************)

VARIABLES
  benv,          \* Bank's inputs: cell, retention given, fast mode, ...
  sense,         \* the array kind and whether sensing is internal
  stage, initialized, invalid, memoryType, m,
  senseAmp, bitlineMux, comparator, tsvArray, bm, misuse, unsetRead

vars == <<benv, sense, stage, initialized, invalid, memoryType, m,
          senseAmp, bitlineMux, comparator, tsvArray, bm, misuse, unsetRead>>

B == INSTANCE Bank WITH env <- benv

\* GlobalSensing's inputs, read off the bank's.
SensingEnv ==
  [memoryType |-> sense.memoryType, internal |-> sense.internal,
   dramLike |-> benv.cell = "eDRAM", fastWrite |-> benv.fastWrite,
   assocOne |-> benv.assocOne, stacked |-> benv.stacked]

G == INSTANCE GlobalSensing WITH env <- SensingEnv

Init ==
  /\ sense \in [memoryType : {"data", "tag"}, internal : BOOLEAN]
  /\ B!Init
  /\ G!Init

\* BankWithoutHtree::Initialize: memoryType, once stored, is the array kind.
Initialize ==
  /\ UNCHANGED sense
  /\ B!Initialize
  /\ G!BankInitialize
  /\ memoryType' # "none" => memoryType' = sense.memoryType

CalculateArea == UNCHANGED sense /\ B!CalculateArea /\ G!BankCalculateArea

CalculateRC == UNCHANGED sense /\ B!CalculateRC /\ G!BankCalculateRC

CalculateLatencyAndPower ==
  /\ UNCHANGED sense
  /\ B!CalculateLatencyAndPower
  /\ G!BankCalculateLatencyAndPower

Next == Initialize \/ CalculateArea \/ CalculateRC \/ CalculateLatencyAndPower

Spec == Init /\ [][Next]_vars

-----------------------------------------------------------------------------
(***************************************************************************)
(* Bank's property (BankWithoutHtree.cpp): a bank the search accepts went  *)
(* through the whole of Initialize and has every field computed.           *)
(***************************************************************************)
AcceptedBankComputed == B!AcceptedBankComputed

(***************************************************************************)
(* GlobalSensing's properties: no global unit is used before its           *)
(* Initialize and no formula reads an unassigned member; a valid bank has  *)
(* every timing and refresh field computed, units included.               *)
(***************************************************************************)
UnitCallsWellFormed == G!UnitCallsWellFormed

ValidBankComputed == G!ValidBankComputed

=============================================================================
