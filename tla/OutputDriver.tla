---------------------------- MODULE OutputDriver ----------------------------
(***************************************************************************)
(* The output driver (the logical-effort inverter chain) that a row        *)
(* decoder and a basic decoder own as `outputDriver`.  Only its interface  *)
(* is in the repository (src/OutputDriver.h); its methods are modelled     *)
(* from the spec's contract for a leaf unit: Initialize sizes the chain    *)
(* and marks it valid or invalid, CalculateRC extracts the stage           *)
(* capacitances (capInput[0] among them), and an invalid unit's metrics    *)
(* are the sentinel.                                                       *)
(*                                                                         *)
(* The value abstraction is the one of GlobalSensing: Zero (never assigned *)
(* since the FunctionUnit constructor), Computed, Sentinel.  A formula     *)
(* over a member not assigned for the current sizing reads garbage: the    *)
(* argument `junk`, any value.                                             *)
(***************************************************************************)

Zero     == "zero"
Computed == "computed"
Sentinel == "sentinel"
Values   == {Zero, Computed, Sentinel}

\* The FunctionUnit fields a decoder's owner reads.
Fields == {"area", "readLatency", "writeLatency", "readDynamicEnergy",
           "writeDynamicEnergy", "leakage"}

\* Addition, MAX and multiplication by a positive factor in double
\* precision: invalid_value absorbs any computed term.
Plus(a, b) ==
  CASE Sentinel \in {a, b}   -> Sentinel
    [] a = Zero /\ b = Zero -> Zero
    [] OTHER                -> Computed

\* FunctionUnit::FunctionUnit() and the driver's own flags.
NewDriver ==
  [init |-> FALSE, invalid |-> FALSE, rc |-> FALSE, m |-> [f \in Fields |-> Zero]]

\* Initialize: a new sizing, valid or not; the capacitances of an earlier
\* sizing no longer belong to it.
OD_Initialize(od, bad) == [od EXCEPT !.init = TRUE, !.invalid = bad, !.rc = FALSE]

OD_CalculateArea(od) ==
  CASE ~od.init   -> od
    [] od.invalid -> [od EXCEPT !.m.area = Sentinel]
    [] OTHER      -> [od EXCEPT !.m.area = Computed]

OD_CalculateRC(od) ==
  IF od.init /\ ~od.invalid THEN [od EXCEPT !.rc = TRUE] ELSE od

\* capInput[0] (or capOutput[0]) as a decoder reads it.
OD_Cap(od, junk) == IF od.rc THEN Computed ELSE junk

OD_CalculateLatency(od, junk) ==
  CASE ~od.init   -> od
    [] od.invalid -> [od EXCEPT !.m.readLatency = Sentinel, !.m.writeLatency = Sentinel]
    [] OTHER      -> [od EXCEPT !.m.readLatency = OD_Cap(od, junk),
                                !.m.writeLatency = OD_Cap(od, junk)]

OD_CalculatePower(od, junk) ==
  CASE ~od.init   -> od
    [] od.invalid -> [od EXCEPT !.m.readDynamicEnergy = Sentinel,
                                !.m.writeDynamicEnergy = Sentinel, !.m.leakage = Sentinel]
    [] OTHER      -> [od EXCEPT !.m.readDynamicEnergy = OD_Cap(od, junk),
                                !.m.writeDynamicEnergy = OD_Cap(od, junk),
                                !.m.leakage = Computed]

=============================================================================
