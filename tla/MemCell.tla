------------------------------ MODULE MemCell ------------------------------
(***************************************************************************)
(* The write and retention parameters of one memory cell                  *)
(* (src/MemCell.cpp): the constructor's defaults, ReadCellFromFile reading *)
(* the cell file one line at a time, ApplyPVT (main.cpp:210) adjusting an  *)
(* eDRAM retention time to the ambient temperature, and                    *)
(* CalculateWriteEnergy deriving the set and reset energies the file does  *)
(* not give.                                                               *)
(*                                                                         *)
(* Only the lines that reach these parameters are modelled.  A number     *)
(* stands for the value after the parser's unit conversion (uA, ns and pJ  *)
(* to SI); the conversions scale the file's value and the computed energy *)
(* alike, so they decide neither sign nor equality.  The char buffer tmp   *)
(* starts uninitialized; it is assumed not to hold the string "vdd".  The  *)
(* member temperature is never initialized: 0 stands for whatever double  *)
(* its storage holds.                                                      *)
(***************************************************************************)
EXTENDS Integers, Sequences, SequencesExt

CONSTANTS
  Vdd,            \* tech->vdd
  VoltageTokens,  \* what a -ResetVoltage or -SetVoltage line may give
  MaxLines,       \* bound on the lines of a cell file
  InputTemperature  \* inputParameter->temperature, in K

\* sscanf "%lf" of a numeral token.
ScanDouble == ("1" :> 1) @@ ("2" :> 2) @@ ("4" :> 4) @@ ("300" :> 300) @@ ("350" :> 350)

ASSUME /\ Vdd \in Nat \ {0} /\ MaxLines \in Nat
       /\ VoltageTokens \subseteq {"vdd"} \cup DOMAIN ScanDouble

\* PCRAM (the constructor's default) stands for every type that takes the
\* resistive formula; FBRAM takes voltage times current.
\* eDRAM alone has a retention time.
CellTypes == {"PCRAM", "FBRAM", "eDRAM"}

\* The lines of a cell file that reach the write energies.
Lines ==
  [key : {"MemCellType"}, val : CellTypes]
  \cup [key : {"ResetMode", "SetMode"}, val : {"voltage", "current"}]
  \cup [key : {"ResetVoltage", "SetVoltage"}, val : VoltageTokens]
  \cup [key : {"ResetCurrent", "ResetPulse", "ResetEnergy",
               "SetCurrent", "SetPulse", "SetEnergy", "RetentionTime"}, val : {"1"}]
  \cup [key : {"Temperature"}, val : {"300", "350"}]
  \cup [key : {"CellArea"}, val : {"4"}]
  \cup [key : {"CellAspectRatio"}, val : {"1"}]

\* heightInFeatureSize = sqrt(area * aspectRatio) and widthInFeatureSize =
\* sqrt(area / aspectRatio), kept as the pair they are computed from.
Dims(area, ratio) == [area |-> area, ratio |-> ratio]

\* A retention time of value microseconds, adjusted by ApplyPVT from
\* temperature from to temperature to: value * exp(-0.0268 * (to - from)),
\* which depends on the difference alone (0 while unadjusted).
Retention(value, from, to) == [value |-> value, shift |-> to - from]

\* invalid_value, the constructor's retentionTime ("no retention given").
InvalidValue == -1


\* The member each numeric line is scanned into.
NumericField ==
  [ResetCurrent |-> "resetCurrent", ResetPulse |-> "resetPulse",
   ResetEnergy |-> "resetEnergy", SetCurrent |-> "setCurrent",
   SetPulse |-> "setPulse", SetEnergy |-> "setEnergy"]

VARIABLES
  phase,  \* "parse", "read" (file closed), "pvt" (ApplyPVT done) or
          \* "energy" (write energies derived)
  tmp,    \* ReadCellFromFile's char buffer tmp: the last token scanned by %s
  cell,   \* the MemCell members the write energies depend on
  lines   \* the lines read so far (history, read only by the property)

vars == <<phase, tmp, cell, lines>>

\* MemCell::MemCell(): voltage modes, everything else zero; the height and
\* width in feature sizes are never initialized.
NewCell ==
  [memCellType |-> "PCRAM",
   resetMode |-> TRUE, resetVoltage |-> 0, resetCurrent |-> 0,
   resetPulse |-> 0, resetEnergy |-> 0,
   setMode |-> TRUE, setVoltage |-> 0, setCurrent |-> 0,
   setPulse |-> 0, setEnergy |-> 0,
   retentionTime |-> Retention(InvalidValue, 0, 0), temperature |-> 0,
   area |-> 0, aspectRatio |-> 0, dims |-> "garbage"]

Init ==
  /\ phase = "parse"
  /\ tmp = "garbage"
  /\ cell = NewCell
  /\ lines = <<>>

\* -MemCellType: sscanf "%s" into tmp, then the type.
ReadMemCellType(l) ==
  /\ l.key = "MemCellType"
  /\ tmp' = l.val
  /\ cell' = [cell EXCEPT !.memCellType = l.val]

\* -ResetMode / -SetMode: "%s" into tmp; anything but "voltage" is current.
ReadMode(l) ==
  /\ l.key \in {"ResetMode", "SetMode"}
  /\ tmp' = l.val
  /\ cell' = IF l.key = "ResetMode"
             THEN [cell EXCEPT !.resetMode = (l.val = "voltage")]
             ELSE [cell EXCEPT !.setMode = (l.val = "voltage")]

\* -ResetVoltage: "%s" into tmp; "vdd" means tech->vdd, else "%lf".
ReadResetVoltage(l) ==
  /\ l.key = "ResetVoltage"
  /\ tmp' = l.val
  /\ cell' = [cell EXCEPT !.resetVoltage = IF l.val = "vdd" THEN Vdd ELSE ScanDouble[l.val]]

(***************************************************************************)
(* -SetVoltage: the line is scanned with the format "-ResetVoltage (V):    *)
(* %s", which fails at its second character and leaves tmp as it was.  If *)
(* tmp holds "vdd", resetVoltage is set to tech->vdd; otherwise "%lf"      *)
(* scans the value, and fails (leaving setVoltage) on the token "vdd".     *)
(***************************************************************************)
ReadSetVoltage(l) ==
  /\ l.key = "SetVoltage"
  /\ cell' = CASE tmp = "vdd"   -> [cell EXCEPT !.resetVoltage = Vdd]
               [] l.val # "vdd" -> [cell EXCEPT !.setVoltage = ScanDouble[l.val]]
               [] OTHER         -> cell
  /\ UNCHANGED tmp

\* A current, pulse or energy line: "%lf" into its member.
ReadNumeric(l) ==
  /\ l.key \in DOMAIN NumericField
  /\ cell' = [cell EXCEPT ![NumericField[l.key]] = ScanDouble[l.val]]
  /\ UNCHANGED tmp

\* -RetentionTime / -Temperature: ignored with a warning unless the cell
\* type read so far is eDRAM.
ReadEdramLine(l) ==
  /\ l.key \in {"RetentionTime", "Temperature"}
  /\ cell' = CASE cell.memCellType # "eDRAM" -> cell
               [] l.key = "RetentionTime" ->
                    [cell EXCEPT !.retentionTime = Retention(ScanDouble[l.val], 0, 0)]
               [] OTHER -> [cell EXCEPT !.temperature = ScanDouble[l.val]]
  /\ UNCHANGED tmp

\* -CellArea: "%lf" into area.
ReadCellArea(l) ==
  /\ l.key = "CellArea"
  /\ cell' = [cell EXCEPT !.area = ScanDouble[l.val]]
  /\ UNCHANGED tmp

\* -CellAspectRatio: "%lf" into aspectRatio, then the height and width from
\* the area read so far.
ReadAspectRatio(l) ==
  /\ l.key = "CellAspectRatio"
  /\ cell' = [cell EXCEPT !.aspectRatio = ScanDouble[l.val],
                           !.dims = Dims(cell.area, ScanDouble[l.val])]
  /\ UNCHANGED tmp

\* One iteration of ReadCellFromFile's while loop.
ReadLine ==
  /\ phase = "parse"
  /\ Len(lines) < MaxLines
  /\ \E l \in Lines :
       /\ lines' = Append(lines, l)
       /\ \/ ReadMemCellType(l)
          \/ ReadMode(l)
          \/ ReadResetVoltage(l)
          \/ ReadSetVoltage(l)
          \/ ReadNumeric(l)
          \/ ReadEdramLine(l)
          \/ ReadCellArea(l)
          \/ ReadAspectRatio(l)
  /\ UNCHANGED phase

\* fscanf reaches EOF: the file is closed.
EndOfFile ==
  /\ phase = "parse"
  /\ phase' = "read"
  /\ UNCHANGED <<tmp, cell, lines>>

Abs(x) == IF x < 0 THEN -x ELSE x

(***************************************************************************)
(* The energy of one write of CalculateWriteEnergy's reset branch.  In     *)
(* voltage mode: |V| * (|V| - voltageDropAccessDevice) / resistanceOn *    *)
(* pulse, with no access-device drop among the lines modelled and the      *)
(* division by the file's positive resistanceOn left out (it changes      *)
(* neither sign nor equality), or |V| * |I| * pulse for FBRAM.  In current *)
(* mode: |V| * |I| * pulse, with tech->vdd for a voltage of zero.          *)
(***************************************************************************)
WriteEnergy(type, voltageMode, v, i, p) ==
  IF voltageMode
  THEN IF type = "FBRAM" THEN Abs(v) * Abs(i) * p ELSE Abs(v) * Abs(v) * p
  ELSE IF v = 0 THEN Vdd * Abs(i) * p ELSE Abs(v) * Abs(i) * p

ResetEnergyOf(c) ==
  WriteEnergy(c.memCellType, c.resetMode, c.resetVoltage, c.resetCurrent, c.resetPulse)

\* The set branch: its current mode tests resetVoltage, not setVoltage.
SetEnergyOf(c) ==
  IF c.setMode
  THEN WriteEnergy(c.memCellType, TRUE, c.setVoltage, c.setCurrent, c.setPulse)
  ELSE IF c.resetVoltage = 0 THEN Vdd * Abs(c.setCurrent) * c.setPulse
       ELSE Abs(c.setVoltage) * Abs(c.setCurrent) * c.setPulse

\* ApplyPVT: nothing without a retention time; an eDRAM retention time is
\* moved from the cell's temperature to the ambient one.
ApplyPVT ==
  /\ phase = "read"
  /\ cell' = IF cell.retentionTime.value # InvalidValue /\ cell.memCellType = "eDRAM"
             THEN [cell EXCEPT !.retentionTime =
                     Retention(@.value, cell.temperature, InputTemperature)]
             ELSE cell
  /\ phase' = "pvt"
  /\ UNCHANGED <<tmp, lines>>

\* CalculateWriteEnergy: an energy the file did not give is derived.
CalculateWriteEnergy ==
  /\ phase = "pvt"
  /\ cell' = [cell EXCEPT
               !.resetEnergy = IF @ = 0 THEN ResetEnergyOf(cell) ELSE @,
               !.setEnergy = IF @ = 0 THEN SetEnergyOf(cell) ELSE @]
  /\ phase' = "energy"
  /\ UNCHANGED <<tmp, lines>>

Next == ReadLine \/ EndOfFile \/ ApplyPVT \/ CalculateWriteEnergy

Spec == Init /\ [][Next]_vars

-----------------------------------------------------------------------------
\* The value the file gives for key: its last line with that key, if any.
Written(key, default) ==
  LET i == SelectLastInSeq(lines, LAMBDA l : l.key = key)
  IN IF i = 0 THEN default ELSE lines[i].val

\* A numeric key's value: the file's numeral, "vdd" for a voltage, or 0.
WrittenValue(key) ==
  LET v == Written(key, "0")
  IN CASE v = "vdd" -> Vdd [] v = "0" -> 0 [] OTHER -> ScanDouble[v]

\* The energy the file describes for op ("Reset" or "Set"): the one it
\* gives, or the one its mode, voltage, current and pulse determine.
Described(op) ==
  LET given == WrittenValue(op \o "Energy")
  IN IF given # 0 THEN given
     ELSE WriteEnergy(Written("MemCellType", "PCRAM"),
                      Written(op \o "Mode", "voltage") = "voltage",
                      WrittenValue(op \o "Voltage"), WrittenValue(op \o "Current"),
                      WrittenValue(op \o "Pulse"))

\* The retention time the file describes for an eDRAM cell, at the ambient
\* temperature: the file's value moved from the file's temperature, or
\* left as it is when the file gives none.
DescribedRetention ==
  LET r == WrittenValue("RetentionTime")
      t == WrittenValue("Temperature")
  IN CASE r = 0 -> Retention(InvalidValue, 0, 0)
       [] t = 0 -> Retention(r, InputTemperature, InputTemperature)
       [] OTHER -> Retention(r, t, InputTemperature)

(***************************************************************************)
(* The spec's MemCell parameter set: the cell the search receives, after   *)
(* ApplyPVT and CalculateWriteEnergy, has the set and reset energies and,  *)
(* for an eDRAM cell, the temperature-adjusted retention time that the     *)
(* cell file describes, and the height and width in feature sizes that its *)
(* area and aspect ratio describe, whatever the order of its lines.        *)
(***************************************************************************)
CellAsDescribed ==
  phase = "energy" =>
    /\ cell.resetEnergy = Described("Reset")
    /\ cell.setEnergy = Described("Set")
    /\ Written("MemCellType", "PCRAM") = "eDRAM" =>
         cell.retentionTime = DescribedRetention
    /\ Written("CellAspectRatio", "none") # "none" =>
         cell.dims = Dims(WrittenValue("CellArea"), WrittenValue("CellAspectRatio"))

=============================================================================
