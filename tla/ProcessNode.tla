---------------------------- MODULE ProcessNode ----------------------------
(***************************************************************************)
(* The technology main() builds before the cell loop (src/main.cpp:140-   *)
(* 169): tech is initialized at the requested process node, then          *)
(* interpolated with techHigh, the technology of the next tabulated node   *)
(* above it, by the weight alpha.  Technology.cpp is not in the            *)
(* repository; the model keeps what main() decides, the node of techHigh  *)
(* and alpha, an exact rational num / den.  Past either end of the table   *)
(* techHigh is never initialized (Unset) and alpha stays 0.                *)
(***************************************************************************)
EXTENDS Integers, FiniteSetsExt

CONSTANTS
  Nodes   \* the values inputParameter->processNode may take, in nm

\* The nodes main() initializes techHigh at, and 22 nm, the lowest node
\* the branches accept.
Tabulated == {22, 32, 45, 65, 90, 120, 200}

\* techHigh as default-constructed, never initialized.
Unset == 0

Ratio(num, den) == [num |-> num, den |-> den]

VARIABLES
  phase,        \* "initialized" (tech->Initialize done) or "interpolated"
  processNode,  \* inputParameter->processNode
  techHigh,     \* the node techHigh is initialized at, or Unset
  alpha         \* the weight passed to tech->InterpolateWith

vars == <<phase, processNode, techHigh, alpha>>

Init ==
  /\ phase = "initialized"
  /\ processNode \in Nodes
  /\ techHigh = Unset
  /\ alpha = Ratio(0, 1)

\* The if-chain of main.cpp:145-166, in its order: techHigh and alpha.
Branch(n) ==
  CASE n > 200 -> [high |-> Unset, alpha |-> Ratio(0, 1)]
    [] n > 120 -> [high |-> 200, alpha |-> Ratio(n - 120, 60)]
    [] n > 90  -> [high |-> 120, alpha |-> Ratio(n - 90, 30)]
    [] n > 65  -> [high |-> 90,  alpha |-> Ratio(n - 65, 25)]
    [] n > 45  -> [high |-> 65,  alpha |-> Ratio(n - 45, 20)]
    [] n >= 32 -> [high |-> 45,  alpha |-> Ratio(n - 32, 13)]
    [] n >= 22 -> [high |-> 32,  alpha |-> Ratio(n - 22, 10)]
    [] OTHER   -> [high |-> Unset, alpha |-> Ratio(0, 1)]

\* techHigh.Initialize for the branch taken, then tech->InterpolateWith.
Interpolate ==
  /\ phase = "initialized"
  /\ techHigh' = Branch(processNode).high
  /\ alpha' = Branch(processNode).alpha
  /\ phase' = "interpolated"
  /\ UNCHANGED processNode

Next == Interpolate

Spec == Init /\ [][Next]_vars

-----------------------------------------------------------------------------
\* The tabulated node below n.
Below(n) == Max({t \in Tabulated : t < n})

(***************************************************************************)
(* The spec's technology parameter set, "derived from interpolating        *)
(* between two tabulated process nodes", and the comments of main.cpp      *)
(* ("120 nm < technology node <= 200 nm"): a node between two tabulated    *)
(* nodes is interpolated towards the upper one, techHigh, with alpha the   *)
(* fraction of the way from the node below techHigh, 0 at that node and 1  *)
(* at techHigh, never beyond.                                              *)
(***************************************************************************)
InterpolatesBetweenNeighbours ==
  phase = "interpolated" /\ techHigh # Unset =>
    LET low == Below(techHigh)
    IN /\ low <= processNode /\ processNode <= techHigh
       /\ alpha.num * (techHigh - low) = (processNode - low) * alpha.den

=============================================================================
