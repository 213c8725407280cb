---------------------------- MODULE Organization ----------------------------
(***************************************************************************)
(* How the ways of a set reach the data array's mux levels.  nvsim()       *)
(* adjusts the associativity and rows per set to the design target and the *)
(* cache access mode (main.cpp:432-459, after applyConstraint).  The sweep *)
(* then picks a number of rows per set.  BankWithoutHtree::Initialize      *)
(* spreads the ways of one row over extra mux levels                       *)
(* (BankWithoutHtree.cpp:111-140) using integer log2 and integer division. *)
(* For a cache, the tag array comes first (main.cpp:359-374): its block is *)
(* the tag bits plus dirty and valid bits, rounded up to the active        *)
(* sub-array count, and Initialize spreads the set's ways over the active  *)
(* mats (BankWithoutHtree.cpp:141-155).                                    *)
(***************************************************************************)
EXTENDS Naturals

CONSTANTS
  MaxAssociativity,  \* largest inputParameter->associativity considered
  RowsPerSet,        \* the numRowPerSet values the sweep can choose
  ActiveCounts,      \* the active mat / sub-array counts per row and column
  Capacity,          \* inputParameter->capacity, in bytes
  WordWidth          \* inputParameter->wordWidth, in bits

ASSUME MaxAssociativity \in Nat \ {0}
ASSUME RowsPerSet \subseteq Nat \ {0} /\ ActiveCounts \subseteq Nat \ {0}
ASSUME (Capacity * 8) \div WordWidth >= MaxAssociativity /\ WordWidth >= 8

\* TOTAL_ADDRESS_BIT (constant.h).
TotalAddressBit == 48

\* The design targets and cache access modes of typedef.h that reach the data
\* array: RAM designs, and caches in each access mode.
Modes == {"ram", "normal", "sequential", "fast"}

\* eDRAM takes the DRAM branch of the redistribution (DRAM itself is
\* rejected by applyConstraint); SRAM stands for every other cell.
Cells == {"eDRAM", "SRAM"}

\* (int)(log2(x) + 0.1) for a positive integer x: the largest k with
\* 2^(k - 0.1) <= x, that is 2^k <= x * 2^0.1 (2^0.1 = 1.0717734625...),
\* with 2^0.1 taken as 1.0718: exact for every x below 30573.
Log2Code(x) ==
  LET bound == (x * 10718) \div 10000
  IN CHOOSE k \in 0..x : 2^k <= bound /\ 2^(k + 1) > bound

\* isPow2 (formula.h).
IsPow2(n) == \E k \in 0..n : 2^k = n

\* The extra mux factors for numWayPerRow ways in one row.
ExtraMuxLate(n, c) ==
  IF n <= 1 THEN [senseAmp |-> 1, lev1 |-> 1, lev2 |-> 1]
  ELSE IF c = "eDRAM"
  THEN LET l2 == 2^(Log2Code(n) \div 2 + 1)
       IN [senseAmp |-> 1, lev1 |-> n \div l2, lev2 |-> l2]
  ELSE LET l2 == 2^(Log2Code(n) \div 3 + 1)
       IN [senseAmp |-> (n \div l2) \div l2, lev1 |-> l2, lev2 |-> l2]

ExtraMux(n, c) ==
  IF n <= 1 THEN [senseAmp |-> 1, lev1 |-> 1, lev2 |-> 1]
  ELSE IF c = "eDRAM"
  THEN LET l2 == 2^(Log2Code(n) \div 2)
       IN [senseAmp |-> 1, lev1 |-> n \div l2, lev2 |-> l2]
  ELSE LET l2 == 2^(Log2Code(n) \div 3)
       IN [senseAmp |-> (n \div l2) \div l2, lev1 |-> l2, lev2 |-> l2]

\* The tag of a set's block: the address bits above the set index and the
\* word offset, plus a dirty and a valid bit.
TagBits(assoc) ==
  TotalAddressBit - Log2Code(((Capacity * 8) \div WordWidth) \div assoc)
    - Log2Code(WordWidth \div 8) + 2

\* The tag block rounded up to a multiple of the a active sub-arrays.
TagBlockRoundDown(bs, a) == (bs \div a) * a

TagBlock(bs, a) == IF bs % a # 0 THEN (bs \div a + 1) * a ELSE bs

\* The ways of the set each active mat holds.
TagWays(assoc, activeMats) == assoc \div activeMats

\* The number of ways the extra mux levels select among.
MuxWays(e) == e.senseAmp * e.lev1 * e.lev2

VARIABLES
  mode,           \* design target and inputParameter->cacheAccessMode
  cell,           \* cell->memCellType
  inputAssoc,     \* inputParameter->associativity as read from the file
  associativity,  \* nvsim()'s associativity passed to Initialize
  rowChoices,     \* the numRowPerSet values the sweep will try
  numRowPerSet,   \* the bank's numRowPerSet
  stage,          \* "input", "adjusted", "initialized"
  invalid,        \* Bank::invalid from the data path of Initialize
  extra,          \* the extra mux factors Initialize multiplies in
  tag             \* the tag bank of the cache's tag search

vars == <<mode, cell, inputAssoc, associativity, rowChoices, numRowPerSet,
          stage, invalid, extra, tag>>

\* Before the tag search, or for a RAM design.
NoTag == [state |-> "none", block |-> 0, numWay |-> 0, activeMats |-> 1,
          activeSubarrays |-> 1]

NoMux == [senseAmp |-> 1, lev1 |-> 1, lev2 |-> 1]

Init ==
  /\ mode \in Modes
  /\ cell \in Cells
  /\ inputAssoc \in 1..MaxAssociativity
  /\ associativity = inputAssoc
  /\ rowChoices = RowsPerSet
  /\ numRowPerSet = 1
  /\ stage = "input"
  /\ invalid = FALSE
  /\ extra = NoMux
  /\ tag = NoTag

(***************************************************************************)
(* One candidate of the tag BIGFOR of a cache and the tag path of          *)
(* Initialize: a block smaller than the active sub-array count is skipped  *)
(* ("too aggressive partitioning"), else rounded up; a tag array may not   *)
(* split a set over rows, and every active mat must hold a way.            *)
(***************************************************************************)
InitializeTagArray ==
  /\ stage = "input"
  /\ mode # "ram"
  /\ \E amr, amc, asr, asc \in ActiveCounts, r \in rowChoices :
       LET a  == amr * amc * asr * asc
           bs == TagBits(inputAssoc)
           T(st) == [state |-> st, block |-> TagBlock(bs, a),
                     numWay |-> TagWays(inputAssoc, amr * amc),
                     activeMats |-> amr * amc, activeSubarrays |-> asr * asc]
       IN tag' = CASE bs \div a = 0 -> [NoTag EXCEPT !.state = "skipped"]
                   [] r > 1 \/ TagWays(inputAssoc, amr * amc) < 1 -> T("invalid")
                   [] OTHER -> T("valid")
  /\ stage' = "tagged"
  /\ UNCHANGED <<mode, cell, inputAssoc, associativity, rowChoices,
                 numRowPerSet, invalid, extra>>

(***************************************************************************)
(* applyConstraint drops the associativity of a non-cache design to 1, and *)
(* nvsim() adjusts the data array to the access mode: sequential access    *)
(* reads a known way (associativity 1), fast access folds the set into the *)
(* block (associativity 1), normal access keeps one row per set.           *)
(***************************************************************************)
AdjustDataParameters ==
  /\ stage = IF mode = "ram" THEN "input" ELSE "tagged"
  /\ associativity' = IF mode = "normal" THEN inputAssoc ELSE 1
  /\ rowChoices' = IF mode = "normal" THEN {1} ELSE rowChoices
  /\ stage' = "adjusted"
  /\ UNCHANGED <<mode, cell, inputAssoc, numRowPerSet, invalid, extra, tag>>

(***************************************************************************)
(* The data-array path of Initialize for the rows per set the sweep        *)
(* chooses: too few ways for the rows is invalid; otherwise the ways of a  *)
(* row beyond one are spread over extra mux levels.                        *)
(***************************************************************************)
InitializeDataArray ==
  /\ stage = "adjusted"
  /\ \E r \in rowChoices :
       /\ numRowPerSet' = r
       /\ IF r > associativity
          THEN /\ invalid' = TRUE
               /\ UNCHANGED extra
          ELSE /\ extra' = ExtraMux(associativity \div r, cell)
               /\ UNCHANGED invalid
  /\ stage' = "initialized"
  /\ UNCHANGED <<mode, cell, inputAssoc, associativity, rowChoices, tag>>

Next == InitializeTagArray \/ AdjustDataParameters \/ InitializeDataArray

Spec == Init /\ [][Next]_vars

-----------------------------------------------------------------------------
(***************************************************************************)
(* With the power-of-two associativity applyConstraint asks for, the rows  *)
(* of a set and the extra mux levels of a valid bank together select      *)
(* exactly the ways of the set: no way is lost to integer division and     *)
(* every mux factor is at least 1.                                         *)
(***************************************************************************)
PowerOfTwoWaysContained ==
  stage = "initialized" /\ ~invalid /\ IsPow2(inputAssoc) =>
    /\ MuxWays(extra) * numRowPerSet = associativity
    /\ extra.senseAmp >= 1 /\ extra.lev1 >= 1 /\ extra.lev2 >= 1

(***************************************************************************)
(* A valid tag bank of a power-of-two associativity holds the whole tag of *)
(* every way of the set: the active mats together hold exactly the set's   *)
(* ways, and the rounded block, an equal share per active sub-array, has   *)
(* room for every tag, dirty and valid bit.                                *)
(***************************************************************************)
PowerOfTwoTagWaysContained ==
  tag.state = "valid" /\ IsPow2(inputAssoc) =>
    /\ tag.numWay * tag.activeMats = inputAssoc
    /\ tag.block % (tag.activeMats * tag.activeSubarrays) = 0
    /\ tag.block >= TagBits(inputAssoc)

(***************************************************************************)
(* The comment at BankWithoutHtree.cpp:122 ("mux level recalculation to    *)
(* contain the multiple ways") for every associativity the input may give: *)
(* applyConstraint only warns about one that is not a power of two.        *)
(***************************************************************************)
WaysContained ==
  stage = "initialized" /\ ~invalid =>
    MuxWays(extra) * numRowPerSet = associativity

=============================================================================
