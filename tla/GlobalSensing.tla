---------------------------- MODULE GlobalSensing ----------------------------
(***************************************************************************)
(* The external sensing path of one BankWithoutHtree: the global sense     *)
(* amplifier (src/SenseAmp.cpp), the global bitline mux (src/Mux.cpp) and, *)
(* for a tag array, the global comparator (src/Comparator.cpp), driven by  *)
(* the bank's Initialize, CalculateArea, CalculateRC and                   *)
(* CalculateLatencyAndPower, which the search calls in that order on a     *)
(* fresh bank.                                                             *)
(*                                                                         *)
(* Each leaf unit is a record: its initialized and invalid flags, whether  *)
(* the members its CalculateRC assigns (capLoad of the amplifier,          *)
(* capOutput of the mux, the capacitances of the comparator) hold a value, *)
(* and its FunctionUnit fields, abstracted as in Bank to Zero, Computed    *)
(* and Sentinel (and, for the bank's write energy in fast mode,           *)
(* SentinelFraction, the sentinel divided by the associativity).  A formula over a member never assigned reads an          *)
(* uninitialized double: its result is any value the build produces, the  *)
(* argument `junk` of the operators below.  The rest of the bank (mat,     *)
(* wires, TSVs) adds Computed terms.                                       *)
(***************************************************************************)

Zero     == "zero"
Computed == "computed"
Sentinel == "sentinel"
SentinelFraction == "sentinelFraction"
\* The values a unit's fields, or a read of an unassigned double, can hold.
Values   == {Zero, Computed, Sentinel}

\* The FunctionUnit fields the bank reads from a leaf unit.
Fields == {"area", "readLatency", "writeLatency", "readDynamicEnergy",
           "writeDynamicEnergy", "leakage"}

\* Addition in double precision: invalid_value absorbs any computed term.
Plus(a, b) ==
  CASE Sentinel \in {a, b}         -> Sentinel
    [] SentinelFraction \in {a, b} -> SentinelFraction
    [] a = Zero /\ b = Zero        -> Zero
    [] OTHER                       -> Computed

\* writeDynamicEnergy /= inputParameter->associativity.
DivAssociativity(a, assocOne) ==
  IF a = Sentinel /\ ~assocOne THEN SentinelFraction ELSE a

-----------------------------------------------------------------------------
(* SenseAmp *)

\* SenseAmp::SenseAmp() and FunctionUnit::FunctionUnit().
NewSenseAmp ==
  [init |-> FALSE, invalid |-> FALSE, rc |-> FALSE, m |-> [f \in Fields |-> Zero]]

\* Initialize: a pitch of at most three feature sizes cannot be laid out.
SA_Initialize(sa, pitchTooSmall) ==
  [sa EXCEPT !.init = TRUE, !.invalid = sa.invalid \/ pitchTooSmall]

SA_CalculateArea(sa) ==
  IF ~sa.init THEN sa
  ELSE [sa EXCEPT !.m.area = IF sa.invalid THEN Sentinel ELSE Computed]

\* CalculateRC: the sentinel latencies when invalid, otherwise capLoad only.
SA_CalculateRC(sa) ==
  CASE ~sa.init   -> sa
    [] sa.invalid -> [sa EXCEPT !.m.readLatency = Sentinel, !.m.writeLatency = Sentinel]
    [] OTHER      -> [sa EXCEPT !.rc = TRUE]

\* The value of a formula over capLoad.
SA_FromCapLoad(sa, junk) == IF sa.rc THEN Computed ELSE junk

\* CalculateLatency has no invalid branch: it resets both latencies and
\* adds the sensing delay tau = capLoad / gm to the read latency.
SA_CalculateLatency(sa, junk) ==
  IF ~sa.init THEN sa
  ELSE [sa EXCEPT !.m.readLatency = SA_FromCapLoad(sa, junk), !.m.writeLatency = Zero]

SA_CalculatePower(sa, junk) ==
  CASE ~sa.init   -> sa
    [] sa.invalid -> [sa EXCEPT !.m.readDynamicEnergy = Sentinel,
                                !.m.writeDynamicEnergy = Sentinel, !.m.leakage = Sentinel]
    [] OTHER      -> [sa EXCEPT !.m.readDynamicEnergy = SA_FromCapLoad(sa, junk),
                                !.m.writeDynamicEnergy = Zero, !.m.leakage = Computed]

\* Whether a call of CalculateLatency or CalculatePower reads capLoad
\* before it was assigned.
SA_ReadsUnset(sa, power) == sa.init /\ ~sa.rc /\ ~(power /\ sa.invalid)

-----------------------------------------------------------------------------
(* Mux; `active` is numInput > 1 && numMux > 0 *)

\* Mux::Mux(): the capacitances it hands to the bank start at zero.
NewMux ==
  [init |-> FALSE, active |-> FALSE, rc |-> FALSE, m |-> [f \in Fields |-> Zero]]

Mux_Initialize(mx, active) == [mx EXCEPT !.init = TRUE, !.active = active]

Mux_CalculateArea(mx) ==
  IF ~mx.init THEN mx
  ELSE [mx EXCEPT !.m.area = IF mx.active THEN Computed ELSE Zero]

Mux_CalculateRC(mx) ==
  IF mx.init /\ mx.active THEN [mx EXCEPT !.rc = TRUE] ELSE mx

\* The value of a formula over capOutput.
Mux_FromCapOutput(mx, junk) == IF mx.rc THEN Computed ELSE junk

Mux_CalculateLatency(mx, junk) ==
  CASE ~mx.init  -> mx
    [] mx.active -> [mx EXCEPT !.m.readLatency = Mux_FromCapOutput(mx, junk),
                               !.m.writeLatency = Mux_FromCapOutput(mx, junk)]
    [] OTHER     -> [mx EXCEPT !.m.readLatency = Zero, !.m.writeLatency = Zero]

Mux_CalculatePower(mx, junk) ==
  CASE ~mx.init  -> mx
    [] mx.active -> [mx EXCEPT !.m.readDynamicEnergy = Mux_FromCapOutput(mx, junk),
                               !.m.writeDynamicEnergy = Mux_FromCapOutput(mx, junk),
                               !.m.leakage = Zero]
    [] OTHER     -> [mx EXCEPT !.m.readDynamicEnergy = Zero,
                               !.m.writeDynamicEnergy = Zero, !.m.leakage = Zero]

Mux_ReadsUnset(mx) == mx.init /\ mx.active /\ ~mx.rc

-----------------------------------------------------------------------------
(* Comparator *)

NewComparator ==
  [init |-> FALSE, rc |-> FALSE, m |-> [f \in Fields |-> Zero]]

Cmp_Initialize(c) == [c EXCEPT !.init = TRUE]

Cmp_CalculateArea(c) == IF ~c.init THEN c ELSE [c EXCEPT !.m.area = Computed]

Cmp_CalculateRC(c) == IF ~c.init THEN c ELSE [c EXCEPT !.rc = TRUE]

\* The value of a formula over the capacitances CalculateRC extracts.
Cmp_FromCaps(c, junk) == IF c.rc THEN Computed ELSE junk

Cmp_CalculateLatency(c, junk) ==
  IF ~c.init THEN c
  ELSE [c EXCEPT !.m.readLatency = Cmp_FromCaps(c, junk),
                 !.m.writeLatency = Cmp_FromCaps(c, junk)]

Cmp_CalculatePower(c, junk) ==
  IF ~c.init THEN c
  ELSE [c EXCEPT !.m.readDynamicEnergy = Cmp_FromCaps(c, junk),
                 !.m.writeDynamicEnergy = Cmp_FromCaps(c, junk),
                 !.m.leakage = Computed]

Cmp_ReadsUnset(c) == c.init /\ ~c.rc

-----------------------------------------------------------------------------
(* TSV, as the bank builds it: unbuffered (num_gates = 0) *)

\* TSV::TSV(): not initialized, and flagged invalid.
NewTSV ==
  [init |-> FALSE, invalid |-> TRUE, m |-> [f \in Fields |-> Zero]]

\* Initialize assigns cap, res and min_area and sets initialized; with no
\* buffer num_gates = 0 never exceeds MAX_NUMBER_GATES_STAGE, and nothing
\* clears the constructor's invalid flag.
TSV_Initialize(t) == [t EXCEPT !.init = TRUE]

\* The value of a formula over the members Initialize assigns.
TSV_FromInit(t, junk) == IF t.init THEN Computed ELSE junk

\* CalculateArea: the area from min_area and the buffer leakage; it checks
\* neither flag.
TSV_CalculateArea(t, junk) ==
  [t EXCEPT !.m.area = TSV_FromInit(t, junk), !.m.leakage = Zero]

\* CalculateLatencyAndPower: both directions through the unbuffered branch
\* of _CalculateLatencyAndPower, which assigns the latency and adds the
\* energy to the field it is given.
TSV_CalculateLatencyAndPower(t, junk) ==
  [t EXCEPT !.m.readLatency = TSV_FromInit(t, junk),
            !.m.writeLatency = TSV_FromInit(t, junk),
            !.m.readDynamicEnergy = Plus(t.m.readDynamicEnergy, TSV_FromInit(t, junk)),
            !.m.writeDynamicEnergy = Plus(t.m.writeDynamicEnergy, TSV_FromInit(t, junk))]

-----------------------------------------------------------------------------
(* The bank *)

\* The bank fields CalculateLatencyAndPower sets (area aside): the leaf
\* unit's timing fields and the two refresh fields of the bank.
Refresh == {"refreshLatency", "refreshDynamicEnergy"}
BankFields == Fields \cup Refresh
Timing == BankFields \ {"area"}

VARIABLES
  env,          \* the candidate's parameters and the global cell
  stage,        \* the lifecycle call the search makes next
  initialized,  \* BankWithoutHtree::initialized
  invalid,      \* BankWithoutHtree::invalid
  senseAmp,     \* globalSenseAmp
  bitlineMux,   \* globalBitlineMux
  comparator,   \* globalComparator
  tsvArray,     \* tsvArray
  bm,           \* the bank's own fields
  misuse,       \* history: a leaf method ran before the unit's Initialize
  unsetRead     \* history: a leaf formula read a member never assigned

vars == <<env, stage, initialized, invalid, senseAmp, bitlineMux, comparator,
          tsvArray, bm, misuse, unsetRead>>

\* memoryType; _internalSenseAmp; a DRAM or eDRAM cell, which the bank
\* rejects for external sensing; a cache in fast access mode;
\* associativity = 1; stackedDieCount > 1.
Env == [memoryType : {"data", "tag"}, internal : BOOLEAN, dramLike : BOOLEAN,
        fastWrite : BOOLEAN, assocOne : BOOLEAN, stacked : BOOLEAN]

\* BankWithoutHtree::BankWithoutHtree() with its member units.
Init ==
  /\ env \in Env
  /\ stage = "constructed"
  /\ initialized = FALSE
  /\ invalid = FALSE
  /\ senseAmp = NewSenseAmp
  /\ bitlineMux = NewMux
  /\ comparator = NewComparator
  /\ tsvArray = NewTSV
  /\ bm = [f \in BankFields |-> Zero]
  /\ misuse = FALSE
  /\ unsetRead = FALSE

IsTag == env.memoryType = "tag"

DrivesComparatorAlways == TRUE

\* Whether the bank drives the global comparator after Initialize.
DrivesComparator == IsTag

\* tsvArray.Initialize of a stacked bank.
StackTSV(t) == IF env.stacked THEN TSV_Initialize(t) ELSE t

\* The check of globalSenseAmp.invalid right after its Initialize.
AmpRejects(sa) == sa.invalid

(***************************************************************************)
(* Initialize.  External sensing on a DRAM-like cell returns invalid but   *)
(* not initialized; `orgBad` stands for the later returns of an invalid    *)
(* organization or mat.  With external sensing the global amplifier is     *)
(* initialized and, if it is invalid, the bank returns invalid; otherwise  *)
(* the amplifier's RC is taken, the mux is sized with its capLoad and the  *)
(* comparator of a tag array is initialized.  A stacked bank that gets     *)
(* this far initializes its TSV array.                                     *)
(***************************************************************************)
BankInitialize ==
  /\ stage = "constructed"
  /\ \E orgBad, pitchTooSmall, muxActive \in BOOLEAN :
       LET sa1 == SA_Initialize(senseAmp, pitchTooSmall)
           sa2 == SA_CalculateRC(sa1)
       IN CASE ~env.internal /\ env.dramLike ->
                 /\ invalid' = TRUE
                 /\ UNCHANGED <<initialized, senseAmp, bitlineMux, comparator,
                                tsvArray, unsetRead>>
            [] orgBad ->
                 /\ initialized' = TRUE
                 /\ invalid' = TRUE
                 /\ UNCHANGED <<senseAmp, bitlineMux, comparator, tsvArray, unsetRead>>
            [] env.internal ->
                 /\ initialized' = TRUE
                 /\ tsvArray' = StackTSV(tsvArray)
                 /\ UNCHANGED <<invalid, senseAmp, bitlineMux, comparator, unsetRead>>
            [] AmpRejects(sa1) ->
                 /\ initialized' = TRUE
                 /\ invalid' = TRUE
                 /\ senseAmp' = sa1
                 /\ UNCHANGED <<bitlineMux, comparator, tsvArray, unsetRead>>
            [] OTHER ->
                 /\ initialized' = TRUE
                 /\ senseAmp' = sa2
                 /\ bitlineMux' = Mux_CalculateRC(Mux_Initialize(bitlineMux, muxActive))
                 /\ unsetRead' = (unsetRead \/ ~sa2.rc)
                 /\ comparator' = IF IsTag THEN Cmp_Initialize(comparator) ELSE comparator
                 /\ tsvArray' = StackTSV(tsvArray)
                 /\ UNCHANGED invalid
  /\ stage' = "initialized"
  /\ UNCHANGED <<env, bm, misuse>>

\* Whether a driven global unit is not initialized: its methods then only
\* log "Require initialization first!".
UninitializedCall ==
  \/ ~senseAmp.init \/ ~bitlineMux.init
  \/ DrivesComparator /\ ~comparator.init

(***************************************************************************)
(* CalculateArea: nothing before initialization, the sentinel area for an  *)
(* invalid bank; otherwise the global units' areas are added, a data array *)
(* whose aspect ratio is out of bounds becomes invalid and returns, and a  *)
(* stacked bank adds the area of its TSVs.                                 *)
(***************************************************************************)
BankCalculateArea ==
  /\ stage = "initialized"
  /\ \E aspectBad \in BOOLEAN, jTsv \in Values :
       CASE ~initialized ->
              UNCHANGED <<invalid, senseAmp, bitlineMux, comparator, tsvArray, bm,
                          misuse, unsetRead>>
         [] invalid ->
              /\ bm' = [bm EXCEPT !.area = Sentinel]
              /\ UNCHANGED <<invalid, senseAmp, bitlineMux, comparator, tsvArray,
                             misuse, unsetRead>>
         [] OTHER ->
              LET ext == ~env.internal
                  sa  == IF ext THEN SA_CalculateArea(senseAmp) ELSE senseAmp
                  mx  == IF ext THEN Mux_CalculateArea(bitlineMux) ELSE bitlineMux
                  tsv == TSV_CalculateArea(tsvArray, jTsv)
                  bad == env.memoryType = "data" /\ aspectBad
                  stackedOK == env.stacked /\ ~bad
              IN /\ senseAmp' = sa
                 /\ bitlineMux' = mx
                 /\ comparator' = IF ext /\ DrivesComparator
                                  THEN Cmp_CalculateArea(comparator) ELSE comparator
                 /\ misuse' = (misuse \/ (ext /\ UninitializedCall))
                 /\ invalid' = bad
                 /\ tsvArray' = IF stackedOK THEN tsv ELSE tsvArray
                 /\ unsetRead' = (unsetRead \/ (stackedOK /\ ~tsvArray.init))
                 /\ bm' = [bm EXCEPT !.area =
                             IF bad THEN Sentinel
                             ELSE Plus(Plus(Computed, Plus(sa.m.area, mx.m.area)),
                                       IF stackedOK THEN tsv.m.area ELSE Zero)]
  /\ stage' = "area"
  /\ UNCHANGED <<env, initialized>>

RCComparatorSkipped(c) == c

\* globalComparator.CalculateRC of a tag array's bank.
RCComparator(c) == IF DrivesComparator THEN Cmp_CalculateRC(c) ELSE c

\* CalculateRC of a valid bank with external sensing: mux, amplifier and
\* the comparator of a tag array.
BankCalculateRC ==
  /\ stage = "area"
  /\ IF initialized /\ ~invalid /\ ~env.internal
     THEN /\ bitlineMux' = Mux_CalculateRC(bitlineMux)
          /\ senseAmp' = SA_CalculateRC(senseAmp)
          /\ comparator' = RCComparator(comparator)
          /\ misuse' = (misuse \/ UninitializedCall)
     ELSE UNCHANGED <<senseAmp, bitlineMux, comparator, misuse>>
  /\ stage' = "rc"
  /\ UNCHANGED <<env, initialized, invalid, tsvArray, bm, unsetRead>>

\* The sum of a bank term and the same field of the driven units.
WithUnits(f, sa, mx, c) ==
  Plus(Computed, Plus(sa.m[f], Plus(mx.m[f], IF DrivesComparator THEN c.m[f] ELSE Zero)))

\* The TSV terms a stacked bank adds to each timing field (the worst case
\* to the furthest die; the write direction drives the read-address bits).
TsvTerm(f, t) ==
  CASE f = "readLatency"        -> Plus(t.m.readLatency, t.m.writeLatency)
    [] f = "writeLatency"       -> t.m.writeLatency
    [] f = "readDynamicEnergy"  -> Plus(t.m.writeDynamicEnergy, t.m.readDynamicEnergy)
    [] f = "writeDynamicEnergy" -> t.m.writeDynamicEnergy
    [] f = "leakage"            -> t.m.leakage
    [] f = "refreshLatency"     -> t.m.writeLatency
    [] f = "refreshDynamicEnergy" -> t.m.writeDynamicEnergy

(***************************************************************************)
(* CalculateLatencyAndPower: the sentinel for an invalid bank; otherwise   *)
(* the routing terms and, with external sensing, the latency and power of  *)
(* the mux, the amplifier and the comparator of a tag array; the invalid   *)
(* branch leaves the refresh fields alone.  A cache in fast mode divides   *)
(* the write energy by the associativity.  (For an SRAM                    *)
(* cell the loop over the mats also calls the mux's and the amplifier's    *)
(* CalculateLatency first; they compute the same values.)  The mat's       *)
(* values are added whatever the branch, and a valid stacked bank adds the *)
(* TSV crossings.  Last, an eDRAM bank whose refresh latency exceeds the   *)
(* cell's retention time (`late`, a comparison of reals) becomes invalid.  *)
(***************************************************************************)
BankCalculateLatencyAndPower ==
  /\ stage = "rc"
  /\ \E jSA, jMux, jCmp, jTsv \in Values :
       LET ext == initialized /\ ~invalid /\ ~env.internal
           sa  == SA_CalculatePower(SA_CalculateLatency(senseAmp, jSA), jSA)
           mx  == Mux_CalculatePower(Mux_CalculateLatency(bitlineMux, jMux), jMux)
           c   == Cmp_CalculatePower(Cmp_CalculateLatency(comparator, jCmp), jCmp)
           tsv == TSV_CalculateLatencyAndPower(tsvArray, jTsv)
           useTsv == initialized /\ ~invalid /\ env.stacked
           branch(f) ==
             CASE ~initialized \/ (invalid /\ f \in Refresh) -> bm[f]
               [] invalid                                -> Sentinel
               [] ext /\ f \notin Refresh                 -> WithUnits(f, sa, mx, c)
               [] OTHER                                  -> Computed
           divided(f) ==
             IF f = "writeDynamicEnergy" /\ env.fastWrite
             THEN DivAssociativity(branch(f), env.assocOne) ELSE branch(f)
           \* the mat's refresh terms are part of the branch itself
           withMat(f) ==
             IF f \in Refresh THEN divided(f)
             ELSE Plus(divided(f), IF initialized THEN Computed ELSE Zero)
       IN /\ senseAmp' = IF ext THEN sa ELSE senseAmp
          /\ bitlineMux' = IF ext THEN mx ELSE bitlineMux
          /\ comparator' = IF ext /\ DrivesComparator THEN c ELSE comparator
          /\ tsvArray' = IF useTsv THEN tsv ELSE tsvArray
          /\ misuse' = (misuse \/ (ext /\ UninitializedCall))
          /\ unsetRead' = \/ unsetRead
                          \/ ext /\ SA_ReadsUnset(senseAmp, FALSE)
                          \/ ext /\ Mux_ReadsUnset(bitlineMux)
                          \/ ext /\ DrivesComparator /\ Cmp_ReadsUnset(comparator)
                          \/ useTsv /\ ~tsvArray.init
          /\ bm' = [f \in BankFields |->
                      IF f \notin Timing THEN bm[f]
                      ELSE IF useTsv THEN Plus(withMat(f), TsvTerm(f, tsv))
                      ELSE withMat(f)]
  /\ \E late \in BOOLEAN :
       invalid' = (invalid \/ (late /\ env.dramLike /\ initialized /\ ~invalid))
  /\ stage' = "done"
  /\ UNCHANGED <<env, initialized>>

Next == BankInitialize \/ BankCalculateArea \/ BankCalculateRC
        \/ BankCalculateLatencyAndPower

\* The search deletes the bank after reading it; the run stops at "done".
Spec == Init /\ [][Next]_vars

-----------------------------------------------------------------------------
(***************************************************************************)
(* The order in which the bank drives its units is sound: no leaf method   *)
(* runs on a global unit before its Initialize, and no leaf formula reads  *)
(* a member before the call that assigns it (the amplifier's capLoad       *)
(* handed to the mux, the mux's capOutput, the comparator's capacitances,  *)
(* the TSV's cap, res and min_area).                                       *)
(***************************************************************************)
UnitCallsWellFormed == ~misuse /\ ~unsetRead

(***************************************************************************)
(* A bank that ends valid has every timing and energy field computed: no   *)
(* unit contributes a sentinel or a value read from an unassigned member.  *)
(***************************************************************************)
ValidBankComputed ==
  stage = "done" /\ initialized /\ ~invalid =>
    \A f \in Timing : bm[f] = Computed

=============================================================================
