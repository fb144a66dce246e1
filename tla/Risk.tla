-------------------------------- MODULE Risk --------------------------------
(***************************************************************************)
(* Control gaps and risk scores (services/mitigation/inventory.py,         *)
(* gap_analysis.py, services/risk): pure functions of the attack paths, of *)
(* the declared controls, the knowledge base and the CRI profile.          *)
(*                                                                         *)
(* Shared tokens are an input: which ids a control's name or a technique's *)
(* text matches.  Ids are numbers, in the order of the code's sorting.  A  *)
(* score is an integer: likelihood, weight and density have a fixed unit.  *)
(***************************************************************************)
EXTENDS Integers, Sequences, FiniteSets, FiniteSetsExt

CONSTANTS
  RequiredDefences,   \* technique -> its d3fend_inferred ids
  Statements,         \* statement -> [techniques, tiers, function, documents]
  LexicalStatements,  \* technique -> the statements its text matches
  Matched,            \* control -> [defences, statements]
  RegulatoryDocuments \* the uploaded workbook's documents

NoTier == 0
Hundred == 100
DensityUnit == 6

ASSUME RiskAssumption ==
  /\ \A s \in DOMAIN Statements : Statements[s].tiers \subseteq 1..4
  /\ \A t \in DOMAIN RequiredDefences : IsFiniteSet(RequiredDefences[t])

-----------------------------------------------------------------------------
(* A step is [technique, source, target], a path [steps, likelihood]; two  *)
(* paths of one id count both.                                             *)

TechniquesOf(path) == {s.technique : s \in path.steps}
TechniquesInPaths(paths) == UNION {TechniquesOf(paths[p]) : p \in DOMAIN paths}
EntitiesOf(paths, t) ==
  UNION {UNION {{s.source, s.target} : s \in {s \in paths[p].steps : s.technique = t}} : p \in DOMAIN paths}

(* build_control_inventory and _observed_ids. *)
Inventory(controls, profile) ==
  [c \in controls |-> [defences |-> Matched[c].defences, statements |-> Matched[c].statements \cap profile]]
ObservedDefences(inventory) == UNION {inventory[c].defences : c \in DOMAIN inventory}
ObservedStatements(inventory) == UNION {inventory[c].statements : c \in DOMAIN inventory}

MappedStatements(profile, t) == {s \in profile : t \in Statements[s].techniques}
InTier(statements, tier) == {s \in statements : tier = NoTier \/ tier \in Statements[s].tiers}

Required(t) == IF t \in DOMAIN RequiredDefences THEN RequiredDefences[t] ELSE {}

GapOf(t, inventory, profile, tier) ==
  LET mapped == MappedStatements(profile, t) IN
  [required |-> Required(t),
   observed |-> Required(t) \cap ObservedDefences(inventory),
   defences |-> Required(t) \ ObservedDefences(inventory),
   absent   |-> mapped = {},
   inTier   |-> InTier(mapped, tier),
   statements |-> InTier(mapped, tier) \ ObservedStatements(inventory),
   fallback |-> IF mapped = {} THEN LexicalStatements[t] \cap profile ELSE {}]

(* compute_technique_gaps *)
TechniqueGaps(techniques, inventory, profile, tier) ==
  [t \in techniques |-> GapOf(t, inventory, profile, tier)]

-----------------------------------------------------------------------------

CriticalityWeight == [low |-> 1, medium |-> 2, high |-> 3, critical |-> 4]
TierMultiplier == <<100, 85, 70, 55>>

ImpactWeight(criticality, tier) ==
  CriticalityWeight[criticality] * (IF tier = NoTier THEN Hundred ELSE TierMultiplier[tier])

StatementDensity(gap) ==
  IF gap.absent \/ gap.inTier = {} THEN 0
  ELSE (DensityUnit * Cardinality(gap.statements)) \div Cardinality(gap.inTier)

RegulatoryExposure(statements) ==
  (UNION {Statements[s].documents : s \in statements}) \cap RegulatoryDocuments

(* score_path *)
ScorePath(path, gaps, criticality, tier) ==
  LET relevant == {gaps[t] : t \in TechniquesOf(path) \cap DOMAIN gaps}
      densities == {StatementDensity(g) : g \in {g \in relevant : ~g.absent}}
      density == IF densities = {} THEN 0 ELSE Max(densities)
  IN [score     |-> path.likelihood * ImpactWeight(criticality, tier) * (DensityUnit + density),
      defences  |-> UNION {g.defences : g \in relevant},
      statements |-> UNION {g.statements : g \in relevant},
      absent    |-> \A g \in relevant : g.absent,
      functions |-> {Statements[s].function : s \in UNION {g.inTier : g \in relevant}},
      exposure  |-> RegulatoryExposure(UNION {g.statements : g \in relevant})]

(* build_csf_rollup: by function, over every technique in scope. *)
CsfRollup(gaps) ==
  LET statements(f, ids) == {s \in ids : Statements[s].function = f}
      inTier == UNION {gaps[t].inTier : t \in DOMAIN gaps}
      owed == UNION {gaps[t].statements : t \in DOMAIN gaps}
  IN [f \in {Statements[s].function : s \in inTier} |->
       [techniques  |-> {t \in DOMAIN gaps : statements(f, gaps[t].inTier) # {}},
        inTier      |-> Cardinality(statements(f, inTier)),
        unsatisfied |-> Cardinality(statements(f, owed))]]

RiskRegister(paths, gaps, criticality, tier) ==
  [findings |-> [p \in DOMAIN paths |-> ScorePath(paths[p], gaps, criticality, tier)],
   rollup   |-> CsfRollup(gaps)]

TotalScore(register) ==
  FoldSet(LAMBDA p, total : register.findings[p].score + total, 0, DOMAIN register.findings)
=============================================================================
