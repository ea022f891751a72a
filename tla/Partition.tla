----------------------------- MODULE Partition -----------------------------
(***************************************************************************)
(* What of a change is put before the model, and in which work units       *)
(* (partition.rs): the value of a file, the policy that selects it, the    *)
(* packing under the limits, and the replay check of a plan.               *)
(*                                                                         *)
(* A file is a record: path (a number, in path order), old_path and kind,  *)
(* roles (the names of the tests its path passes), class, added (what its  *)
(* added lines contain), objects (a sequence of [role, size]) and anchors  *)
(* (a sequence).  A policy is a set of <<form, test>> pairs for what is    *)
(* included and what is excluded; a path matches a pattern if it has the   *)
(* role.                                                                   *)
(***************************************************************************)
EXTENDS Integers, Sequences, FiniteSets, SequencesExt, Optional

CONSTANTS
    MaxBytes,           \* the largest 64 bit number
    MaxPatterns,        \* MAX_POLICY_PATTERNS
    MaxPlanFiles,       \* MAX_PLAN_FILES
    LowSignalDivisor,   \* LOW_SIGNAL_BUDGET_DIVISOR
    MaxLowSignal        \* MAX_LOW_SIGNAL_BYTES

\* ReviewOmissionReason.
Reasons ==
    {"NotIncludedPolicy", "ExactPathPolicy", "PrefixPolicy", "SuffixPolicy", "GeneratedPolicy",
     "Binary", "UnsupportedEncoding", "FileTooLarge", "MissingExactDiff", "EmptyObjectSet",
     "DuplicateObjectRole", "DuplicateAnchor", "InputByteOverflow", "FileBudget",
     "TotalByteBudget", "LowSignalBudget", "WorkUnitBudget", "WorkUnitFileCapacity",
     "WorkUnitByteCapacity", "WorkUnitAnchorCapacity"}

ASSUME PartitionAssumption ==
    /\ {MaxBytes, MaxPatterns, MaxPlanFiles, MaxLowSignal} \subseteq Nat
    /\ LowSignalDivisor \in Nat \ {0}
    /\ None \notin Reasons

\* The members of a finite set in a strict order: one comes after as many as
\* are before it.
InOrder(S, before(_, _)) ==
    [i \in 1..Cardinality(S) |->
        CHOOSE x \in S : Cardinality({y \in S : before(y, x)}) = i - 1]
Ascending(S) == InOrder(S, LAMBDA i, j : i < j)

-----------------------------------------------------------------------------
(* The value of a file.                                                    *)

\* The first role in this order decides the base of the score.
BaseRoles ==
    <<[role |-> "lockfile", score |-> 10], [role |-> "snapshot", score |-> 15],
      [role |-> "documentation", score |-> 30], [role |-> "test", score |-> 90],
      [role |-> "source", score |-> 120], [role |-> "configuration", score |-> 100]>>

Promotions ==
    [manifest |-> 210, build |-> 220, interface |-> 210, migration |-> 240, sensitive |-> 230]

Largest(S) == CHOOSE x \in S : \A y \in S : y <= x

BaseScore(f) ==
    LET named == {i \in DOMAIN BaseRoles : BaseRoles[i].role \in f.roles}
    IN  CASE f.class \in {"Binary", "UnsupportedEncoding"} -> 0
          [] f.class = "Generated" -> 5
          [] named # {} -> BaseRoles[Min(named)].score
          [] OTHER -> 70

\* classify_review_value; a score is a byte.
Score(f) ==
    LET promoted == Largest({BaseScore(f)} \cup {Promotions[r] : r \in f.roles \cap DOMAIN Promotions})
        deleted == IF f.kind = "Deleted" THEN promoted + 10 ELSE promoted
    IN  CASE f.class \notin {"Text", "Generated"} -> BaseScore(f)
          [] "conflict" \in f.added -> 255
          [] "credential" \in f.added -> Largest({deleted, 250})
          [] OTHER -> deleted

Tier(score) ==
    CASE score >= 200 -> 3
      [] score \in 50..199 -> 2
      [] OTHER -> 1
Low == 1

-----------------------------------------------------------------------------
(* Selection.                                                              *)

Roles(objects) == {objects[i].role : i \in DOMAIN objects}

\* None when the sum does not fit.
TotalBytes(objects) ==
    LET sum == SumFunction([i \in DOMAIN objects |-> objects[i].size])
    IN  IF sum > MaxBytes THEN None ELSE sum

\* ReviewSelectionPolicy::validate over [version, included, excluded,
\* generated, max_file]; a pattern is [form, role, fault, twice].
PolicyVerdict(policy) ==
    LET patterns == policy.included \cup policy.excluded
    IN  CASE policy.version = None -> "PolicyVersion"
          [] Cardinality(policy.included) + Cardinality(policy.excluded) > MaxPatterns ->
                "PatternCount"
          [] \E p \in patterns : p.form # "exact" /\ (p.fault \/ p.twice) -> "Pattern"
          [] policy.max_file = 0 -> "FileBytes"
          [] OTHER -> "accepted"

LimitsVerdict(l) ==
    CASE l.files \notin 1..MaxPlanFiles -> "Files"
      [] l.bytes = 0 -> "TotalBytes"
      [] l.units = 0 -> "WorkUnits"
      [] l.unit_files \notin 1..l.files -> "FilesPerWorkUnit"
      [] l.unit_bytes \notin 1..l.bytes -> "BytesPerWorkUnit"
      [] l.unit_anchors = 0 -> "AnchorsPerWorkUnit"
      [] OTHER -> "accepted"

Matching(patterns, form, f) == \E p \in patterns : p.form = form /\ p.role \in f.roles

\* A selection that lets a path through because it is included.
SelectionReasonIncludedFirst(f, policy) ==
    CASE policy.included # {} /\ \E form \in {"exact", "prefix", "suffix"} :
            Matching(policy.included, form, f) -> None
      [] "secret" \in f.roles -> "ExactPathPolicy"
      [] policy.included # {} -> "NotIncludedPolicy"
      [] OTHER -> None

\* selection_reason: the first reason in this order, None when selected.
SelectionReason(f, policy) ==
    CASE "secret" \in f.roles -> "ExactPathPolicy"
      [] /\ policy.included # {}
         /\ \A form \in {"exact", "prefix", "suffix"} : ~Matching(policy.included, form, f) ->
            "NotIncludedPolicy"
      [] Matching(policy.excluded, "exact", f) -> "ExactPathPolicy"
      [] Matching(policy.excluded, "prefix", f) -> "PrefixPolicy"
      [] Matching(policy.excluded, "suffix", f) -> "SuffixPolicy"
      [] Matching(policy.excluded, "basename", f) -> "PrefixPolicy"
      [] f.class = "Generated" /\ ~policy.generated -> "GeneratedPolicy"
      [] f.class \in {"Binary", "UnsupportedEncoding"} -> f.class
      [] f.objects = <<>> -> "EmptyObjectSet"
      [] "ExactDiff" \notin Roles(f.objects) -> "MissingExactDiff"
      [] TotalBytes(f.objects) = None -> "InputByteOverflow"
      [] TotalBytes(f.objects) > policy.max_file -> "FileTooLarge"
      [] OTHER -> None

\* prepare_file: anchors are those of the files before this one.
PreparationReason(f, policy, anchors) ==
    CASE SelectionReason(f, policy) # None -> SelectionReason(f, policy)
      [] Cardinality(Roles(f.objects)) # Len(f.objects) -> "DuplicateObjectRole"
      [] ~IsInjective(f.anchors) \/ ToSet(f.anchors) \cap anchors # {} -> "DuplicateAnchor"
      [] OTHER -> None

UnitFile(f) ==
    [path |-> f.path, score |-> Score(f), tier |-> Tier(Score(f)),
     bytes |-> TotalBytes(f.objects), anchors |-> ToSet(f.anchors)]

Omitted(path, reason) == [path |-> path, reason |-> reason]

\* prepare_inputs and prepare_file; the change of a path is valid
\* (Wire) and paths are compared by their new name.
ByPath(files) == InOrder(files, LAMBDA f, g : f.path < g.path)
PrepareFile(s, f, policy) ==
    LET reason == PreparationReason(f, policy, s.anchors)
    IN  IF reason # None
        THEN [s EXCEPT !.omitted = @ \cup {Omitted(f.path, reason)}]
        ELSE [s EXCEPT !.included = @ \cup {UnitFile(f)}, !.anchors = @ \cup ToSet(f.anchors)]
Prepare(files, policy) ==
    FoldLeft(LAMBDA s, f : PrepareFile(s, f, policy),
             [included |-> {}, omitted |-> {}, anchors |-> {}], ByPath(files))

\* The most valuable file first, the smaller one of two, then the path.
Before(f, g) ==
    \/ f.tier > g.tier
    \/ f.tier = g.tier /\ f.score > g.score
    \/ f.tier = g.tier /\ f.score = g.score /\ f.bytes < g.bytes
    \/ f.tier = g.tier /\ f.score = g.score /\ f.bytes = g.bytes /\ f.path < g.path
ByValue(files) == InOrder(files, LAMBDA f, g : Before(f, g))

-----------------------------------------------------------------------------
(* Packing.  A unit is a set of files, which have different paths.         *)

BytesOf(files) == SumFunction([f \in files |-> f.bytes])
AnchorsOf(files) == SumFunction([f \in files |-> Cardinality(f.anchors)])

LowSignal(files) == BytesOf({f \in files : f.tier = Low})

LowSignalLimit(l) ==
    IF l.bytes \div LowSignalDivisor < MaxLowSignal
    THEN l.bytes \div LowSignalDivisor ELSE MaxLowSignal

\* file_capacity_reason, with the counters of pack_files.
CapacityReason(f, l, s) ==
    CASE s.files >= l.files -> "FileBudget"
      [] f.tier = Low /\ s.low + f.bytes > LowSignalLimit(l) -> "LowSignalBudget"
      [] s.bytes + f.bytes > l.bytes -> "TotalByteBudget"
      [] f.bytes > l.unit_bytes -> "WorkUnitByteCapacity"
      [] Cardinality(f.anchors) > l.unit_anchors -> "WorkUnitAnchorCapacity"
      [] OTHER -> None

RoomForFile(l, unit) == Cardinality(unit) < l.unit_files
RoomForBytes(f, l, unit) == BytesOf(unit) + f.bytes <= l.unit_bytes
RoomForAnchors(f, l, unit) == AnchorsOf(unit) + Cardinality(f.anchors) <= l.unit_anchors
RoomIn(f, l, unit) ==
    RoomForFile(l, unit) /\ RoomForBytes(f, l, unit) /\ RoomForAnchors(f, l, unit)

\* Why no unit takes the file.
FullReason(f, l, units) ==
    CASE \A i \in DOMAIN units : ~RoomForFile(l, units[i]) -> "WorkUnitFileCapacity"
      [] \A i \in DOMAIN units : ~RoomForBytes(f, l, units[i]) -> "WorkUnitByteCapacity"
      [] \A i \in DOMAIN units : ~RoomForAnchors(f, l, units[i]) -> "WorkUnitAnchorCapacity"
      [] OTHER -> "WorkUnitBudget"

\* The file has a place in these units.
Placed(s, f, units) ==
    [s EXCEPT !.units = units, !.files = @ + 1, !.bytes = @ + f.bytes,
              !.low = IF f.tier = Low THEN @ + f.bytes ELSE @]

\* One turn of the loop of pack_files: the first unit with room, or a new one.
PlaceFile(s, f, l) ==
    LET roomy == {i \in DOMAIN s.units : RoomIn(f, l, s.units[i])}
        reason == CapacityReason(f, l, s)
        omit(r) == [s EXCEPT !.omitted = @ \cup {Omitted(f.path, r)}]
    IN  CASE reason # None -> omit(reason)
          [] reason = None /\ roomy # {} ->
                Placed(s, f, [s.units EXCEPT ![Min(roomy)] = @ \cup {f}])
          [] reason = None /\ roomy = {} /\ Len(s.units) < l.units ->
                Placed(s, f, Append(s.units, {f}))
          [] OTHER -> omit(FullReason(f, l, s.units))

Pack(prepared, l) ==
    FoldLeft(LAMBDA s, f : PlaceFile(s, f, l),
             [units |-> <<>>, omitted |-> prepared.omitted, files |-> 0, bytes |-> 0, low |-> 0],
             ByValue(prepared.included))

\* finalize_plan: the units by their identity, which stands for their files.
Finalized(packed) ==
    [units |-> ToSet(packed.units),
     omitted |-> packed.omitted,
     coverage |-> [input |-> packed.files + Cardinality(packed.omitted),
                   included |-> packed.files, bytes |-> packed.bytes,
                   omitted |-> Cardinality(packed.omitted),
                   complete |-> packed.omitted = {}]]

Plan(files, policy, l) == Finalized(Pack(Prepare(files, policy), l))

\* build_partition_plan.
PlanVerdict(files, policy, l) ==
    CASE PolicyVerdict(policy) # "accepted" -> PolicyVerdict(policy)
      [] LimitsVerdict(l) # "accepted" -> LimitsVerdict(l)
      [] Cardinality(files) > MaxPlanFiles -> "TooManyInputs"
      [] Cardinality({f.path : f \in files}) # Cardinality(files) -> "DuplicatePath"
      [] OTHER -> "accepted"

\* validate_replay, without the digests that bind the parts to each other: what
\* the units add up to, one after the other.
ReplayVerdict(plan, l) ==
    LET all == UNION plan.units
        files == SumFunction([u \in plan.units |-> Cardinality(u)])
        bytes == SumFunction([u \in plan.units |-> BytesOf(u)])
        low == SumFunction([u \in plan.units |-> LowSignal(u)])
        anchors == SumFunction([u \in plan.units |-> AnchorsOf(u)])
    IN  CASE \E u \in plan.units :
                \/ Cardinality(u) > l.unit_files
                \/ BytesOf(u) > l.unit_bytes
                \/ AnchorsOf(u) > l.unit_anchors -> "LimitExceeded"
          [] Cardinality(UNION {f.anchors : f \in all}) # anchors -> "DuplicateAnchor"
          [] \/ Cardinality(plan.units) > l.units
             \/ files > l.files
             \/ bytes > l.bytes
             \/ low > LowSignalLimit(l) -> "LimitExceeded"
          [] Cardinality({f.path : f \in all} \cup {o.path : o \in plan.omitted})
                # files + Cardinality(plan.omitted) -> "DuplicatePath"
          [] plan.coverage # [input |-> files + Cardinality(plan.omitted),
                              included |-> files, bytes |-> bytes,
                              omitted |-> Cardinality(plan.omitted),
                              complete |-> plan.omitted = {}] -> "Coverage"
          [] OTHER -> "accepted"
=============================================================================
