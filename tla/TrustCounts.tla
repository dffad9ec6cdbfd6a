------------------------------- MODULE TrustCounts ------------------------------
(***************************************************************************)
(* The two audits that count constructs in the text of a file: the axiom   *)
(* audit with its two policies and the decidability audit of Lean          *)
(* (src/gate/verify/axiom_honesty.py, decide_instance.py).  A file is the  *)
(* sequence of what the patterns can meet in it.                           *)
(***************************************************************************)
EXTENDS Naturals, Sequences, FiniteSets, SequencesExt, FiniteSetsExt

CONSTANTS MaxBaseItems, MaxItemEdits

ASSUME ItemsAssumption == MaxBaseItems \in Nat

\* An axiom by the set that its name is of, other constructs that are watched,
\* instances whose header names a decidability class or not and ends at `:=` or
\* in no such way, and declarations before or after them.
Axioms == {"axiom allowed", "axiom other"}
Instances == {"instance", "Decidable instance", "instance where",
              "Decidable instance where"}
Items == Axioms \cup {"native_decide"} \cup Instances \cup {"theorem on Decidable", "theorem"}

VARIABLES
    auditProver, auditPolicy,
    baseItems, headItems,
    itemEdits

itemVars == <<auditProver, auditPolicy, baseItems, headItems, itemEdits>>

CountOf(file, items) == Cardinality({i \in DOMAIN file : file[i] \in items})

-----------------------------------------------------------------------------
(* axiom_honesty.py.                                                       *)

\* Mutant: every profile with an axiom pattern is asked for names.
SupportsWhitelistAny(prover) == prover # "isabelle"

\* _supports_whitelist.
SupportsWhitelist(prover) == prover = "lean4"

\* extract_axiom_names reads Lean's keyword.
ExtractAxiomNames(file, prover) ==
    IF prover = "lean4" THEN {file[i] : i \in DOMAIN file} \cap Axioms ELSE {}

\* compare: names where they can be read, counts for everything else.
CompareAxioms(b, h, policy, prover) ==
    LET named == policy = "whitelist" /\ SupportsWhitelist(prover)
        rises(items) == CountOf(h, items) > CountOf(b, items)
    IN  \/ named /\ ExtractAxiomNames(h, prover) \ {"axiom allowed"} # {}
        \/ ~named /\ rises(Axioms)
        \/ rises({"native_decide"})

-----------------------------------------------------------------------------
(* decide_instance.py.                                                     *)

\* The text of an item, as the scanner meets it; a header may break its lines.
Text(item) ==
    CASE item = "instance"                 -> <<"instance", ":=">>
      [] item = "Decidable instance"       -> <<"instance", "line break", "Decidable", ":=">>
      [] item = "instance where"           -> <<"instance", "where">>
      [] item = "Decidable instance where" -> <<"instance", "line break", "Decidable", "where">>
      [] item = "theorem on Decidable"     -> <<"Decidable", ":=">>
      [] OTHER                             -> <<":=">>
TextOf(file) == FlattenSeq([i \in DOMAIN file |-> Text(file[i])])

\* _instance_header_spans and _scan_header_end: to the first `:=`, to the next
\* instance, or to the end.
HeaderEnd(text, i) ==
    LET stops == {j \in (i + 1)..Len(text) : text[j] \in {":=", "instance"}}
    IN  IF stops = {} THEN Len(text) ELSE Min(stops) - 1

\* _count_decidable_instances.
CountDecidable(file) ==
    LET text == TextOf(file)
    IN  Cardinality({i \in DOMAIN text : text[i] = "instance"
                        /\ \E j \in i..HeaderEnd(text, i) : text[j] = "Decidable"})

-----------------------------------------------------------------------------
(* The worker.                                                             *)

ItemsInit ==
    /\ auditProver \in {"lean4", "isabelle", "rocq"}
    /\ auditPolicy \in {"net_zero", "whitelist"}
    /\ baseItems \in BoundedSeq(Items, MaxBaseItems)
    /\ headItems = baseItems
    /\ itemEdits = 0

EditItems(h) ==
    /\ itemEdits < MaxItemEdits
    /\ headItems' = h
    /\ itemEdits' = itemEdits + 1
    /\ UNCHANGED <<auditProver, auditPolicy, baseItems>>

InsertItem == \E i \in 1..(Len(headItems) + 1), x \in Items : EditItems(InsertAt(headItems, i, x))
RemoveItem == \E i \in DOMAIN headItems : EditItems(RemoveAt(headItems, i))

ItemsNext == InsertItem \/ RemoveItem

ItemsSpec == ItemsInit /\ [][ItemsNext]_itemVars

-----------------------------------------------------------------------------
(* Properties.                                                             *)

\* Whatever the policy and the prover, a file that passes the axiom audit has
\* no more axioms that nobody allowed, and no more of the other constructs,
\* than its base version: a whitelist that cannot be applied weakens nothing.
NoUnallowedAxiomIsAdded ==
    ~CompareAxioms(baseItems, headItems, auditPolicy, auditProver) =>
        /\ CountOf(headItems, {"native_decide"}) <= CountOf(baseItems, {"native_decide"})
        /\ CountOf(headItems, Axioms) > CountOf(baseItems, Axioms) =>
            auditPolicy = "whitelist" /\ auditProver = "lean4"
            /\ "axiom other" \notin ToSet(headItems)

\* Where every header ends at its `:=`, the audit counts the decidability
\* instances and nothing else, wherever their lines break.
DecidableInstancesAreCounted ==
    ToSet(headItems) \cap {"instance where", "Decidable instance where"} = {} =>
        CountDecidable(headItems) = CountOf(headItems, {"Decidable instance"})

\* What the project trusts grows by the whitelist and in sight of a reviewer.
TrustGrowsInSight == NoUnallowedAxiomIsAdded /\ DecidableInstancesAreCounted
=============================================================================
