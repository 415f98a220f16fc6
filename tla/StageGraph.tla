------------------------------ MODULE StageGraph ------------------------------
(***************************************************************************)
(* The Stage IR and what dag_from_stages does with it while the DAG is     *)
(* parsed: StageGraph.validate, the co-partition groups, the support       *)
(* checks, and the loop that makes the tasks of each stage, with the       *)
(* outputs and the shuffle width that they are given.  A graph may come    *)
(* from the compiler or be written by hand.                                *)
(*                                                                         *)
(* Stages are referred to by their position in graph.stages.  An input is  *)
(* a reference, to a source or to a stage; the table names it is           *)
(* registered under, the SQL and the key names themselves are left out.    *)
(***************************************************************************)
EXTENDS Naturals, Sequences, FiniteSets

Kind == {"pipeline", "hash_shuffle", "broadcast"}

\* The exchanges that Exchange.__post_init__ lets exist; keys is their number.
Exchange ==
    {e \in [kind : Kind, keys : Nat, buckets : Nat \ {0}] :
        /\ e.kind = "hash_shuffle" => e.keys > 0 /\ e.buckets > 1
        /\ e.kind = "pipeline" => e.buckets = 1}

\* A StageInput: exactly one of a source and an upstream stage.
FromSource(id) == [source |-> TRUE, id |-> id]
FromStage(id)  == [source |-> FALSE, id |-> id]

Elems(s) == {s[i] : i \in DOMAIN s}

Distinct(s) == \A i, j \in DOMAIN s : s[i] = s[j] => i = j

Ids(g) == [i \in DOMAIN g.stages |-> g.stages[i].id]

Sources(stage)   == {inp \in Elems(stage.inputs) : inp.source}
Upstreams(stage) == Elems(stage.inputs) \ Sources(stage)

\* The loops of the factory look at the first input only.
SourceFed(stage) == stage.inputs[1].source

-----------------------------------------------------------------------------
(* StageGraph.validate *)

Resolves(g, i) ==
    \A inp \in Elems(g.stages[i].inputs) :
        inp.id \in (IF inp.source THEN Elems(g.sources)
                                  ELSE {Ids(g)[j] : j \in 1..(i - 1)})

Validate(g) ==
    /\ Distinct(g.sources)
    /\ Distinct(Ids(g))
    /\ g.stages # <<>>
    /\ g.sink \in Elems(Ids(g))
    /\ \A i \in DOMAIN g.stages : Resolves(g, i)

-----------------------------------------------------------------------------
(* _copartition_groups *)

\* consumer_of: the later of two consumers of a stage replaces the earlier.
Consumers(g, id) ==
    {i \in DOMAIN g.stages : FromStage(id) \in Elems(g.stages[i].inputs)}

ConsumerOf(g, id) ==
    g.stages[CHOOSE i \in Consumers(g, id) : \A j \in Consumers(g, id) : j <= i].id

Shuffles(g, i) ==
    g.stages[i].id # g.sink /\ g.stages[i].exchange.kind = "hash_shuffle"

Groupable(g, i) ==
    /\ SourceFed(g.stages[i])
    /\ Consumers(g, g.stages[i].id) # {}

\* The groups, by consumer; defined when every shuffling stage is Groupable.
CopartitionGroups(g) ==
    LET scans == {i \in DOMAIN g.stages : Shuffles(g, i)}
    IN  [c \in {ConsumerOf(g, g.stages[i].id) : i \in scans} |->
            {i \in scans : ConsumerOf(g, g.stages[i].id) = c}]

-----------------------------------------------------------------------------
(* _check_supported *)

\* Mutant: a stage may read several sources.
InputsUnmixed(stage) == Sources(stage) # {} => Upstreams(stage) = {}

InputsSupported(stage) ==
    Sources(stage) # {} =>
        /\ Upstreams(stage) = {}
        /\ Len(stage.inputs) = 1

\* Mutant: the exchange of a stage that is not the sink is not looked at.
ExchangeSupportedOfSink(g, i) ==
    g.stages[i].id = g.sink => g.stages[i].exchange.kind = "pipeline"

ExchangeSupported(g, i) ==
    g.stages[i].exchange.kind =
        IF g.stages[i].id = g.sink THEN "pipeline" ELSE "hash_shuffle"

\* Mutant: only the number of keys is compared.
CopartitionedKeysOnly(g, members) ==
    \A i, j \in members :
        g.stages[i].exchange.keys = g.stages[j].exchange.keys

Copartitioned(g, members) ==
    \A i, j \in members :
        /\ g.stages[i].exchange.buckets = g.stages[j].exchange.buckets
        /\ g.stages[i].exchange.keys = g.stages[j].exchange.keys

CheckSupported(g) ==
    /\ \A i \in DOMAIN g.stages :
           InputsSupported(g.stages[i]) /\ ExchangeSupported(g, i)
    /\ \A i \in DOMAIN g.stages : Shuffles(g, i) => Groupable(g, i)
    /\ \A c \in DOMAIN CopartitionGroups(g) :
           Copartitioned(g, CopartitionGroups(g)[c])

\* dag_from_stages goes on to build the DAG.
Accepted(g) == Validate(g) /\ CheckSupported(g)

-----------------------------------------------------------------------------
(* dag_from_stages: the widths that the stages are given, and the tasks *)

\* What a source-fed stage is told to shuffle into: the width planned for its
\* group when the policy is adaptive, named here by the planner, otherwise the
\* policy's fixed count or the exchange's.
Planned(c)    == [by |-> "planner", of |-> c]
Fixed(n)      == [by |-> "count", of |-> n]

WidthGiven(g, i, adaptive, policyBuckets) ==
    LET groups == CopartitionGroups(g)
        mine   == {c \in DOMAIN groups : i \in groups[c]}
    IN  CASE adaptive /\ mine # {} -> Planned(CHOOSE c \in mine : TRUE)
          [] ~Shuffles(g, i)       -> Fixed(1)
          [] policyBuckets # 0     -> Fixed(policyBuckets)
          [] OTHER                 -> Fixed(g.stages[i].exchange.buckets)

\* The tasks of the DAG.  A stage that reads a source is prepared by its
\* plan_partitions task, any other by its gather_shuffle task; the tasks read,
\* compute and write of its instances are one group, Run.
WorkDir    == <<"make_work_dir">>
Width(c)   == <<"plan_shuffle_width", c>>
Prepare(i) == <<"prepare", i>>
Run(i)     == <<"run", i>>
Finalize   == <<"finalize">>

Tasks(g, adaptive) ==
    {WorkDir, Finalize}
    \cup {Prepare(i) : i \in DOMAIN g.stages} \cup {Run(i) : i \in DOMAIN g.stages}
    \cup {Width(c) : c \in IF adaptive THEN DOMAIN CopartitionGroups(g) ELSE {}}

\* The upstream stages of a stage that does not read a source.
Gathered(g, i) ==
    {j \in DOMAIN g.stages :
        ~SourceFed(g.stages[i]) /\ FromStage(g.stages[j].id) \in Elems(g.stages[i].inputs)}

\* The pairs of tasks of which the second is called with the output of the first;
\* Airflow makes the first upstream of the second.
Feeds(g, adaptive) ==
    LET groups == CopartitionGroups(g)
        stages == DOMAIN g.stages
    IN  {<<WorkDir, Finalize>>}
        \cup {<<WorkDir, Prepare(i)>> : i \in stages}
        \cup {<<Prepare(i), Run(i)>> : i \in stages}
        \cup {<<Run(i), Finalize>> : i \in {i \in stages : g.stages[i].id = g.sink}}
        \cup (UNION {{<<Run(j), Prepare(i)>> : j \in Gathered(g, i)} : i \in stages})
        \cup (UNION {{<<Width(c), Prepare(i)>> : i \in groups[c]} :
                         c \in IF adaptive THEN DOMAIN groups ELSE {}})
=============================================================================
