--------------------------- MODULE StageGraphProofs ---------------------------
(***************************************************************************)
(* What the checks at DAG-parse time let through, for every graph; and     *)
(* that what the compiler emits is let through, for every query.           *)
(***************************************************************************)
EXTENDS MCStageGraph, TLAPS

\* A list of stages whose inputs are lists of references, none empty: what the
\* constructors of Stage and StageInput let exist.
IsInputs(inputs) ==
    /\ inputs \in Seq(Elems(inputs)) \ {<<>>}
    /\ \A inp \in Elems(inputs) : inp \in {FromSource(inp.id), FromStage(inp.id)}

IsGraph(g) ==
    /\ g.stages \in Seq(Elems(g.stages))
    /\ \A i \in 1..Len(g.stages) : IsInputs(g.stages[i].inputs)

-----------------------------------------------------------------------------
(* References *)

LEMMA ElemsOfOne ==
    ASSUME NEW x
    PROVE  Elems(<<x>>) = {x} /\ <<x>>[1] = x
  BY DEF Elems

LEMMA ReferenceFields ==
    ASSUME NEW id, NEW other
    PROVE  /\ FromSource(id).source = TRUE /\ FromSource(id).id = id
           /\ FromStage(id).source = FALSE /\ FromStage(id).id = id
           /\ FromStage(id) # FromSource(other)
           /\ FromStage(id) = FromStage(other) => id = other
  BY DEF FromSource, FromStage

\* A list of one or more references, by its first.
LEMMA InputsOf ==
    ASSUME NEW inputs, IsInputs(inputs)
    PROVE  /\ inputs[1] \in Elems(inputs)
           /\ \A inp \in Elems(inputs) :
                 \/ inp.source /\ inp = FromSource(inp.id)
                 \/ ~inp.source /\ inp = FromStage(inp.id)
  <1>1. 1 \in DOMAIN inputs
    BY DEF IsInputs
  <1>2. ASSUME NEW inp \in Elems(inputs)
        PROVE  \/ inp.source /\ inp = FromSource(inp.id)
               \/ ~inp.source /\ inp = FromStage(inp.id)
    <2>1. inp \in {FromSource(inp.id), FromStage(inp.id)}
      BY DEF IsInputs
    <2> QED
      BY <2>1, ReferenceFields
  <1> QED
    BY <1>1, <1>2 DEF Elems

\* An input list that is within what the factory supports names one source, or
\* upstream stages only.
LEMMA SupportedInputs ==
    ASSUME NEW stage, IsInputs(stage.inputs), InputsSupported(stage)
    PROVE  /\ SourceFed(stage) => \E id : stage.inputs = <<FromSource(id)>>
           /\ ~SourceFed(stage) => \A inp \in Elems(stage.inputs) : inp = FromStage(inp.id) /\ ~inp.source
  <1> DEFINE inputs == stage.inputs
  <1>1. inputs[1] \in Elems(inputs)
    BY InputsOf
  <1>2. ASSUME SourceFed(stage)
        PROVE  \E id : inputs = <<FromSource(id)>>
    <2>1. inputs[1] \in Sources(stage)
      BY <1>1, <1>2 DEF Sources, SourceFed
    <2>2. Len(inputs) = 1
      BY <2>1 DEF InputsSupported
    <2>3. inputs[1] = FromSource(inputs[1].id)
      BY <1>1, <1>2, InputsOf, ReferenceFields DEF SourceFed
    <2>4. inputs = <<inputs[1]>>
      BY <2>2 DEF IsInputs
    <2> QED
      BY <2>3, <2>4
  <1>3. ASSUME ~SourceFed(stage), NEW inp \in Elems(inputs)
        PROVE  inp = FromStage(inp.id) /\ ~inp.source
    <2>1. inputs[1] \notin Sources(stage)
      BY <1>1, <1>3 DEF Sources, SourceFed
    <2>2. inputs[1] \in Upstreams(stage)
      BY <1>1, <2>1 DEF Upstreams
    <2>3. Sources(stage) = {}
      BY <2>2 DEF InputsSupported
    <2>4. ~inp.source
      BY <1>3, <2>3 DEF Sources
    <2> QED
      BY <2>4, <1>3, InputsOf
  <1> QED
    BY <1>2, <1>3

-----------------------------------------------------------------------------
(* What an accepted graph looks like *)

\* Position k holds the sink stage; every other stage is a scan of one source
\* that shuffles and is read by the sink stage, which is the last.
Shape(g, k) ==
    LET n == Len(g.stages) IN
    /\ k \in 1..n /\ g.stages[k].id = g.sink
    /\ \A i \in 1..n : i # k => g.stages[i].id # g.sink
    /\ g.stages[k].exchange.kind = "pipeline"
    /\ \A i \in 1..n : i # k =>
          /\ g.stages[i].exchange.kind = "hash_shuffle"
          /\ \E id \in Elems(g.sources) : g.stages[i].inputs = <<FromSource(id)>>
          /\ FromStage(g.stages[i].id) \in Elems(g.stages[k].inputs)
    /\ IF n = 1
       THEN \E id \in Elems(g.sources) : g.stages[k].inputs = <<FromSource(id)>>
       ELSE /\ k = n
            /\ \A inp \in Elems(g.stages[k].inputs) :
                  \E i \in 1..n : i # k /\ inp = FromStage(g.stages[i].id)
    /\ \A i, j \in (1..n) \ {k} :
          /\ g.stages[i].exchange.buckets = g.stages[j].exchange.buckets
          /\ g.stages[i].exchange.keys = g.stages[j].exchange.keys

\* The facts of Distinct(Ids(g)) and of the positions of a graph.
LEMMA Positions ==
    ASSUME NEW g, IsGraph(g)
    PROVE  /\ Len(g.stages) \in Nat /\ DOMAIN g.stages = 1..Len(g.stages)
           /\ DOMAIN Ids(g) = 1..Len(g.stages)
           /\ \A i \in 1..Len(g.stages) : Ids(g)[i] = g.stages[i].id
           /\ Distinct(Ids(g)) <=>
                 \A i, j \in 1..Len(g.stages) : g.stages[i].id = g.stages[j].id => i = j
           /\ g.sink \in Elems(Ids(g)) <=> \E i \in 1..Len(g.stages) : g.stages[i].id = g.sink
  <1>1. Len(g.stages) \in Nat /\ DOMAIN g.stages = 1..Len(g.stages)
    BY DEF IsGraph
  <1>2. DOMAIN Ids(g) = 1..Len(g.stages) /\ \A i \in 1..Len(g.stages) : Ids(g)[i] = g.stages[i].id
    BY <1>1 DEF Ids
  <1> QED
    BY <1>1, <1>2 DEF Distinct, Elems

\* A reference that resolves, by what it refers to.
LEMMA ResolvesTo ==
    ASSUME NEW g, IsGraph(g), NEW i \in 1..Len(g.stages)
    PROVE  Resolves(g, i) <=>
              \A inp \in Elems(g.stages[i].inputs) :
                 IF inp.source THEN inp.id \in Elems(g.sources)
                 ELSE \E j \in 1..(i - 1) : inp.id = g.stages[j].id
  <1>1. \A j \in 1..(i - 1) : Ids(g)[j] = g.stages[j].id
    BY Positions
  <1> QED
    BY <1>1 DEF Resolves

\* The checks of an accepted graph other than those of its groups leave the
\* shape, and the sink stage is the only one that reads a scan.
LEMMA AcceptedScans ==
    ASSUME NEW g, IsGraph(g), Validate(g), NEW k \in 1..Len(g.stages), g.stages[k].id = g.sink,
           \A i \in 1..Len(g.stages) : InputsSupported(g.stages[i]) /\ ExchangeSupported(g, i),
           \A i \in 1..Len(g.stages) : Shuffles(g, i) => Groupable(g, i),
           NEW i \in 1..Len(g.stages), i # k
    PROVE  /\ g.stages[i].id # g.sink /\ Shuffles(g, i)
           /\ g.stages[i].exchange.kind = "hash_shuffle"
           /\ \E id \in Elems(g.sources) : g.stages[i].inputs = <<FromSource(id)>>
           /\ Consumers(g, g.stages[i].id) # {}
  <1> DEFINE S == g.stages
  <1>1. S[i].id # g.sink
    BY Positions DEF Validate
  <1>2. S[i].exchange.kind = "hash_shuffle" /\ Shuffles(g, i)
    BY <1>1 DEF ExchangeSupported, Shuffles
  <1>3. SourceFed(S[i]) /\ Consumers(g, S[i].id) # {}
    BY <1>2 DEF Groupable
  <1>4. IsInputs(S[i].inputs)
    BY DEF IsGraph
  <1>5. PICK id : S[i].inputs = <<FromSource(id)>>
    BY <1>3, <1>4, SupportedInputs
  <1>6. Resolves(g, i)
    BY Positions DEF Validate
  <1>7. FromSource(id) \in Elems(S[i].inputs)
    BY <1>5, ElemsOfOne
  <1>8. IF FromSource(id).source THEN FromSource(id).id \in Elems(g.sources)
        ELSE \E j \in 1..(i - 1) : FromSource(id).id = S[j].id
    BY <1>6, <1>7, ResolvesTo
  <1>9. id \in Elems(g.sources)
    BY <1>8, ReferenceFields
  <1> QED
    BY <1>1, <1>2, <1>3, <1>5, <1>9

LEMMA ScanReadBySink ==
    ASSUME NEW g, IsGraph(g), Validate(g), NEW k \in 1..Len(g.stages), g.stages[k].id = g.sink,
           \A i \in 1..Len(g.stages) : InputsSupported(g.stages[i]) /\ ExchangeSupported(g, i),
           \A i \in 1..Len(g.stages) : Shuffles(g, i) => Groupable(g, i),
           NEW i \in 1..Len(g.stages), i # k
    PROVE  /\ FromStage(g.stages[i].id) \in Elems(g.stages[k].inputs)
           /\ Consumers(g, g.stages[i].id) = {k}
  <1> DEFINE S == g.stages
             C == Consumers(g, S[i].id)
  <1>1. \A c \in C : c \in 1..Len(S) /\ FromStage(S[i].id) \in Elems(S[c].inputs)
    BY Positions DEF Consumers
  <1>2. ASSUME NEW c \in C
        PROVE  c = k
    <2>1. SUFFICES ASSUME c # k
                   PROVE  FALSE
      OBVIOUS
    <2>2. c \in 1..Len(S) /\ FromStage(S[i].id) \in Elems(S[c].inputs)
      BY <1>1
    <2>3. PICK id \in Elems(g.sources) : S[c].inputs = <<FromSource(id)>>
      BY <2>1, <2>2, AcceptedScans
    <2>4. FromStage(S[i].id) = FromSource(id)
      BY <2>2, <2>3, ElemsOfOne
    <2> QED
      BY <2>4, ReferenceFields
  <1>3. C # {}
    BY AcceptedScans
  <1>4. C = {k}
    BY <1>2, <1>3
  <1> QED
    BY <1>1, <1>4

\* The single group that such scans fall into.
LEMMA OneGroup ==
    ASSUME NEW g, IsGraph(g), NEW k \in 1..Len(g.stages), g.stages[k].id = g.sink,
           \A i \in 1..Len(g.stages) : i # k =>
               Shuffles(g, i) /\ Consumers(g, g.stages[i].id) = {k}
    PROVE  /\ \A c \in DOMAIN CopartitionGroups(g) :
                 c = g.sink /\ CopartitionGroups(g)[c] = (1..Len(g.stages)) \ {k}
           /\ \A i \in 1..Len(g.stages) : i # k => g.sink \in DOMAIN CopartitionGroups(g)
  <1> DEFINE S == g.stages
             scans == {i \in DOMAIN S : Shuffles(g, i)}
  <1>1. scans = (1..Len(S)) \ {k}
    BY Positions DEF Shuffles
  <1>2. ASSUME NEW i \in scans
        PROVE  ConsumerOf(g, S[i].id) = g.sink
    <2>1. Consumers(g, S[i].id) = {k}
      BY <1>1
    <2>2. (CHOOSE c \in Consumers(g, S[i].id) : \A j \in Consumers(g, S[i].id) : j <= c) = k
      <3>1. k <= k
        BY Positions
      <3> QED
        BY <2>1, <3>1
    <2> QED
      BY <2>2 DEF ConsumerOf
  <1>3. CopartitionGroups(g) = [c \in {ConsumerOf(g, S[i].id) : i \in scans} |->
                                  {i \in scans : ConsumerOf(g, S[i].id) = c}]
    BY DEF CopartitionGroups
  <1> HIDE DEF scans
  <1>4. DOMAIN CopartitionGroups(g) = {ConsumerOf(g, S[i].id) : i \in scans}
    BY <1>3
  <1>5. \A c \in DOMAIN CopartitionGroups(g) :
           CopartitionGroups(g)[c] = {i \in scans : ConsumerOf(g, S[i].id) = c}
    BY <1>3, <1>4
  <1> QED
    BY <1>1, <1>2, <1>4, <1>5

\* What the sink stage of such a graph reads.
LEMMA SinkInputs ==
    ASSUME NEW g, IsGraph(g), NEW k \in 1..Len(g.stages), Validate(g), g.stages[k].id = g.sink,
           InputsSupported(g.stages[k]),
           \A i \in 1..Len(g.stages) : i # k =>
               FromStage(g.stages[i].id) \in Elems(g.stages[k].inputs)
    PROVE  IF Len(g.stages) = 1
           THEN \E id \in Elems(g.sources) : g.stages[k].inputs = <<FromSource(id)>>
           ELSE /\ k = Len(g.stages)
                /\ \A inp \in Elems(g.stages[k].inputs) :
                      \E i \in 1..Len(g.stages) : i # k /\ inp = FromStage(g.stages[i].id)
  <1> DEFINE S == g.stages
             n == Len(g.stages)
  <1>1. n \in Nat /\ IsInputs(S[k].inputs) /\ Resolves(g, k)
    BY Positions DEF IsGraph, Validate
  <1>2. \A i, j \in 1..n : S[i].id = S[j].id => i = j
    BY Positions DEF Validate
  <1>3. CASE SourceFed(S[k])
    <2>1. PICK id : S[k].inputs = <<FromSource(id)>>
      BY <1>1, <1>3, SupportedInputs
    <2>2. FromSource(id) \in Elems(S[k].inputs)
      BY <2>1, ElemsOfOne
    <2>3. IF FromSource(id).source THEN FromSource(id).id \in Elems(g.sources)
          ELSE \E j \in 1..(k - 1) : FromSource(id).id = S[j].id
      BY <1>1, <2>2, ResolvesTo
    <2>4. id \in Elems(g.sources)
      BY <2>3, ReferenceFields
    <2>5. ASSUME NEW i \in 1..n, i # k
          PROVE  FALSE
      <3>1. FromStage(S[i].id) \in Elems(S[k].inputs)
        BY <2>5
      <3>2. FromStage(S[i].id) = FromSource(id)
        BY <3>1, <2>1, ElemsOfOne
      <3> QED
        BY <3>2, ReferenceFields
    <2>6. n = 1
      <3>1. k = 1 /\ n \in 1..n
        BY <2>5, <1>1
      <3>2. n = k
        BY <3>1, <2>5
      <3> QED
        BY <3>1, <3>2
    <2> QED
      BY <2>1, <2>4, <2>6
  <1>4. CASE ~SourceFed(S[k])
    <2>1. ASSUME NEW inp \in Elems(S[k].inputs)
          PROVE  \E j \in 1..(k - 1) : inp = FromStage(S[j].id)
      <3>1. inp = FromStage(inp.id) /\ ~inp.source
        BY <1>1, <1>4, SupportedInputs
      <3>2. \E j \in 1..(k - 1) : inp.id = S[j].id
        BY <3>1, <1>1, ResolvesTo
      <3> QED
        BY <3>1, <3>2
    <2>2. S[k].inputs[1] \in Elems(S[k].inputs)
      BY <1>1, InputsOf
    <2>3. n # 1
      BY <2>1, <2>2, <1>1
    <2>4. ASSUME NEW i \in 1..n, i # k
          PROVE  i < k
      <3>1. FromStage(S[i].id) \in Elems(S[k].inputs)
        BY <2>4
      <3>2. PICK j \in 1..(k - 1) : FromStage(S[i].id) = FromStage(S[j].id)
        BY <2>1, <3>1
      <3>3. S[i].id = S[j].id
        BY <3>2, ReferenceFields
      <3>4. j \in 1..n
        BY <1>1
      <3> QED
        BY <1>2, <3>3, <3>4
    <2>5. k = n
      BY <2>4, <1>1
    <2>6. \A inp \in Elems(S[k].inputs) : \E i \in 1..n : i # k /\ inp = FromStage(S[i].id)
      BY <2>1, <1>1, SMTT(30)
    <2> QED
      BY <2>3, <2>5, <2>6
  <1> QED
    BY <1>3, <1>4

\* What the checks let through has the shape that the DAG can execute.
LEMMA AcceptedShape ==
    ASSUME NEW g, IsGraph(g), Accepted(g)
    PROVE  \E k \in 1..Len(g.stages) : Shape(g, k)
  <1> DEFINE S == g.stages
             n == Len(g.stages)
  <1>1. /\ Validate(g)
        /\ \A i \in 1..n : InputsSupported(S[i]) /\ ExchangeSupported(g, i)
        /\ \A i \in 1..n : Shuffles(g, i) => Groupable(g, i)
        /\ \A c \in DOMAIN CopartitionGroups(g) : Copartitioned(g, CopartitionGroups(g)[c])
    BY Positions DEF Accepted, CheckSupported
  <1>2. PICK k \in 1..n : S[k].id = g.sink
    BY <1>1, Positions DEF Validate
  <1>3. \A i \in 1..n : i # k =>
           /\ S[i].id # g.sink /\ Shuffles(g, i) /\ S[i].exchange.kind = "hash_shuffle"
           /\ \E id \in Elems(g.sources) : S[i].inputs = <<FromSource(id)>>
    BY <1>1, <1>2, AcceptedScans
  <1>4. \A i \in 1..n : i # k =>
           FromStage(S[i].id) \in Elems(S[k].inputs) /\ Consumers(g, S[i].id) = {k}
    BY <1>1, <1>2, ScanReadBySink
  <1>5. S[k].exchange.kind = "pipeline"
    BY <1>1, <1>2 DEF ExchangeSupported
  <1>6. IF n = 1
        THEN \E id \in Elems(g.sources) : S[k].inputs = <<FromSource(id)>>
        ELSE /\ k = n
             /\ \A inp \in Elems(S[k].inputs) : \E i \in 1..n : i # k /\ inp = FromStage(S[i].id)
    BY <1>1, <1>2, <1>4, SinkInputs
  <1>7. ASSUME NEW i \in (1..n) \ {k}, NEW j \in (1..n) \ {k}
        PROVE  S[i].exchange.buckets = S[j].exchange.buckets
                 /\ S[i].exchange.keys = S[j].exchange.keys
    <2>1. /\ g.sink \in DOMAIN CopartitionGroups(g)
          /\ CopartitionGroups(g)[g.sink] = (1..n) \ {k}
      BY <1>2, <1>3, <1>4, OneGroup
    <2> QED
      BY <2>1, <1>1 DEF Copartitioned
  <1>8. Shape(g, k)
    BY <1>2, <1>3, <1>4, <1>5, <1>6, <1>7 DEF Shape
  <1> QED
    BY <1>8

-----------------------------------------------------------------------------
(* Graphs of that shape pass the checks, and become a DAG *)

\* The parts of Shape, one by one.
LEMMA ShapeParts ==
    ASSUME NEW g, IsGraph(g), NEW k, Shape(g, k)
    PROVE  /\ k \in 1..Len(g.stages) /\ g.stages[k].id = g.sink
           /\ g.stages[k].exchange.kind = "pipeline"
           /\ \A i \in 1..Len(g.stages) : i # k =>
                 /\ Shuffles(g, i) /\ g.stages[i].exchange.kind = "hash_shuffle"
                 /\ g.stages[i].id # g.sink
                 /\ FromStage(g.stages[i].id) \in Elems(g.stages[k].inputs)
           /\ ~Shuffles(g, k)
  BY DEF Shape, Shuffles

\* A stage of a graph of that shape reads one source, or it is the sink stage,
\* ends the list and reads every other stage.
LEMMA ShapeReads ==
    ASSUME NEW g, IsGraph(g), NEW k, Shape(g, k), NEW i \in 1..Len(g.stages)
    PROVE  \/ \E id \in Elems(g.sources) : g.stages[i].inputs = <<FromSource(id)>>
           \/ /\ i = k /\ k = Len(g.stages)
              /\ \A inp \in Elems(g.stages[i].inputs) :
                    \E j \in 1..(i - 1) : inp = FromStage(g.stages[j].id)
  <1> DEFINE S == g.stages
             n == Len(g.stages)
  <1>1. CASE i # k
    BY <1>1 DEF Shape
  <1>2. CASE i = k /\ n = 1
    BY <1>2 DEF Shape
  <1>3. CASE i = k /\ n # 1
    <2>1. k = n /\ \A inp \in Elems(S[k].inputs) : \E j \in 1..n : j # k /\ inp = FromStage(S[j].id)
      BY <1>3 DEF Shape
    <2>2. \A j \in 1..n : j # k => j \in 1..(k - 1)
      BY <2>1, Positions
    <2> QED
      BY <1>3, <2>1, <2>2
  <1> QED
    BY <1>1, <1>2, <1>3

LEMMA ShapeResolves ==
    ASSUME NEW g, IsGraph(g), NEW k, Shape(g, k), NEW i \in 1..Len(g.stages)
    PROVE  Resolves(g, i) /\ InputsSupported(g.stages[i])
  <1> DEFINE S == g.stages
             inputs == S[i].inputs
  <1>0. IsInputs(inputs) /\ inputs[1] \in Elems(inputs)
    BY InputsOf DEF IsGraph
  <1>1. ASSUME NEW id \in Elems(g.sources), inputs = <<FromSource(id)>>
        PROVE  Resolves(g, i) /\ InputsSupported(S[i])
    <2>1. /\ Elems(inputs) = {FromSource(id)} /\ inputs[1] = FromSource(id) /\ Len(inputs) = 1
          /\ FromSource(id).source = TRUE /\ FromSource(id).id = id
      BY <1>1, ElemsOfOne, ReferenceFields
    <2>2. Resolves(g, i)
      BY <2>1, ResolvesTo
    <2>3. Upstreams(S[i]) = {}
      BY <2>1 DEF Upstreams, Sources
    <2>4. InputsSupported(S[i])
      BY <2>1, <2>3 DEF InputsSupported
    <2> QED
      BY <2>2, <2>4
  <1>2. ASSUME \A inp \in Elems(inputs) : \E j \in 1..(i - 1) : inp = FromStage(S[j].id)
        PROVE  Resolves(g, i) /\ InputsSupported(S[i])
    <2>1. ASSUME NEW inp \in Elems(inputs)
          PROVE  inp.source = FALSE /\ \E j \in 1..(i - 1) : inp.id = S[j].id
      <3>1. PICK j \in 1..(i - 1) : inp = FromStage(S[j].id)
        BY <1>2, <2>1
      <3>2. inp.source = FALSE /\ inp.id = S[j].id
        BY <3>1, ReferenceFields
      <3> QED
        BY <3>2
    <2>2. Resolves(g, i)
      BY <2>1, ResolvesTo
    <2>3. Sources(S[i]) = {}
      BY <2>1 DEF Sources
    <2>4. InputsSupported(S[i])
      BY <2>3 DEF InputsSupported
    <2> QED
      BY <2>2, <2>4
  <1> QED
    BY <1>1, <1>2, ShapeReads

LEMMA ShapeConsumers ==
    ASSUME NEW g, IsGraph(g), NEW k, Shape(g, k), NEW i \in 1..Len(g.stages), i # k
    PROVE  SourceFed(g.stages[i]) /\ Consumers(g, g.stages[i].id) = {k}
  <1> DEFINE S == g.stages
  <1>1. ASSUME NEW j \in 1..Len(S), j # k
        PROVE  \E id : Elems(S[j].inputs) = {FromSource(id)} /\ S[j].inputs[1] = FromSource(id)
    <2>1. PICK id \in Elems(g.sources) : S[j].inputs = <<FromSource(id)>>
      BY <1>1 DEF Shape
    <2> QED
      BY <2>1, ElemsOfOne
  <1>2. SourceFed(S[i])
    <2>1. PICK id : S[i].inputs[1] = FromSource(id)
      BY <1>1
    <2> QED
      BY <2>1, ReferenceFields DEF SourceFed
  <1>3. \A c \in Consumers(g, S[i].id) : c \in 1..Len(S) /\ FromStage(S[i].id) \in Elems(S[c].inputs)
    BY Positions DEF Consumers
  <1>4. ASSUME NEW c \in Consumers(g, S[i].id)
        PROVE  c = k
    <2>1. SUFFICES ASSUME c # k PROVE FALSE
      OBVIOUS
    <2>2. PICK id : Elems(S[c].inputs) = {FromSource(id)}
      BY <1>1, <1>3, <2>1
    <2>3. FromStage(S[i].id) = FromSource(id)
      BY <1>3, <2>2
    <2> QED
      BY <2>3, ReferenceFields
  <1>5. k \in Consumers(g, S[i].id)
    BY ShapeParts, Positions DEF Consumers
  <1> QED
    BY <1>2, <1>4, <1>5

\* The single group of a graph of that shape.
LEMMA ShapeGroup ==
    ASSUME NEW g, IsGraph(g), NEW k, Shape(g, k)
    PROVE  /\ \A c \in DOMAIN CopartitionGroups(g) :
                 c = g.sink /\ CopartitionGroups(g)[c] = (1..Len(g.stages)) \ {k}
           /\ \A i \in 1..Len(g.stages) : i # k => g.sink \in DOMAIN CopartitionGroups(g)
  <1>1. k \in 1..Len(g.stages) /\ g.stages[k].id = g.sink
    BY ShapeParts
  <1>2. \A i \in 1..Len(g.stages) : i # k =>
           Shuffles(g, i) /\ Consumers(g, g.stages[i].id) = {k}
    BY ShapeParts, ShapeConsumers
  <1> QED
    BY <1>1, <1>2, OneGroup

LEMMA ShapeAccepted ==
    ASSUME NEW g, IsGraph(g), NEW k, Shape(g, k), Distinct(g.sources), Distinct(Ids(g))
    PROVE  Accepted(g)
  <1> DEFINE S == g.stages
             n == Len(g.stages)
  <1>1. k \in 1..n /\ n \in Nat /\ DOMAIN S = 1..n
    BY ShapeParts, Positions
  <1>2. Validate(g)
    <2>1. S # <<>>
      BY <1>1
    <2>2. g.sink \in Elems(Ids(g))
      BY <1>1, ShapeParts, Positions
    <2> QED
      BY <1>1, <2>1, <2>2, ShapeResolves DEF Validate
  <1>3. ASSUME NEW i \in 1..n
        PROVE  ExchangeSupported(g, i) /\ (Shuffles(g, i) => Groupable(g, i))
    <2>1. CASE i = k
      BY <2>1, ShapeParts DEF ExchangeSupported
    <2>2. CASE i # k
      <3>1. S[i].id # g.sink /\ S[i].exchange.kind = "hash_shuffle"
        BY <2>2, ShapeParts
      <3>2. SourceFed(S[i]) /\ Consumers(g, S[i].id) = {k}
        BY <2>2, ShapeConsumers
      <3> QED
        BY <3>1, <3>2 DEF ExchangeSupported, Groupable
    <2> QED
      BY <2>1, <2>2
  <1>4. ASSUME NEW c \in DOMAIN CopartitionGroups(g)
        PROVE  Copartitioned(g, CopartitionGroups(g)[c])
    <2>1. CopartitionGroups(g)[c] = (1..n) \ {k}
      BY ShapeGroup
    <2>2. \A i, j \in (1..n) \ {k} :
             /\ S[i].exchange.buckets = S[j].exchange.buckets
             /\ S[i].exchange.keys = S[j].exchange.keys
      BY DEF Shape
    <2> QED
      BY <2>1, <2>2 DEF Copartitioned
  <1> QED
    BY <1>1, <1>2, <1>3, <1>4, ShapeResolves DEF Accepted, CheckSupported

\* Every scan of such a graph is told one width.
LEMMA ShapeWidths ==
    ASSUME NEW g, IsGraph(g), NEW k, Shape(g, k), NEW adaptive, NEW buckets,
           NEW i \in DOMAIN g.stages, NEW j \in DOMAIN g.stages, Shuffles(g, i), Shuffles(g, j)
    PROVE  WidthGiven(g, i, adaptive, buckets) = WidthGiven(g, j, adaptive, buckets)
  <1> DEFINE mine(m) == {c \in DOMAIN CopartitionGroups(g) : m \in CopartitionGroups(g)[c]}
  <1>1. i \in (1..Len(g.stages)) \ {k} /\ j \in (1..Len(g.stages)) \ {k}
    BY ShapeParts, Positions
  <1>2. mine(i) = {g.sink} /\ mine(j) = {g.sink}
    BY <1>1, ShapeGroup
  <1>3. g.stages[i].exchange.buckets = g.stages[j].exchange.buckets
    BY <1>1 DEF Shape
  <1> QED
    BY <1>2, <1>3 DEF WidthGiven

\* The sink stage of such a graph is gathered for when there are scans.
LEMMA ShapeSinkGathers ==
    ASSUME NEW g, IsGraph(g), NEW k, Shape(g, k), NEW i \in 1..Len(g.stages), i # k
    PROVE  ~SourceFed(g.stages[k])
  <1> DEFINE S == g.stages
             n == Len(g.stages)
  <1>1. k \in 1..n /\ n # 1
    BY ShapeParts, Positions
  <1>2. \A inp \in Elems(S[k].inputs) : \E j \in 1..n : inp = FromStage(S[j].id)
    BY <1>1 DEF Shape
  <1>3. S[k].inputs[1] \in Elems(S[k].inputs)
    BY <1>1, InputsOf DEF IsGraph
  <1>4. PICK id : S[k].inputs[1] = FromStage(id)
    BY <1>2, <1>3
  <1> QED
    BY <1>4, ReferenceFields DEF SourceFed

\* Each task of such a graph is upstream of finalize: the sink stage feeds it, every
\* scan feeds the sink stage, and every width planner feeds a scan.
LEMMA ShapeUpstream ==
    ASSUME NEW g, IsGraph(g), NEW k, Shape(g, k), NEW adaptive \in BOOLEAN,
           NEW tasks \in SUBSET Tasks(g, adaptive), Finalize \in tasks,
           UpstreamClosed(g, adaptive, tasks)
    PROVE  tasks = Tasks(g, adaptive)
  <1> DEFINE S == g.stages
             n == Len(g.stages)
  <1>1. DOMAIN S = 1..n /\ k \in 1..n /\ S[k].id = g.sink
    BY Positions, ShapeParts
  <1>2. ASSUME NEW t, NEW u, <<t, u>> \in Feeds(g, adaptive), u \in tasks
        PROVE  t \in tasks
    BY <1>2 DEF UpstreamClosed
  <1>3. Run(k) \in tasks
    <2>1. <<Run(k), Finalize>> \in Feeds(g, adaptive)
      BY <1>1 DEF Feeds
    <2> QED
      BY <1>2, <2>1
  <1>4. ASSUME NEW i \in 1..n, Run(i) \in tasks
        PROVE  Prepare(i) \in tasks
    <2>1. <<Prepare(i), Run(i)>> \in Feeds(g, adaptive)
      BY <1>1 DEF Feeds
    <2> QED
      BY <1>2, <1>4, <2>1
  <1>5. ASSUME NEW i \in 1..n, i # k
        PROVE  Run(i) \in tasks
    <2>1. FromStage(S[i].id) \in Elems(S[k].inputs)
      BY <1>5, ShapeParts
    <2>2. ~SourceFed(S[k])
      BY <1>1, <1>5, ShapeSinkGathers
    <2>3. i \in Gathered(g, k)
      BY <1>1, <2>1, <2>2 DEF Gathered
    <2>4. <<Run(i), Prepare(k)>> \in Feeds(g, adaptive)
      BY <1>1, <2>3 DEF Feeds
    <2> QED
      BY <1>1, <1>2, <1>3, <1>4, <2>4
  <1>6. \A i \in 1..n : Run(i) \in tasks /\ Prepare(i) \in tasks
    BY <1>3, <1>4, <1>5
  <1>7. WorkDir \in tasks
    <2>1. <<WorkDir, Finalize>> \in Feeds(g, adaptive)
      BY DEF Feeds
    <2> QED
      BY <1>2, <2>1
  <1>8. ASSUME adaptive = TRUE, NEW c \in DOMAIN CopartitionGroups(g)
        PROVE  Width(c) \in tasks
    <2>1. PICK i \in 1..n : i \in CopartitionGroups(g)[c]
      <3>1. PICK i \in DOMAIN S : Shuffles(g, i) /\ ConsumerOf(g, S[i].id) = c
        BY <1>8 DEF CopartitionGroups
      <3>2. i \in CopartitionGroups(g)[c]
        BY <1>8, <3>1 DEF CopartitionGroups
      <3> QED
        BY <1>1, <3>1, <3>2
    <2>2. <<Width(c), Prepare(i)>> \in Feeds(g, adaptive)
      BY <1>8, <2>1 DEF Feeds
    <2> QED
      BY <1>2, <1>6, <2>1, <2>2
  <1> QED
    BY <1>1, <1>6, <1>7, <1>8 DEF Tasks

-----------------------------------------------------------------------------
(* That shape and the definition of the supported graphs *)

LEMMA SinkAndOthers ==
    ASSUME IsGraph(graph), Distinct(Ids(graph)),
           NEW k \in 1..Len(graph.stages), graph.stages[k].id = graph.sink
    PROVE  /\ SinkStage = graph.stages[k]
           /\ \A i \in 1..Len(graph.stages) : i # k =>
                 graph.stages[i].id # graph.sink /\ graph.stages[i] \in Others
           /\ \A s \in Others : \E i \in 1..Len(graph.stages) : i # k /\ s = graph.stages[i]
           /\ Others = {} <=> Len(graph.stages) = 1
  <1> DEFINE S == graph.stages
             n == Len(S)
  <1>1. /\ n \in Nat /\ DOMAIN S = 1..n
        /\ \A i, j \in 1..n : S[i].id = S[j].id => i = j
    BY Positions
  <1>2. Elems(S) = {S[i] : i \in 1..n}
    BY <1>1 DEF Elems
  <1>3. SinkStage = S[k]
    <2>1. S[k] \in Elems(S) /\ \A s \in Elems(S) : s.id = graph.sink => s = S[k]
      BY <1>1, <1>2
    <2> QED
      BY <2>1 DEF SinkStage
  <1>4. \A i \in 1..n : i # k => S[i].id # graph.sink /\ S[i] \in Others
    BY <1>1, <1>2 DEF Others
  <1>5. \A s \in Others : \E i \in 1..n : i # k /\ s = S[i]
    BY <1>2 DEF Others
  <1>6. Others = {} <=> n = 1
    <2>1. ASSUME n # 1
          PROVE  Others # {}
      <3>1. PICK i \in 1..n : i # k
        <4> HIDE DEF n
        <4>1. 1 \in 1..n /\ 2 \in 1..n
          <5>1. n \in Nat /\ k \in 1..n /\ n # 1
            BY <2>1, <1>1 DEF n
          <5> QED
            BY <5>1
        <4>2. 1 # k \/ 2 # k
          OBVIOUS
        <4> QED
          BY <4>1, <4>2
      <3> QED
        BY <3>1, <1>4
    <2>2. ASSUME n = 1
          PROVE  Others = {}
      BY <2>2, <1>5
    <2> QED
      BY <2>1, <2>2
  <1> QED
    BY <1>3, <1>4, <1>5, <1>6

LEMMA ShapeSupported ==
    ASSUME IsGraph(graph), NEW k, Shape(graph, k), Distinct(graph.sources), Distinct(Ids(graph))
    PROVE  Supported
  <1> DEFINE S == graph.stages
             n == Len(S)
  <1>1. k \in 1..n /\ S[k].id = graph.sink /\ S[k].exchange.kind = "pipeline"
    BY ShapeParts
  <1>2. /\ SinkStage = S[k]
        /\ \A i \in 1..n : i # k => S[i].id # graph.sink /\ S[i] \in Others
        /\ \A s \in Others : \E i \in 1..n : i # k /\ s = S[i]
        /\ Others = {} <=> n = 1
    BY <1>1, SinkAndOthers
  <1>3. ASSUME NEW s \in Others
        PROVE  /\ s.exchange.kind = "hash_shuffle"
               /\ \E id \in Elems(graph.sources) : s.inputs = <<FromSource(id)>>
               /\ FromStage(s.id) \in Elems(S[k].inputs)
    BY <1>2, SMTT(30) DEF Shape
  <1>4. ASSUME NEW s \in Others, NEW u \in Others
        PROVE  s.exchange.buckets = u.exchange.buckets /\ s.exchange.keys = u.exchange.keys
    <2>1. PICK i \in (1..n) \ {k} : s = S[i]
      BY <1>2
    <2>2. PICK j \in (1..n) \ {k} : u = S[j]
      BY <1>2
    <2> QED
      BY <2>1, <2>2 DEF Shape
  <1>5. CASE n = 1
    <2>1. \E id \in Elems(graph.sources) : SinkStage.inputs = <<FromSource(id)>>
      BY <1>2, <1>5 DEF Shape
    <2> QED
      BY <1>1, <1>2, <1>3, <1>4, <1>5, <2>1, Positions DEF Supported
  <1>6. CASE n # 1
    <2>1. k = n /\ \A inp \in Elems(S[k].inputs) : \E i \in 1..n : i # k /\ inp = FromStage(S[i].id)
      BY <1>6 DEF Shape
    <2>2. Elems(SinkStage.inputs) = {FromStage(s.id) : s \in Others}
      <3>1. \A inp \in Elems(S[k].inputs) : \E s \in Others : inp = FromStage(s.id)
        BY <2>1, <1>2
      <3> QED
        BY <1>2, <1>3, <3>1
    <2>3. Ids(graph)[n] = graph.sink
      BY <1>1, <2>1, Positions
    <2> QED
      BY <1>1, <1>2, <1>3, <1>4, <1>6, <2>2, <2>3, Positions DEF Supported
  <1> QED
    BY <1>5, <1>6

LEMMA SupportedShape ==
    ASSUME IsGraph(graph), Supported
    PROVE  /\ Distinct(graph.sources) /\ Distinct(Ids(graph))
           /\ \E k \in 1..Len(graph.stages) : Shape(graph, k)
  <1> DEFINE S == graph.stages
             n == Len(S)
  <1>1. Distinct(graph.sources) /\ Distinct(Ids(graph)) /\ graph.sink \in Elems(Ids(graph))
    BY DEF Supported
  <1>2. PICK k \in 1..n : S[k].id = graph.sink
    BY <1>1, Positions
  <1>3. /\ SinkStage = S[k]
        /\ \A i \in 1..n : i # k => S[i].id # graph.sink /\ S[i] \in Others
        /\ \A s \in Others : \E i \in 1..n : i # k /\ s = S[i]
        /\ Others = {} <=> n = 1
    BY <1>1, <1>2, SinkAndOthers
  <1>4. /\ S[k].exchange.kind = "pipeline"
        /\ \A s \in Others :
              /\ s.exchange.kind = "hash_shuffle"
              /\ \E id \in Elems(graph.sources) : s.inputs = <<FromSource(id)>>
        /\ \A s, u \in Others :
              s.exchange.buckets = u.exchange.buckets /\ s.exchange.keys = u.exchange.keys
    BY <1>3 DEF Supported
  <1>5. n \in Nat /\ Ids(graph)[n] = S[n].id /\ \A i, j \in 1..n : S[i].id = S[j].id => i = j
    BY <1>1, <1>2, Positions
  <1>6. CASE n = 1
    <2>1. \E id \in Elems(graph.sources) : S[k].inputs = <<FromSource(id)>>
      BY <1>3, <1>6 DEF Supported
    <2>2. \A i \in 1..n : i = k
      BY <1>6, <1>2
    <2>3. Shape(graph, k)
      BY <1>2, <1>4, <1>6, <2>1, <2>2 DEF Shape
    <2> QED
      BY <1>1, <2>3
  <1>7. CASE n # 1
    <2>1. Elems(S[k].inputs) = {FromStage(s.id) : s \in Others} /\ S[n].id = graph.sink
      BY <1>3, <1>5, <1>7 DEF Supported
    <2>2. k = n
      BY <2>1, <1>2, <1>5
    <2>3. \A i \in 1..n : i # k => FromStage(S[i].id) \in Elems(S[k].inputs)
      BY <2>1, <1>3
    <2>4. \A inp \in Elems(S[k].inputs) : \E i \in 1..n : i # k /\ inp = FromStage(S[i].id)
      BY <2>1, <1>3
    <2>5. Shape(graph, k)
      BY <1>2, <1>3, <1>4, <1>7, <2>2, <2>3, <2>4 DEF Shape
    <2> QED
      BY <1>1, <2>5
  <1> QED
    BY <1>6, <1>7

\* What the checks at parse time decide, of every graph.
LEMMA GraphFacts ==
    ASSUME IsGraph(graph)
    PROVE  AcceptsExactlySupported /\ FinalizeWaitsForAll /\ ScansShareWidth
  <1>1. ASSUME Accepted(graph)
        PROVE  Supported /\ FinalizeWaitsForAll /\ ScansShareWidth
    <2>1. PICK k \in 1..Len(graph.stages) : Shape(graph, k)
      BY <1>1, AcceptedShape
    <2>2. Distinct(graph.sources) /\ Distinct(Ids(graph))
      BY <1>1 DEF Accepted, Validate
    <2>3. Supported
      BY <2>1, <2>2, ShapeSupported
    <2>4. FinalizeWaitsForAll
      BY <2>1, ShapeUpstream DEF FinalizeWaitsForAll
    <2>5. ScansShareWidth
      BY <2>1, ShapeWidths DEF ScansShareWidth
    <2> QED
      BY <2>3, <2>4, <2>5
  <1>2. ASSUME Supported
        PROVE  Accepted(graph)
    BY <1>2, SupportedShape, ShapeAccepted
  <1> QED
    BY <1>1, <1>2 DEF AcceptsExactlySupported, FinalizeWaitsForAll, ScansShareWidth

-----------------------------------------------------------------------------
(* What the compiler emits *)

\* A graph as Graph makes it, by the list of its stages.
LEMMA GraphFields ==
    ASSUME NEW q, NEW stages
    PROVE  /\ Graph(q, stages).stages = stages
           /\ Graph(q, stages).sink = stages[Len(stages)].id
  BY DEF Graph

LEMMA StageFields ==
    ASSUME NEW id, NEW inputs, NEW exchange, NEW keys, NEW sql
    PROVE  /\ StageOf(id, inputs, exchange, keys, sql).id = id
           /\ StageOf(id, inputs, exchange, keys, sql).inputs = inputs
           /\ StageOf(id, inputs, exchange, keys, sql).exchange = exchange
  BY DEF StageOf

LEMMA OneSource ==
    ASSUME NEW a
    PROVE  Elems(<<FromSource(a)>>) = {FromSource(a)} /\ IsInputs(<<FromSource(a)>>)
  <1> DEFINE x == FromSource(a)
  <1>1. x = FromSource(x.id)
    BY ReferenceFields
  <1> HIDE DEF x
  <1>2. Elems(<<x>>) = {x}
    BY ElemsOfOne
  <1>3. IsInputs(<<x>>)
    BY <1>1, <1>2 DEF IsInputs
  <1> QED
    BY <1>2, <1>3 DEF x

LEMMA OneStage ==
    ASSUME NEW a
    PROVE  Elems(<<FromStage(a)>>) = {FromStage(a)} /\ IsInputs(<<FromStage(a)>>)
  <1> DEFINE x == FromStage(a)
  <1>1. x = FromStage(x.id)
    BY ReferenceFields
  <1> HIDE DEF x
  <1>2. Elems(<<x>>) = {x}
    BY ElemsOfOne
  <1>3. IsInputs(<<x>>)
    BY <1>1, <1>2 DEF IsInputs
  <1> QED
    BY <1>2, <1>3 DEF x

LEMMA TwoStages ==
    ASSUME NEW a, NEW b
    PROVE  Elems(<<FromStage(a), FromStage(b)>>) = {FromStage(a), FromStage(b)}
             /\ IsInputs(<<FromStage(a), FromStage(b)>>)
  <1> DEFINE inputs == <<FromStage(a), FromStage(b)>>
  <1>1. Elems(inputs) = {FromStage(a), FromStage(b)}
    BY DEF Elems
  <1>2. inputs \in Seq(Elems(inputs)) \ {<<>>}
    BY <1>1
  <1> QED
    BY <1>1, <1>2, ReferenceFields DEF IsInputs

\* One stage that reads one source.
LEMMA PassthroughGraph ==
    ASSUME NEW q, NEW g, g = EmitPassthrough(q)
    PROVE  IsGraph(g) /\ (Validate(g) => Accepted(g))
  <1> DEFINE inputs == <<FromSource(SourceId(1))>>
             main == StageOf(<<"main">>, inputs, Pipeline, <<>>, UserSql(q.plan))
  <1>1. g.stages = <<main>> /\ g.sink = main.id
    BY GraphFields DEF EmitPassthrough
  <1>2. main.id = <<"main">> /\ main.inputs = inputs /\ main.exchange = Pipeline
    BY StageFields
  <1> HIDE DEF main
  <1>3. IsInputs(inputs) /\ Elems(inputs) = {FromSource(SourceId(1))}
    BY OneSource
  <1>4. Elems(g.stages) = {main} /\ Len(g.stages) = 1 /\ g.stages[1] = main
    BY <1>1, ElemsOfOne
  <1>5. IsGraph(g)
    <2>1. g.stages \in Seq({main})
      BY <1>1
    <2>2. \A i \in 1..Len(g.stages) : g.stages[i] = main
      BY <1>4
    <2> QED
      BY <2>1, <2>2, <1>2, <1>3, <1>4 DEF IsGraph
  <1>6. ASSUME Validate(g)
        PROVE  Accepted(g)
    <2>1. Resolves(g, 1)
      BY <1>4, <1>5, <1>6, Positions DEF Validate
    <2>2. FromSource(SourceId(1)) \in Elems(g.stages[1].inputs)
      BY <1>2, <1>3, <1>4
    <2>3. IF FromSource(SourceId(1)).source THEN FromSource(SourceId(1)).id \in Elems(g.sources)
          ELSE \E j \in 1..(1 - 1) : FromSource(SourceId(1)).id = g.stages[j].id
      BY <2>1, <2>2, <1>4, <1>5, ResolvesTo
    <2>4. SourceId(1) \in Elems(g.sources)
      BY <2>3, ReferenceFields
    <2>5. main.exchange.kind = "pipeline"
      BY <1>2 DEF Pipeline
    <2>6. Shape(g, 1)
      BY <1>1, <1>2, <1>4, <2>4, <2>5 DEF Shape
    <2> QED
      BY <2>6, <1>5, <1>6, ShapeAccepted DEF Validate
  <1> QED
    BY <1>5, <1>6

\* A list of scans, which shuffle alike, then of the sink stage that reads them.
ScansThenSink(g, buckets, keys) ==
    LET n == Len(g.stages) IN
    /\ n # 1
    /\ g.stages[n].id = g.sink
    /\ g.stages[n].exchange.kind = "pipeline"
    /\ Elems(g.stages[n].inputs) = {FromStage(g.stages[i].id) : i \in (1..n) \ {n}}
    /\ \A i \in (1..n) \ {n} :
           /\ \E id : g.stages[i].inputs = <<FromSource(id)>>
           /\ g.stages[i].exchange.kind = "hash_shuffle"
           /\ g.stages[i].exchange.buckets = buckets
           /\ g.stages[i].exchange.keys = keys

LEMMA ScansAndSink ==
    ASSUME NEW g, IsGraph(g), Validate(g), NEW buckets, NEW keys, ScansThenSink(g, buckets, keys)
    PROVE  Accepted(g)
  <1> DEFINE S == g.stages
             n == Len(S)
  <1>1. n \in 1..n /\ \A i, j \in 1..n : S[i].id = S[j].id => i = j
    BY Positions DEF Validate
  <1>2. ASSUME NEW i \in 1..n, i # n
        PROVE  \E id \in Elems(g.sources) : S[i].inputs = <<FromSource(id)>>
    <2>1. PICK id : S[i].inputs = <<FromSource(id)>>
      BY <1>2 DEF ScansThenSink
    <2>2. Resolves(g, i) /\ FromSource(id) \in Elems(S[i].inputs)
      BY <2>1, Positions, ElemsOfOne DEF Validate
    <2>3. IF FromSource(id).source THEN FromSource(id).id \in Elems(g.sources)
          ELSE \E j \in 1..(i - 1) : FromSource(id).id = S[j].id
      BY <2>2, ResolvesTo
    <2>4. FromSource(id).source = TRUE /\ FromSource(id).id = id
      BY ReferenceFields
    <2>5. id \in Elems(g.sources)
      BY <2>3, <2>4
    <2> QED
      BY <2>1, <2>5
  <1>3. Shape(g, n)
    BY <1>1, <1>2 DEF Shape, ScansThenSink
  <1> QED
    BY <1>3, ShapeAccepted DEF Validate

\* The partial stage and the final one.
LEMMA AggregateGraph ==
    ASSUME NEW q, NEW g, g = EmitAggregate(q)
    PROVE  IsGraph(g) /\ (Validate(g) => Accepted(g))
  <1> DEFINE keys == q.plan[2].keys
  <1>1. \E sqlP, sqlF :
           g = Graph(q, <<StageOf(<<"partial">>, <<FromSource(SourceId(1))>>, HashShuffle(keys), keys, sqlP),
                          StageOf(<<"final">>, <<FromStage(<<"partial">>)>>, Pipeline, <<>>, sqlF)>>)
    BY DEF EmitAggregate
  <1>2. PICK sqlP, sqlF :
           g = Graph(q, <<StageOf(<<"partial">>, <<FromSource(SourceId(1))>>, HashShuffle(keys), keys, sqlP),
                          StageOf(<<"final">>, <<FromStage(<<"partial">>)>>, Pipeline, <<>>, sqlF)>>)
    BY <1>1
  <1> DEFINE p == StageOf(<<"partial">>, <<FromSource(SourceId(1))>>, HashShuffle(keys), keys, sqlP)
             f == StageOf(<<"final">>, <<FromStage(<<"partial">>)>>, Pipeline, <<>>, sqlF)
  <1>3. /\ p.id = <<"partial">> /\ p.inputs = <<FromSource(SourceId(1))>>
        /\ p.exchange = HashShuffle(keys)
        /\ f.id = <<"final">> /\ f.inputs = <<FromStage(<<"partial">>)>> /\ f.exchange = Pipeline
    BY StageFields
  <1>4. g.stages = <<p, f>> /\ g.sink = <<p, f>>[Len(<<p, f>>)].id
    BY <1>2, GraphFields
  <1> HIDE DEF p, f
  <1>5. g.stages \in Seq({p, f}) /\ Elems(g.stages) = {p, f} /\ Len(g.stages) = 2
          /\ g.stages[1] = p /\ g.stages[2] = f /\ g.sink = f.id
    BY <1>4 DEF Elems
  <1>6. IsGraph(g)
    <2>1. \A i \in 1..Len(g.stages) : g.stages[i] \in {p, f}
      BY <1>5
    <2>2. IsInputs(p.inputs) /\ IsInputs(f.inputs)
      BY <1>3, OneSource, OneStage
    <2> QED
      BY <1>5, <2>1, <2>2 DEF IsGraph
  <1>7. ASSUME Validate(g)
        PROVE  Accepted(g)
    <2>1. (1..Len(g.stages)) \ {Len(g.stages)} = {1}
      BY <1>5
    <2>2. Elems(f.inputs) = {FromStage(p.id)}
      BY <1>3, OneStage
    <2>3. p.exchange.kind = "hash_shuffle" /\ f.exchange.kind = "pipeline"
      BY <1>3 DEF HashShuffle, Pipeline
    <2>4. /\ g.stages[Len(g.stages)].id = g.sink
          /\ g.stages[Len(g.stages)].exchange.kind = "pipeline"
          /\ Len(g.stages) # 1
      BY <1>5, <2>3
    <2>5. Elems(g.stages[Len(g.stages)].inputs)
            = {FromStage(g.stages[i].id) : i \in (1..Len(g.stages)) \ {Len(g.stages)}}
      BY <1>5, <2>1, <2>2
    <2>6. \A i \in (1..Len(g.stages)) \ {Len(g.stages)} :
             /\ \E id : g.stages[i].inputs = <<FromSource(id)>>
             /\ g.stages[i].exchange.kind = "hash_shuffle"
             /\ g.stages[i].exchange.buckets = p.exchange.buckets
             /\ g.stages[i].exchange.keys = p.exchange.keys
      BY <1>3, <1>5, <2>1, <2>3
    <2>7. ScansThenSink(g, p.exchange.buckets, p.exchange.keys)
      BY <2>4, <2>5, <2>6 DEF ScansThenSink
    <2> QED
      BY <1>6, <1>7, <2>7, ScansAndSink
  <1> QED
    BY <1>6, <1>7

\* The two scans, which shuffle by one key each, and the join.
LEMMA JoinGraph ==
    ASSUME NEW q, NEW g, g = EmitJoin(q)
    PROVE  IsGraph(g) /\ (Validate(g) => Accepted(g))
  <1> DEFINE join == FindJoin(q.plan)
             l == EmitScan(q, Leaf(join.left).table, join.on[1][1])
             r == EmitScan(q, Leaf(join.right).table, join.on[1][2])
             inputs == <<FromStage(l.id), FromStage(r.id)>>
             s == StageOf(<<"join">>, inputs, Pipeline, <<>>, UserSql(q.plan))
  <1>1. g.stages = <<l, r, s>> /\ g.sink = <<l, r, s>>[Len(<<l, r, s>>)].id
    BY GraphFields DEF EmitJoin
  <1>2. s.inputs = inputs /\ s.exchange = Pipeline
    BY StageFields, SMTT(30)
  <1>3. ASSUME NEW table, NEW key
        PROVE  LET scan == EmitScan(q, table, key)
               IN  /\ scan.inputs = <<FromSource(SourceOf(q, table))>>
                   /\ scan.exchange.kind = "hash_shuffle"
                   /\ scan.exchange.buckets = NumBuckets /\ scan.exchange.keys = 1
    BY StageFields DEF EmitScan, HashShuffle
  <1>4. \A scan \in {l, r} :
           /\ \E id : scan.inputs = <<FromSource(id)>>
           /\ scan.exchange.kind = "hash_shuffle"
           /\ scan.exchange.buckets = NumBuckets /\ scan.exchange.keys = 1
    BY <1>3
  <1>5. Elems(inputs) = {FromStage(l.id), FromStage(r.id)} /\ IsInputs(inputs)
    BY TwoStages
  <1> HIDE DEF l, r, s, inputs
  <1>6. g.stages \in Seq({l, r, s}) /\ Elems(g.stages) = {l, r, s} /\ Len(g.stages) = 3
          /\ g.stages[1] = l /\ g.stages[2] = r /\ g.stages[3] = s /\ g.sink = s.id
    BY <1>1 DEF Elems
  <1>7. IsGraph(g)
    <2>1. \A i \in 1..Len(g.stages) : g.stages[i] \in {l, r, s}
      BY <1>6
    <2>2. \A scan \in {l, r} : IsInputs(scan.inputs)
      BY <1>4, OneSource
    <2> QED
      BY <1>2, <1>5, <1>6, <2>1, <2>2 DEF IsGraph
  <1>8. ASSUME Validate(g)
        PROVE  Accepted(g)
    <2>1. (1..Len(g.stages)) \ {Len(g.stages)} = {1, 2}
      BY <1>6
    <2>2. Elems(s.inputs) = {FromStage(g.stages[i].id) : i \in {1, 2}}
      BY <1>2, <1>5, <1>6
    <2>3. s.exchange.kind = "pipeline"
      BY <1>2 DEF Pipeline
    <2>4. /\ g.stages[Len(g.stages)].id = g.sink
          /\ g.stages[Len(g.stages)].exchange.kind = "pipeline"
          /\ Len(g.stages) # 1
      BY <1>6, <2>3
    <2>5. Elems(g.stages[Len(g.stages)].inputs)
            = {FromStage(g.stages[i].id) : i \in (1..Len(g.stages)) \ {Len(g.stages)}}
      BY <1>6, <2>1, <2>2
    <2>6. \A i \in (1..Len(g.stages)) \ {Len(g.stages)} :
             /\ \E id : g.stages[i].inputs = <<FromSource(id)>>
             /\ g.stages[i].exchange.kind = "hash_shuffle"
             /\ g.stages[i].exchange.buckets = NumBuckets
             /\ g.stages[i].exchange.keys = 1
      BY <1>4, <1>6, <2>1
    <2>7. ScansThenSink(g, NumBuckets, 1)
      BY <2>4, <2>5, <2>6 DEF ScansThenSink
    <2> QED
      BY <1>7, <1>8, <2>7, ScansAndSink
  <1> QED
    BY <1>7, <1>8

\* Of any query: a graph, and one that the factory accepts unless the query is
\* refused.
LEMMA CompiledGraph ==
    ASSUME NEW q
    PROVE  IsGraph(Compile(q)) /\ (Compile(q) # Refusal => Accepted(Compile(q)))
  <1>1. IsGraph(Refusal)
    BY DEF Refusal, IsGraph, Elems
  <1>2. IsGraph(Emitted(q)) /\ (Validate(Emitted(q)) => Accepted(Emitted(q)))
    <2>1. Emitted(q) \in {EmitJoin(q), EmitAggregate(q), EmitPassthrough(q)}
      BY DEF Emitted
    <2> QED
      BY <2>1, JoinGraph, AggregateGraph, PassthroughGraph
  <1>3. \/ Compile(q) = Emitted(q) /\ Validate(Emitted(q))
        \/ Compile(q) = Refusal
    BY DEF Compile, WellFormed
  <1> QED
    BY <1>1, <1>2, <1>3

-----------------------------------------------------------------------------
(* The behaviours *)

HandStage == [id : Nat, inputs : Inputs, exchange : Exchanges]
HandGraph == [sources : SourceLists, stages : Seq(HandStage), sink : StageId]

\* What has been built is a graph, and what was compiled is what the compiler
\* makes of the query.
GraphInv ==
    /\ IsGraph(graph)
    /\ from = "hand" => graph \in HandGraph
    /\ from = "compiler" => graph = Compile(query)

LEMMA HandGraphIsGraph ==
    ASSUME NEW g \in HandGraph
    PROVE  IsGraph(g)
  <1>1. g.stages \in Seq(HandStage)
    BY DEF HandGraph
  <1>2. g.stages \in Seq(Elems(g.stages)) /\ \A i \in 1..Len(g.stages) : g.stages[i] \in HandStage
    BY <1>1 DEF Elems
  <1>3. \A stage \in HandStage : IsInputs(stage.inputs)
    BY MCAssumption DEF HandStage, IsInputs
  <1> QED
    BY <1>2, <1>3 DEF IsGraph

LEMMA GraphInvInit == Init => GraphInv
  <1>1. ASSUME InitByHand
        PROVE  GraphInv
    <2>1. graph \in HandGraph /\ from = "hand"
      BY <1>1 DEF InitByHand, HandGraph
    <2> QED
      BY <2>1, HandGraphIsGraph DEF GraphInv
  <1>2. ASSUME InitQuery
        PROVE  GraphInv
    BY <1>2 DEF InitQuery, GraphInv, Refusal, IsGraph, Elems
  <1> QED
    BY <1>1, <1>2 DEF Init

LEMMA GraphInvStep == GraphInv /\ [Next]_vars => GraphInv'
  <1> SUFFICES ASSUME GraphInv, [Next]_vars
               PROVE  GraphInv'
    OBVIOUS
  <1>1. ASSUME AddStage
        PROVE  GraphInv'
    <2>1. PICK id \in {1, Len(graph.stages) + 1}, inputs \in Inputs, x \in Exchanges :
             graph' = [graph EXCEPT !.stages =
                         Append(@, [id |-> id, inputs |-> inputs, exchange |-> x])]
      BY <1>1 DEF AddStage
    <2>2. graph \in HandGraph /\ from' = "hand"
      BY <1>1 DEF AddStage, GraphInv
    <2>3. graph.stages \in Seq(HandStage)
      BY <2>2 DEF HandGraph
    <2>4. [id |-> id, inputs |-> inputs, exchange |-> x] \in HandStage
      BY <2>3 DEF HandStage
    <2> DEFINE longer == Append(graph.stages, [id |-> id, inputs |-> inputs, exchange |-> x])
    <2>5. longer \in Seq(HandStage)
      BY <2>3, <2>4
    <2>6. graph' = [graph EXCEPT !.stages = longer]
      BY <2>1
    <2> HIDE DEF longer
    <2>7. graph' \in HandGraph
      BY <2>2, <2>5, <2>6 DEF HandGraph
    <2> QED
      BY <2>2, <2>7, HandGraphIsGraph DEF GraphInv
  <1>2. ASSUME CompileQuery
        PROVE  GraphInv'
    BY <1>2, CompiledGraph DEF CompileQuery, GraphInv
  <1>3. ASSUME RunQuery
        PROVE  GraphInv'
    BY <1>3 DEF RunQuery, GraphInv
  <1>4. ASSUME UNCHANGED vars
        PROVE  GraphInv'
    BY <1>4 DEF vars, GraphInv
  <1> QED
    BY <1>1, <1>2, <1>3, <1>4 DEF Next

LEMMA GraphInvAlways == Spec => []GraphInv
  BY GraphInvInit, GraphInvStep, PTL DEF Spec

\* dag_from_stages lets a graph through exactly when it has the shape that the
\* DAG can execute: for hand-written graphs of any length over any inputs and
\* exchanges that the constructors let exist, and for whatever is compiled.
THEOREM AcceptsExactlySupportedAlways == Spec => []AcceptsExactlySupported
  BY GraphInvAlways, GraphFacts, PTL DEF GraphInv

\* In the DAG of an accepted graph every task is upstream of finalize, for graphs of
\* any length and under every policy: no width planner, scan or stage is left that
\* the commit does not depend on.
THEOREM FinalizeWaitsForAllAlways == Spec => []FinalizeWaitsForAll
  BY GraphInvAlways, GraphFacts, PTL DEF GraphInv

\* All the scans of an accepted graph are told one width, whatever the policy,
\* and by one planner task when the policy is adaptive.
THEOREM ScansShareWidthAlways == Spec => []ScansShareWidth
  BY GraphInvAlways, GraphFacts, PTL DEF GraphInv

\* What compile_sql returns, for any query at all and any num_buckets,
\* dag_from_stages accepts.
THEOREM CompiledGraphsAcceptedAlways == Spec => []CompiledGraphsAccepted
  <1>1. GraphInv => CompiledGraphsAccepted
    BY CompiledGraph DEF GraphInv, CompiledGraphsAccepted
  <1> QED
    BY <1>1, GraphInvAlways, PTL
=============================================================================
