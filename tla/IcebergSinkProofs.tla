--------------------------- MODULE IcebergSinkProofs ---------------------------
(***************************************************************************)
(* Why a table holds each answer once and whole: runs have staging         *)
(* directories of their own, what finalize commits is the whole answer or  *)
(* nothing, for the table it loaded has all of the run's files or none,    *)
(* and the data files keep what they held.                                 *)
(***************************************************************************)
EXTENDS IcebergSink, TLAPS

-----------------------------------------------------------------------------
(* The inductive invariant *)

AllDirs == UNION {MintedWorkDirs(r, {}) : r \in Run}
Entries == [path : {RunKey(d) : d \in AllDirs} \X Nat, stats : SUBSET Row]

\* The entries of r's whole answer.
AnswerEntries(r) ==
    {[path |-> DataFile(r, p), stats |-> answer[r][p]] :
        p \in {q \in DOMAIN answer[r] : answer[r][q] # {}}}

Typed ==
    /\ TypeOK
    /\ answer \in [Run -> UNION {Answers[r] : r \in Run}]
    /\ metas \in [Run -> SUBSET Nat]
    /\ workDir \in [Run -> AllDirs \cup {NoDir}]
    /\ log \in Seq(SUBSET Entries)

\* A run works in a directory that was minted for it and that no other has.
DirsInv ==
    /\ \A r \in Run : workDir[r] # NoDir => workDir[r] \in MintedWorkDirs(r, {})
    /\ \A r, q \in Run : workDir[r] # NoDir /\ workDir[r] = workDir[q] => r = q

\* A data file holds what its run computed for its partition, and those that
\* are reported are there.
FilesInv ==
    /\ \A path \in DOMAIN staged :
          \E r \in Run : /\ workDir[r] # NoDir
                         /\ \E p \in DOMAIN answer[r] :
                               path = DataFile(r, p) /\ staged[path] = answer[r][p]
    /\ \A r \in Run : \A p \in metas[r] :
          workDir[r] # NoDir /\ DataFile(r, p) \in DOMAIN staged

\* Finalize is attempted when all partitions are reported.
Begun(r) == DOMAIN attempts[r] # {}

BegunInv == \A r \in Run : Begun(r) => workDir[r] # NoDir /\ metas[r] = DOMAIN answer[r]

\* Every snapshot added the whole answer of one run, and no two that of the same.
Added(r, i) == Begun(r) /\ log[i] = AnswerEntries(r)

LogInv ==
    /\ \A i \in DOMAIN log : \E r \in Run : Added(r, i)
    /\ \A i, j \in DOMAIN log : log[i] = log[j] => i = j
    /\ ~created => log = <<>>

\* An attempt that raised had loaded a table without some file of its run; one
\* that returned leaves the table with all of them.
AttemptInv(r, a) ==
    /\ a.pc \in {"load", "create"} => a.version = 0
    /\ a.pc = "create" => Paths(r) # {}
    /\ a.pc = "add" => created
    /\ a.pc = "returned" => Paths(r) \subseteq PathsAt(Len(log))
    /\ a.pc = "raised" /\ Paths(r) # {} => ~(Paths(r) \subseteq PathsAt(a.version))

TasksInv ==
    \A r \in Run :
        /\ \A n \in DOMAIN attempts[r] : AttemptInv(r, attempts[r][n])
        /\ ti[r] = "success" => Begun(r) /\ Paths(r) \subseteq PathsAt(Len(log))

IInv == Typed /\ DirsInv /\ FilesInv /\ BegunInv /\ LogInv /\ TasksInv

-----------------------------------------------------------------------------
(* Directories, files and entries *)

LEMMA DirFacts ==
    ASSUME NEW r \in Run, NEW taken, NEW d \in MintedWorkDirs(r, taken)
    PROVE  /\ d \in MintedWorkDirs(r, {}) /\ d \in AllDirs /\ d # NoDir
           /\ DagOf[r] \notin BaseGiven => d \notin taken
  <1>1. d \in MintedWorkDirs(r, {}) /\ (DagOf[r] \notin BaseGiven => d \notin taken)
    BY DEF MintedWorkDirs
  <1>2. CASE DagOf[r] \in BaseGiven
    <2>1. PICK s, t : d = <<s, t>>
      BY <1>2 DEF MintedWorkDirs
    <2> QED
      BY <1>1, <2>1 DEF NoDir, AllDirs
  <1>3. CASE DagOf[r] \notin BaseGiven
    <2>1. PICK s : d = <<s>>
      BY <1>3 DEF MintedWorkDirs
    <2> QED
      BY <1>1, <2>1 DEF NoDir, AllDirs
  <1> QED
    BY <1>2, <1>3

\* Runs at work have different keys.
LEMMA KeysOfRunsApart ==
    ASSUME RunKeysApart, DirsInv, NEW r \in Run, NEW q \in Run,
           workDir[r] # NoDir, workDir[q] # NoDir, Key(r) = Key(q)
    PROVE  r = q
  <1>1. workDir[r] \in MintedWorkDirs(r, {}) /\ workDir[q] \in MintedWorkDirs(q, {})
    BY DEF DirsInv
  <1>2. workDir[r] = workDir[q]
    BY <1>1 DEF RunKeysApart, Key
  <1> QED
    BY <1>2 DEF DirsInv

LEMMA DataFileFacts ==
    \A r, q, p, o :
        /\ DataFile(r, p)[2] = p
        /\ DataFile(r, p) = DataFile(q, o) => Key(r) = Key(q) /\ p = o
        /\ InStagingDir(q, DataFile(r, p)) <=> Key(r) = Key(q)
  BY DEF DataFile, InStagingDir

LEMMA AnswerFacts ==
    ASSUME Typed, NEW r \in Run
    PROVE  DOMAIN answer[r] \subseteq Nat /\ \A p \in DOMAIN answer[r] : answer[r][p] \subseteq Row
  BY IcebergAssumption DEF Typed, TypeOK

LEMMA StagedFacts ==
    ASSUME RunKeysApart, DirsInv, FilesInv, NEW r \in Run, NEW p \in metas[r]
    PROVE  DataFile(r, p) \in DOMAIN staged /\ staged[DataFile(r, p)] = answer[r][p]
  <1>1. workDir[r] # NoDir /\ DataFile(r, p) \in DOMAIN staged
    BY DEF FilesInv
  <1>2. PICK q \in Run : workDir[q] # NoDir /\ \E o \in DOMAIN answer[q] :
            DataFile(r, p) = DataFile(q, o) /\ staged[DataFile(r, p)] = answer[q][o]
    BY <1>1 DEF FilesInv
  <1>3. q = r
    BY <1>1, <1>2, KeysOfRunsApart, DataFileFacts
  <1> QED
    BY <1>1, <1>2, <1>3, DataFileFacts

\* The whole answer is what finalize is to commit.
LEMMA BegunFacts ==
    ASSUME RunKeysApart, DirsInv, FilesInv, BegunInv, NEW r \in Run, Begun(r)
    PROVE  /\ Paths(r) = {e.path : e \in AnswerEntries(r)}
           /\ AnswerEntries(r) = {Entry(path) : path \in Paths(r)}
           /\ \A e \in AnswerEntries(r) :
                 /\ e.path \in DOMAIN staged /\ staged[e.path] = e.stats
                 /\ InStagingDir(r, e.path)
  <1> DEFINE Full == {q \in DOMAIN answer[r] : answer[r][q] # {}}
             E(p) == [path |-> DataFile(r, p), stats |-> answer[r][p]]
  <1>1. metas[r] = DOMAIN answer[r]
    BY DEF BegunInv
  <1>2. Paths(r) = {DataFile(r, p) : p \in Full}
    BY <1>1 DEF Paths
  <1>3. AnswerEntries(r) = {E(p) : p \in Full}
    BY DEF AnswerEntries
  <1>4. ASSUME NEW p \in Full
        PROVE  /\ E(p).path = DataFile(r, p) /\ E(p).stats = answer[r][p]
               /\ Entry(DataFile(r, p)) = E(p)
               /\ DataFile(r, p) \in DOMAIN staged /\ staged[DataFile(r, p)] = answer[r][p]
               /\ InStagingDir(r, DataFile(r, p))
    BY <1>1, StagedFacts, DataFileFacts DEF Entry
  <1> HIDE DEF Full, E
  <1> QED
    BY <1>2, <1>3, <1>4

LEMMA EntriesTyped ==
    ASSUME Typed, DirsInv, BegunInv, NEW r \in Run, Begun(r)
    PROVE  AnswerEntries(r) \subseteq Entries
  <1>1. workDir[r] \in AllDirs
    BY DEF BegunInv, Typed
  <1>2. ASSUME NEW p \in DOMAIN answer[r]
        PROVE  [path |-> DataFile(r, p), stats |-> answer[r][p]] \in Entries
    BY <1>1, AnswerFacts DEF Entries, DataFile, Key
  <1> QED
    BY <1>2 DEF AnswerEntries

-----------------------------------------------------------------------------
(* The table *)

LEMMA LogFacts ==
    ASSUME Typed
    PROVE  /\ log \in Seq(SUBSET Entries) /\ Len(log) \in Nat /\ DOMAIN log = 1..Len(log)
           /\ \A i \in DOMAIN log : log[i] # {}
  BY DEF Typed, TypeOK

LEMMA PathsAtIs ==
    ASSUME NEW version
    PROVE  \A path : path \in PathsAt(version) <=>
               \E i \in 1..version : \E e \in log[i] : path = e.path
  BY DEF PathsAt, EntriesAt

\* A file in r's staging directory that the table has was added by r.
LEMMA OwnerOf ==
    ASSUME RunKeysApart, Typed, DirsInv, FilesInv, BegunInv, LogInv,
           NEW r \in Run, workDir[r] # NoDir, NEW i \in DOMAIN log, NEW e \in log[i],
           InStagingDir(r, e.path)
    PROVE  Added(r, i)
  <1>1. PICK q \in Run : Added(q, i)
    BY DEF LogInv
  <1>2. InStagingDir(q, e.path)
    BY <1>1, BegunFacts DEF Added
  <1>3. q = r
    BY <1>1, <1>2, KeysOfRunsApart DEF InStagingDir, BegunInv, Added
  <1> QED
    BY <1>1, <1>3

\* A version of the table has all of a run's files or none.
LEMMA AllOrNone ==
    ASSUME RunKeysApart, Typed, DirsInv, FilesInv, BegunInv, LogInv,
           NEW r \in Run, Begun(r), NEW version \in 0..Len(log)
    PROVE  \/ /\ \E i \in 1..version : Added(r, i)
              /\ NewPaths(r, version) = {} /\ Paths(r) \subseteq PathsAt(version)
           \/ /\ ~\E i \in 1..version : Added(r, i)
              /\ NewPaths(r, version) = Paths(r) /\ Paths(r) \cap PathsAt(version) = {}
  <1>0. 1..version \subseteq DOMAIN log /\ workDir[r] # NoDir
    BY LogFacts DEF BegunInv
  <1>1. ASSUME NEW i \in 1..version, Added(r, i)
        PROVE  NewPaths(r, version) = {} /\ Paths(r) \subseteq PathsAt(version)
    <2>1. \A path \in Paths(r) : path \in PathsAt(version) /\ InStagingDir(r, path)
      BY <1>1, BegunFacts, PathsAtIs DEF Added
    <2> QED
      BY <2>1 DEF NewPaths, CommittedPaths
  <1>2. ASSUME ~\E i \in 1..version : Added(r, i)
        PROVE  NewPaths(r, version) = Paths(r) /\ Paths(r) \cap PathsAt(version) = {}
    <2>1. ASSUME NEW path \in PathsAt(version), InStagingDir(r, path)
          PROVE  FALSE
      <3>1. PICK i \in 1..version : \E e \in log[i] : path = e.path
        BY PathsAtIs
      <3> QED
        BY <1>0, <1>2, <2>1, <3>1, OwnerOf
    <2>2. \A path \in Paths(r) : InStagingDir(r, path)
      BY BegunFacts
    <2> QED
      BY <2>1, <2>2 DEF NewPaths, CommittedPaths
  <1> QED
    BY <1>1, <1>2

-----------------------------------------------------------------------------
(* What a step does to one part of the state *)

LEMMA AttemptsFacts ==
    ASSUME Typed, NEW r \in Run
    PROVE  /\ attempts \in [Run -> Seq(Attempt)] /\ attempts[r] \in Seq(Attempt)
           /\ DOMAIN attempts[r] = 1..Len(attempts[r]) /\ Len(attempts[r]) \in Nat
           /\ \A n \in DOMAIN attempts[r] :
                 attempts[r][n] \in Attempt /\ attempts[r][n].version \in 0..Len(log)
  <1>1. attempts \in [Run -> Seq(Attempt)]
    BY DEF Typed, TypeOK
  <1>2. ASSUME NEW n \in DOMAIN attempts[r]
        PROVE  attempts[r][n] \in Attempt /\ attempts[r][n].version \in 0..Len(log)
    <2>1. attempts[r][n] \in Attempt
      BY <1>1
    <2>2. attempts[r][n].version \in Nat
      BY <2>1 DEF Attempt
    <2> QED
      BY <2>1, <2>2, LogFacts DEF Typed, TypeOK
  <1> QED
    BY <1>1, <1>2

LEMMA AdvancedFields ==
    ASSUME NEW a \in Attempt, NEW pc, NEW version
    PROVE  /\ [a EXCEPT !.pc = pc, !.version = version].pc = pc
           /\ [a EXCEPT !.pc = pc, !.version = version].version = version
  BY DEF Attempt

LEMMA AdvanceFacts ==
    ASSUME Typed, NEW r \in Run, NEW n \in DOMAIN attempts[r],
           NEW pc \in {"load", "create", "add", "returned", "raised"}, NEW version \in Nat,
           Advance(r, n, pc, version)
    PROVE  /\ attempts' \in [Run -> Seq(Attempt)]
           /\ \A q \in Run :
                 /\ DOMAIN attempts'[q] = DOMAIN attempts[q]
                 /\ \A m \in DOMAIN attempts[q] :
                       q # r \/ m # n => attempts'[q][m] = attempts[q][m]
           /\ attempts'[r][n].pc = pc /\ attempts'[r][n].version = version
  <1> DEFINE a == [attempts[r][n] EXCEPT !.pc = pc, !.version = version]
             s == [attempts[r] EXCEPT ![n] = a]
  <1>1. a \in Attempt
    BY AttemptsFacts DEF Attempt
  <1>2. /\ s \in Seq(Attempt) /\ DOMAIN s = DOMAIN attempts[r] /\ s[n] = a
        /\ \A m \in DOMAIN attempts[r] : m # n => s[m] = attempts[r][m]
    BY <1>1, AttemptsFacts
  <1>3. attempts' = [attempts EXCEPT ![r] = s]
    BY AttemptsFacts DEF Advance
  <1> HIDE DEF s
  <1>4. /\ attempts' \in [Run -> Seq(Attempt)]
        /\ \A q \in Run : attempts'[q] = IF q = r THEN s ELSE attempts[q]
    BY <1>2, <1>3, AttemptsFacts
  <1>5. a.pc = pc /\ a.version = version
    BY AttemptsFacts, AdvancedFields
  <1> HIDE DEF a
  <1> QED
    BY <1>2, <1>4, <1>5

\* Attempts are given up on, and go on as they were.
LEMMA LostFacts ==
    ASSUME Typed, NEW r \in Run, GiveUp(r)
    PROVE  /\ attempts' \in [Run -> Seq(Attempt)]
           /\ \A q \in Run :
                 /\ DOMAIN attempts'[q] = DOMAIN attempts[q]
                 /\ \A m \in DOMAIN attempts[q] :
                       /\ attempts'[q][m].pc = attempts[q][m].pc
                       /\ attempts'[q][m].version = attempts[q][m].version
  <1> DEFINE n == Len(attempts[r])
             a == [attempts[r][n] EXCEPT !.lost = TRUE]
             s == [attempts[r] EXCEPT ![n] = a]
  <1>1. n \in DOMAIN attempts[r]
    BY AttemptsFacts DEF GiveUp, Over
  <1>2. /\ a \in Attempt /\ a.pc = attempts[r][n].pc /\ a.version = attempts[r][n].version
    BY <1>1, AttemptsFacts DEF Attempt
  <1>3. /\ s \in Seq(Attempt) /\ DOMAIN s = DOMAIN attempts[r]
        /\ \A m \in DOMAIN attempts[r] : s[m] = IF m = n THEN a ELSE attempts[r][m]
    BY <1>1, <1>2, AttemptsFacts
  <1>4. attempts' = [attempts EXCEPT ![r] = s]
    BY DEF GiveUp
  <1> HIDE DEF s
  <1>5. attempts' \in [Run -> Seq(Attempt)] /\ \A q \in Run : attempts'[q] = IF q = r THEN s ELSE attempts[q]
    BY <1>3, <1>4, AttemptsFacts
  <1> HIDE DEF a
  <1> QED
    BY <1>2, <1>3, <1>5

\* A new attempt has everything before it.
LEMMA StartFacts ==
    ASSUME Typed, NEW r \in Run, StartFinalize(r)
    PROVE  /\ attempts' \in [Run -> Seq(Attempt)]
           /\ \A q \in Run :
                 /\ DOMAIN attempts[q] \subseteq DOMAIN attempts'[q]
                 /\ q # r => DOMAIN attempts'[q] = DOMAIN attempts[q]
                 /\ \A m \in DOMAIN attempts'[q] :
                       attempts'[q][m] = IF m \in DOMAIN attempts[q] THEN attempts[q][m]
                                         ELSE [pc |-> "load", lost |-> FALSE, version |-> 0]
  <1> DEFINE a == [pc |-> "load", lost |-> FALSE, version |-> 0]
             s == Append(attempts[r], a)
  <1>1. a \in Attempt
    BY DEF Attempt
  <1> HIDE DEF a
  <1>2. /\ s \in Seq(Attempt) /\ DOMAIN attempts[r] \subseteq DOMAIN s
        /\ \A m \in DOMAIN s : s[m] = IF m \in DOMAIN attempts[r] THEN attempts[r][m] ELSE a
    BY <1>1, AttemptsFacts
  <1>3. attempts' = [attempts EXCEPT ![r] = s]
    BY DEF StartFinalize, a
  <1> HIDE DEF s
  <1>4. attempts' \in [Run -> Seq(Attempt)] /\ \A q \in Run : attempts'[q] = IF q = r THEN s ELSE attempts[q]
    BY <1>2, <1>3, AttemptsFacts
  <1>5. \A q \in Run :
            /\ DOMAIN attempts[q] \subseteq DOMAIN attempts'[q]
            /\ q # r => DOMAIN attempts'[q] = DOMAIN attempts[q]
            /\ \A m \in DOMAIN attempts'[q] :
                  attempts'[q][m] = IF m \in DOMAIN attempts[q] THEN attempts[q][m] ELSE a
    BY <1>2, <1>4
  <1> QED
    BY <1>4, <1>5 DEF a

LEMMA StepKeeps ==
    ASSUME NEW r \in Run, NEW n \in DOMAIN attempts[r], Step(r, n)
    PROVE  UNCHANGED <<answer, workDir, staged, metas, ti, late, deaths>>
  <1>1. CASE LoadTable(r, n)
    BY <1>1 DEF LoadTable, Advance
  <1>2. CASE CreateTable(r, n)
    BY <1>2 DEF CreateTable, Advance
  <1>3. CASE AddFiles(r, n)
    BY <1>3 DEF AddFiles, Advance
  <1> QED
    BY <1>1, <1>2, <1>3 DEF Step

\* Each step is one of finalize, of Airflow's account of it, or of the run's
\* tasks before it.
LEMMA Steps ==
    ASSUME [Next]_vars
    PROVE  /\ answer' = answer
           /\ \/ UNCHANGED <<workDir, staged, metas, tableVars, taskVars>>
              \/ /\ UNCHANGED <<tableVars, taskVars>>
                 /\ \E r \in Run :
                       MakeWorkDir(r) \/ \E p \in DOMAIN answer[r] : Write(r, p) \/ LateWrite(r, p)
              \/ /\ UNCHANGED <<workDir, staged, metas>>
                 /\ \E r \in Run :
                       \/ StartFinalize(r) \/ RecordSuccess(r) \/ RecordFailure(r) \/ GiveUp(r)
                       \/ \E n \in DOMAIN attempts[r] : Step(r, n)
  <1>1. CASE UNCHANGED vars
    BY <1>1 DEF vars
  <1>2. ASSUME NEW r \in Run, MakeWorkDir(r)
        PROVE  answer' = answer /\ UNCHANGED <<tableVars, taskVars>>
    BY <1>2 DEF MakeWorkDir
  <1>3. ASSUME NEW r \in Run, NEW p \in DOMAIN answer[r], Write(r, p) \/ LateWrite(r, p)
        PROVE  answer' = answer /\ UNCHANGED <<tableVars, taskVars>>
    BY <1>3 DEF Write, LateWrite
  <1>4. ASSUME NEW r \in Run,
               StartFinalize(r) \/ RecordSuccess(r) \/ RecordFailure(r) \/ GiveUp(r)
        PROVE  UNCHANGED <<answer, workDir, staged, metas>>
    BY <1>4 DEF StartFinalize, RecordSuccess, RecordFailure, GiveUp
  <1>5. ASSUME NEW r \in Run, NEW n \in DOMAIN attempts[r], Step(r, n)
        PROVE  UNCHANGED <<answer, workDir, staged, metas>>
    BY <1>5, StepKeeps
  <1>6. \/ UNCHANGED vars
        \/ \E r \in Run :
              \/ MakeWorkDir(r) \/ \E p \in DOMAIN answer[r] : Write(r, p) \/ LateWrite(r, p)
              \/ StartFinalize(r) \/ RecordSuccess(r) \/ RecordFailure(r) \/ GiveUp(r)
              \/ \E n \in DOMAIN attempts[r] : Step(r, n)
    BY DEF Next
  <1> QED
    BY <1>1, <1>2, <1>3, <1>4, <1>5, <1>6

\* Only a commit adds a snapshot.
LEMMA LogSteps ==
    ASSUME [Next]_vars
    PROVE  \/ UNCHANGED tableVars
           \/ /\ UNCHANGED <<workDir, staged, metas>>
              /\ \E r \in Run : \E n \in DOMAIN attempts[r] : CreateTable(r, n) \/ AddFiles(r, n)
  <1>1. ASSUME NEW r \in Run,
               StartFinalize(r) \/ RecordSuccess(r) \/ RecordFailure(r) \/ GiveUp(r)
        PROVE  UNCHANGED tableVars
    BY <1>1 DEF StartFinalize, RecordSuccess, RecordFailure, GiveUp, tableVars
  <1>2. ASSUME NEW r \in Run, NEW n \in DOMAIN attempts[r], LoadTable(r, n)
        PROVE  UNCHANGED tableVars
    BY <1>2 DEF LoadTable
  <1> QED
    BY <1>1, <1>2, Steps DEF Step

\* What a run has, it keeps: its directory, its reported files and, once it is
\* to be committed, its answer.
LEMMA RunKept ==
    ASSUME Typed, DirsInv, FilesInv, BegunInv, [Next]_vars
    PROVE  /\ \A r \in Run : workDir[r] # NoDir => workDir'[r] = workDir[r] /\ Key(r)' = Key(r)
           /\ \A r \in Run : metas[r] \subseteq metas'[r] /\ metas'[r] \subseteq DOMAIN answer[r]
           /\ DOMAIN staged \subseteq DOMAIN staged'
           /\ \A r \in Run : metas[r] = DOMAIN answer[r] => metas'[r] = metas[r]
  <1>0. metas \in [Run -> SUBSET Nat] /\ workDir \in [Run -> AllDirs \cup {NoDir}]
        /\ \A r \in Run : metas[r] \subseteq DOMAIN answer[r]
    BY DEF Typed, TypeOK
  <1>1. ASSUME UNCHANGED <<workDir, staged, metas>>
        PROVE  /\ \A r \in Run : workDir[r] # NoDir => workDir'[r] = workDir[r] /\ Key(r)' = Key(r)
               /\ \A r \in Run : metas[r] \subseteq metas'[r] /\ metas'[r] \subseteq DOMAIN answer[r]
               /\ DOMAIN staged \subseteq DOMAIN staged'
    BY <1>0, <1>1 DEF Key
  <1>2. ASSUME NEW q \in Run, MakeWorkDir(q)
        PROVE  /\ \A r \in Run : workDir[r] # NoDir => workDir'[r] = workDir[r] /\ Key(r)' = Key(r)
               /\ \A r \in Run : metas[r] \subseteq metas'[r] /\ metas'[r] \subseteq DOMAIN answer[r]
               /\ DOMAIN staged \subseteq DOMAIN staged'
    BY <1>0, <1>2 DEF Key, MakeWorkDir
  <1>3. ASSUME NEW q \in Run, NEW p \in DOMAIN answer[q], Write(q, p) \/ LateWrite(q, p)
        PROVE  /\ \A r \in Run : workDir[r] # NoDir => workDir'[r] = workDir[r] /\ Key(r)' = Key(r)
               /\ \A r \in Run : metas[r] \subseteq metas'[r] /\ metas'[r] \subseteq DOMAIN answer[r]
               /\ DOMAIN staged \subseteq DOMAIN staged'
    BY <1>0, <1>3 DEF Key, Write, LateWrite, PutFile
  <1>4. /\ \A r \in Run : workDir[r] # NoDir => workDir'[r] = workDir[r] /\ Key(r)' = Key(r)
        /\ \A r \in Run : metas[r] \subseteq metas'[r] /\ metas'[r] \subseteq DOMAIN answer[r]
        /\ DOMAIN staged \subseteq DOMAIN staged'
    BY <1>1, <1>2, <1>3, Steps
  <1> QED
    BY <1>4

LEMMA AttemptsKept ==
    ASSUME Typed, [Next]_vars
    PROVE  /\ attempts' \in [Run -> Seq(Attempt)]
           /\ \A r \in Run : DOMAIN attempts[r] \subseteq DOMAIN attempts'[r]
           /\ \A r \in Run : Begun(r)' => Begun(r) \/ StartFinalize(r)
  <1>1. CASE UNCHANGED attempts
    BY <1>1, AttemptsFacts DEF Begun, Typed, TypeOK
  <1>2. ASSUME NEW q \in Run, StartFinalize(q)
        PROVE  /\ attempts' \in [Run -> Seq(Attempt)]
               /\ \A r \in Run : DOMAIN attempts[r] \subseteq DOMAIN attempts'[r]
               /\ \A r \in Run : Begun(r)' => Begun(r) \/ StartFinalize(r)
    BY <1>2, StartFacts DEF Begun
  <1>3. ASSUME NEW q \in Run, GiveUp(q)
        PROVE  /\ attempts' \in [Run -> Seq(Attempt)]
               /\ \A r \in Run : DOMAIN attempts[r] = DOMAIN attempts'[r]
    BY <1>3, LostFacts
  <1>4. ASSUME NEW q \in Run, NEW n \in DOMAIN attempts[q], Step(q, n)
        PROVE  /\ attempts' \in [Run -> Seq(Attempt)]
               /\ \A r \in Run : DOMAIN attempts[r] = DOMAIN attempts'[r]
    <2>0. attempts[q][n].version \in Nat /\ Len(log) \in Nat
      BY AttemptsFacts, LogFacts
    <2>1. CASE LoadTable(q, n)
      <3>1. \E pc \in {"load", "create", "add", "returned", "raised"}, v \in Nat : Advance(q, n, pc, v)
        BY <2>0, <2>1 DEF LoadTable
      <3> QED
        BY <3>1, AdvanceFacts
    <2>2. CASE CreateTable(q, n)
      <3>1. \E pc \in {"load", "create", "add", "returned", "raised"} : Advance(q, n, pc, 0)
        BY <2>2 DEF CreateTable
      <3> QED
        BY <3>1, AdvanceFacts
    <2>3. CASE AddFiles(q, n)
      <3>1. \E pc \in {"load", "create", "add", "returned", "raised"} :
                Advance(q, n, pc, attempts[q][n].version)
        BY <2>3 DEF AddFiles
      <3>2. \E pc \in {"load", "create", "add", "returned", "raised"}, v \in Nat : Advance(q, n, pc, v)
        BY <2>0, <3>1
      <3> QED
        BY <3>2, AdvanceFacts
    <2> QED
      BY <1>4, <2>1, <2>2, <2>3 DEF Step
  <1>5. ASSUME NEW q \in Run, RecordSuccess(q) \/ RecordFailure(q)
        PROVE  UNCHANGED attempts
    BY <1>5 DEF RecordSuccess, RecordFailure
  <1> QED
    BY <1>1, <1>2, <1>3, <1>4, <1>5, Steps DEF Begun, taskVars

\* The answer that a run is to commit does not change.
LEMMA AnswerKept ==
    ASSUME Typed, DirsInv, FilesInv, BegunInv, [Next]_vars, NEW r \in Run, Begun(r)
    PROVE  /\ Begun(r)' /\ workDir[r] # NoDir /\ Key(r)' = Key(r)
           /\ AnswerEntries(r)' = AnswerEntries(r) /\ Paths(r)' = Paths(r)
  <1>1. workDir[r] # NoDir /\ metas[r] = DOMAIN answer[r]
    BY DEF BegunInv
  <1>2. Key(r)' = Key(r) /\ metas'[r] = metas[r] /\ answer' = answer
    BY <1>1, RunKept, Steps
  <1>3. \A p : DataFile(r, p)' = DataFile(r, p)
    BY <1>2 DEF DataFile
  <1>4. AnswerEntries(r)' = AnswerEntries(r) /\ Paths(r)' = Paths(r)
    BY <1>2, <1>3 DEF AnswerEntries, Paths
  <1> QED
    BY <1>1, <1>2, <1>4, AttemptsKept DEF Begun

-----------------------------------------------------------------------------
(* Each part of the invariant is kept *)

LEMMA DirsKept ==
    ASSUME RunKeysApart, Typed, DirsInv, [Next]_vars
    PROVE  DirsInv'
  <1>1. CASE UNCHANGED workDir
    BY <1>1 DEF DirsInv
  <1>2. ASSUME NEW r \in Run, MakeWorkDir(r)
        PROVE  DirsInv'
    <2> DEFINE taken == {workDir[q] : q \in Run}
    <2>1. PICK d \in MintedWorkDirs(r, taken) : workDir' = [workDir EXCEPT ![r] = d]
      BY <1>2 DEF MakeWorkDir
    <2>2. workDir'[r] = d /\ \A q \in Run : q # r => workDir'[q] = workDir[q]
      BY <2>1 DEF Typed
    <2>3. \A q \in Run : workDir[q] \in taken
      OBVIOUS
    <2> HIDE DEF taken
    <2>4. d \in MintedWorkDirs(r, {}) /\ d # NoDir /\ (DagOf[r] \notin BaseGiven => d \notin taken)
      BY DirFacts
    <2>5. ASSUME NEW q \in Run, workDir[q] # NoDir
          PROVE  d # workDir[q] \/ q = r
      <3>1. workDir[q] \in MintedWorkDirs(q, {})
        BY <2>5 DEF DirsInv
      <3> QED
        BY <2>3, <2>4, <3>1 DEF RunKeysApart
    <2> QED
      BY <2>2, <2>4, <2>5 DEF DirsInv
  <1>3. ASSUME NEW r \in Run, NEW p \in DOMAIN answer[r], Write(r, p) \/ LateWrite(r, p)
        PROVE  UNCHANGED workDir
    BY <1>3 DEF Write, LateWrite
  <1> QED
    BY <1>1, <1>2, <1>3, Steps

LEMMA FilesKept ==
    ASSUME Typed, DirsInv, FilesInv, BegunInv, [Next]_vars
    PROVE  FilesInv'
  <1>0. answer' = answer
    BY Steps
  <1>1. ASSUME NEW r \in Run, workDir[r] # NoDir
        PROVE  workDir'[r] # NoDir /\ \A p : DataFile(r, p)' = DataFile(r, p)
    BY <1>1, RunKept DEF DataFile
  <1>2. ASSUME NEW path \in DOMAIN staged',
               path \in DOMAIN staged /\ staged'[path] = staged[path]
        PROVE  \E r \in Run : /\ workDir'[r] # NoDir
                              /\ \E p \in DOMAIN answer'[r] :
                                    path = DataFile(r, p)' /\ staged'[path] = answer'[r][p]
    <2>1. PICK r \in Run : /\ workDir[r] # NoDir
                           /\ \E p \in DOMAIN answer[r] :
                                 path = DataFile(r, p) /\ staged[path] = answer[r][p]
      BY <1>2 DEF FilesInv
    <2> QED
      BY <1>0, <1>1, <1>2, <2>1
  <1>3. ASSUME NEW r \in Run, NEW p \in metas'[r],
               p \in metas[r] \/ (workDir[r] # NoDir /\ DataFile(r, p) \in DOMAIN staged')
        PROVE  workDir'[r] # NoDir /\ DataFile(r, p)' \in DOMAIN staged'
    <2>1. workDir[r] # NoDir
      BY <1>3 DEF FilesInv
    <2>2. p \in metas[r] => DataFile(r, p) \in DOMAIN staged'
      BY RunKept DEF FilesInv
    <2> QED
      BY <1>1, <1>3, <2>1, <2>2
  <1>4. ASSUME UNCHANGED <<staged, metas>>
        PROVE  FilesInv'
    BY <1>2, <1>3, <1>4 DEF FilesInv
  <1>5. ASSUME NEW q \in Run, NEW o \in DOMAIN answer[q], Write(q, o) \/ LateWrite(q, o)
        PROVE  FilesInv'
    <2>1. /\ workDir[q] # NoDir /\ PutFile(q, o) /\ metas \in [Run -> SUBSET Nat]
          /\ metas' = metas \/ metas' = [metas EXCEPT ![q] = @ \cup {o}]
      BY <1>5 DEF Write, LateWrite, Typed
    <2>2. /\ \A path \in DOMAIN staged' : path # DataFile(q, o) =>
                 path \in DOMAIN staged /\ staged'[path] = staged[path]
          /\ DataFile(q, o) \in DOMAIN staged' /\ staged'[DataFile(q, o)] = answer[q][o]
      BY <2>1 DEF PutFile
    <2>3. ASSUME NEW path \in DOMAIN staged'
          PROVE  \E r \in Run : /\ workDir'[r] # NoDir
                                /\ \E p \in DOMAIN answer'[r] :
                                      path = DataFile(r, p)' /\ staged'[path] = answer'[r][p]
      BY <1>0, <1>1, <1>2, <2>1, <2>2
    <2>4. ASSUME NEW r \in Run, NEW p \in metas'[r]
          PROVE  workDir'[r] # NoDir /\ DataFile(r, p)' \in DOMAIN staged'
      <3>1. p \in metas[r] \/ (r = q /\ p = o)
        BY <2>1
      <3> QED
        BY <1>3, <2>1, <2>2, <3>1
    <2> QED
      BY <2>3, <2>4 DEF FilesInv
  <1>6. ASSUME NEW q \in Run, MakeWorkDir(q)
        PROVE  UNCHANGED <<staged, metas>>
    BY <1>6 DEF MakeWorkDir
  <1> QED
    BY <1>4, <1>5, <1>6, Steps

LEMMA BegunKept ==
    ASSUME Typed, DirsInv, FilesInv, BegunInv, [Next]_vars
    PROVE  BegunInv'
  <1> SUFFICES ASSUME NEW r \in Run, Begun(r)'
               PROVE  workDir'[r] # NoDir /\ metas'[r] = DOMAIN answer'[r]
    BY DEF BegunInv
  <1>1. workDir[r] # NoDir /\ metas[r] = DOMAIN answer[r]
    BY AttemptsKept DEF BegunInv, StartFinalize
  <1> QED
    BY <1>1, RunKept, Steps

\* A commit adds the whole answer of a run that the table has nothing of.
LEMMA AddFilesFacts ==
    ASSUME RunKeysApart, Typed, DirsInv, FilesInv, BegunInv, LogInv,
           NEW r \in Run, NEW n \in DOMAIN attempts[r], AddFiles(r, n)
    PROVE  \/ /\ log' = log /\ Paths(r) \subseteq PathsAt(attempts[r][n].version)
              /\ Advance(r, n, "returned", attempts[r][n].version)
           \/ /\ log' = Append(log, AnswerEntries(r)) /\ Paths(r) # {}
              /\ ~\E i \in DOMAIN log : Added(r, i)
              /\ Advance(r, n, "returned", attempts[r][n].version)
           \/ /\ log' = log /\ Paths(r) # {} /\ Paths(r) \cap PathsAt(attempts[r][n].version) = {}
              /\ Advance(r, n, "raised", attempts[r][n].version)
  <1> DEFINE version == attempts[r][n].version
             new == NewPaths(r, version)
  <1>0. Begun(r) /\ version \in 0..Len(log)
    BY AttemptsFacts DEF Begun
  <1> HIDE DEF version
  <1>1. ASSUME new = {}
        PROVE  log' = log /\ Advance(r, n, "returned", version)
    BY <1>1 DEF AddFiles, LogWith, version
  <1>2. ASSUME new # {}
        PROVE  \/ /\ AddFilesAccepts(new, version) /\ log' = LogWith(new)
                  /\ Advance(r, n, "returned", version)
               \/ /\ ~AddFilesAccepts(new, version) /\ log' = log
                  /\ Advance(r, n, "raised", version)
    BY <1>2 DEF AddFiles, version
  <1>3. CASE new = {} /\ Paths(r) \subseteq PathsAt(version)
    BY <1>1, <1>3 DEF version
  <1>4. CASE /\ ~\E i \in 1..version : Added(r, i)
             /\ new = Paths(r) /\ Paths(r) \cap PathsAt(version) = {}
    <2>1. CASE Paths(r) = {}
      BY <1>1, <1>4, <2>1 DEF version
    <2>2. CASE Paths(r) # {} /\ version # Len(log)
      BY <1>2, <1>4, <2>2 DEF AddFilesAccepts, version
    <2>3. CASE Paths(r) # {} /\ version = Len(log)
      <3>1. AddFilesAccepts(new, version) /\ log' = LogWith(new) /\ Advance(r, n, "returned", version)
        BY <1>2, <1>4, <2>3 DEF AddFilesAccepts
      <3>2. LogWith(new) = Append(log, AnswerEntries(r))
        BY <1>0, <1>4, <2>3, BegunFacts DEF LogWith
      <3>3. ~\E i \in DOMAIN log : Added(r, i)
        BY <1>4, <2>3, LogFacts
      <3> QED
        BY <2>3, <3>1, <3>2, <3>3 DEF version
    <2> QED
      BY <2>1, <2>2, <2>3
  <1> QED
    BY <1>0, <1>3, <1>4, AllOrNone

LEMMA LogStep ==
    ASSUME RunKeysApart, Typed, DirsInv, FilesInv, BegunInv, LogInv, [Next]_vars
    PROVE  \/ log' = log
           \/ \E r \in Run : /\ Begun(r) /\ Paths(r) # {} /\ log' = Append(log, AnswerEntries(r))
                             /\ \E n \in DOMAIN attempts[r] : AddFiles(r, n)
                             /\ ~\E i \in DOMAIN log : Added(r, i)
  BY LogSteps, AddFilesFacts DEF tableVars, CreateTable, Begun

\* What a version of the table referenced, it references for ever.
LEMMA LogGrows ==
    ASSUME RunKeysApart, Typed, DirsInv, FilesInv, BegunInv, LogInv, [Next]_vars
    PROVE  /\ log' \in Seq(SUBSET Entries) /\ Len(log') \in Nat /\ Len(log) <= Len(log')
           /\ \A i \in DOMAIN log : i \in DOMAIN log' /\ log'[i] = log[i]
           /\ \A version \in 0..Len(log) : PathsAt(version)' = PathsAt(version)
           /\ PathsAt(Len(log)) \subseteq PathsAt(Len(log))'
  <1>1. /\ log' \in Seq(SUBSET Entries) /\ Len(log') \in Nat /\ Len(log) <= Len(log')
        /\ \A i \in DOMAIN log : i \in DOMAIN log' /\ log'[i] = log[i]
    <2>1. CASE log' = log
      BY <2>1, LogFacts
    <2>2. ASSUME NEW r \in Run, Begun(r), log' = Append(log, AnswerEntries(r))
          PROVE  /\ log' \in Seq(SUBSET Entries) /\ Len(log') \in Nat /\ Len(log) <= Len(log')
                 /\ \A i \in DOMAIN log : i \in DOMAIN log' /\ log'[i] = log[i]
      <3>1. AnswerEntries(r) \in SUBSET Entries
        BY <2>2, EntriesTyped
      <3> QED
        BY <2>2, <3>1, LogFacts
    <2> QED
      BY <2>1, <2>2, LogStep
  <1>2. ASSUME NEW version \in 0..Len(log)
        PROVE  PathsAt(version)' = PathsAt(version)
    <2>1. \A i \in 1..version : log'[i] = log[i]
      BY <1>1, LogFacts
    <2>2. EntriesAt(version)' = EntriesAt(version)
      BY <2>1 DEF EntriesAt
    <2> QED
      BY <2>2 DEF PathsAt
  <1>3. PathsAt(Len(log)) \subseteq PathsAt(Len(log))'
    <2>1. \A i \in 1..Len(log) : i \in 1..Len(log') /\ log'[i] = log[i]
      BY <1>1, LogFacts
    <2>2. EntriesAt(Len(log)) \subseteq EntriesAt(Len(log))'
      BY <2>1 DEF EntriesAt
    <2> QED
      BY <2>2 DEF PathsAt
  <1> QED
    BY <1>1, <1>2, <1>3

LEMMA CreatedKept ==
    ASSUME [Next]_vars
    PROVE  created' = created \/ created' = TRUE
  BY LogSteps DEF tableVars, CreateTable, AddFiles

LEMMA LogKept ==
    ASSUME RunKeysApart, Typed, DirsInv, FilesInv, BegunInv, LogInv, TasksInv, [Next]_vars
    PROVE  LogInv'
  <1>1. ASSUME NEW r \in Run, NEW i \in DOMAIN log, Added(r, i)
        PROVE  Added(r, i)'
    BY <1>1, AnswerKept, LogGrows DEF Added
  <1>2. CASE log' = log
    <2>1. ~created' => log' = <<>>
      BY <1>2, CreatedKept DEF LogInv
    <2> QED
      BY <1>1, <1>2, <2>1 DEF LogInv
  <1>3. ASSUME NEW r \in Run, Begun(r), log' = Append(log, AnswerEntries(r)),
               NEW n \in DOMAIN attempts[r], AddFiles(r, n),
               ~\E i \in DOMAIN log : Added(r, i)
        PROVE  LogInv'
    <2>1. created' /\ created
      BY <1>3 DEF AddFiles, TasksInv, AttemptInv
    <2>0. PICK k \in Nat : k = Len(log) + 1
      BY LogFacts
    <2>2. /\ log'[k] = AnswerEntries(r) /\ DOMAIN log' = DOMAIN log \cup {k}
          /\ \A i \in DOMAIN log : log'[i] = log[i]
      BY <1>3, <2>0, EntriesTyped, LogFacts
    <2>3. Added(r, k)'
      <3>1. log'[k] = AnswerEntries(r)' /\ Begun(r)'
        BY <1>3, <2>2, AnswerKept
      <3> QED
        BY <3>1 DEF Added
    <2>4. \A i \in DOMAIN log : log[i] # AnswerEntries(r)
      BY <1>3 DEF Added
    <2>5. \A i \in DOMAIN log' : \E q \in Run : Added(q, i)'
      <3>1. \A i \in DOMAIN log : \E q \in Run : Added(q, i)'
        BY <1>1 DEF LogInv
      <3> QED
        BY <2>2, <2>3, <3>1
    <2>6. \A i, j \in DOMAIN log' : log'[i] = log'[j] => i = j
      BY <2>2, <2>4 DEF LogInv
    <2> QED
      BY <2>1, <2>5, <2>6 DEF LogInv
  <1> QED
    BY <1>2, <1>3, LogStep

\* An attempt is as it was, has just begun, or has taken a step.
LEMMA AttemptSteps ==
    ASSUME Typed, [Next]_vars, NEW r \in Run, NEW n \in DOMAIN attempts'[r]
    PROVE  \/ /\ n \in DOMAIN attempts[r]
              /\ attempts'[r][n].pc = attempts[r][n].pc
              /\ attempts'[r][n].version = attempts[r][n].version
           \/ attempts'[r][n].pc = "load" /\ attempts'[r][n].version = 0
           \/ n \in DOMAIN attempts[r] /\ Step(r, n)
  <1>1. CASE UNCHANGED attempts
    BY <1>1
  <1>2. ASSUME NEW q \in Run, StartFinalize(q)
        PROVE  \/ n \in DOMAIN attempts[r] /\ attempts'[r][n] = attempts[r][n]
               \/ attempts'[r][n].pc = "load" /\ attempts'[r][n].version = 0
    BY <1>2, StartFacts
  <1>3. ASSUME NEW q \in Run, GiveUp(q)
        PROVE  /\ n \in DOMAIN attempts[r]
               /\ attempts'[r][n].pc = attempts[r][n].pc
               /\ attempts'[r][n].version = attempts[r][n].version
    BY <1>3, LostFacts
  <1>4. ASSUME NEW q \in Run, NEW m \in DOMAIN attempts[q], Step(q, m)
        PROVE  \/ n \in DOMAIN attempts[r] /\ attempts'[r][n] = attempts[r][n]
               \/ n \in DOMAIN attempts[r] /\ Step(r, n)
    <2>1. attempts[q][m].version \in Nat /\ Len(log) \in Nat
      BY AttemptsFacts, LogFacts
    <2>2. \E pc \in {"load", "create", "add", "returned", "raised"}, v \in Nat : Advance(q, m, pc, v)
      <3>1. CASE LoadTable(q, m)
        BY <2>1, <3>1 DEF LoadTable
      <3>2. CASE CreateTable(q, m)
        <4>1. \E pc \in {"load", "create", "add", "returned", "raised"} : Advance(q, m, pc, 0)
          BY <3>2 DEF CreateTable
        <4> QED
          BY <4>1
      <3>3. CASE AddFiles(q, m)
        <4>1. \E pc \in {"load", "create", "add", "returned", "raised"} :
                  Advance(q, m, pc, attempts[q][m].version)
          BY <3>3 DEF AddFiles
        <4> QED
          BY <2>1, <4>1
      <3> QED
        BY <1>4, <3>1, <3>2, <3>3 DEF Step
    <2>3. n \in DOMAIN attempts[r] /\ (attempts'[r][n] = attempts[r][n] \/ (q = r /\ m = n))
      BY <2>2, AdvanceFacts
    <2> QED
      BY <1>4, <2>3
  <1>5. ASSUME NEW q \in Run, RecordSuccess(q) \/ RecordFailure(q)
        PROVE  UNCHANGED attempts
    BY <1>5 DEF RecordSuccess, RecordFailure
  <1> QED
    BY <1>1, <1>2, <1>3, <1>4, <1>5, Steps DEF taskVars

\* What a step of finalize leaves of its attempt.
LEMMA StepResult ==
    ASSUME RunKeysApart, Typed, DirsInv, FilesInv, BegunInv, LogInv, TasksInv, [Next]_vars,
           NEW r \in Run, NEW n \in DOMAIN attempts[r], Step(r, n)
    PROVE  /\ attempts'[r][n].version \in 0..Len(log)
           /\ AttemptInv(r, attempts[r][n])'
  <1> DEFINE a == attempts[r][n]
             b == attempts'[r][n]
  <1>0. /\ a.version \in 0..Len(log) /\ 0 \in 0..Len(log) /\ Len(log) \in 0..Len(log)
        /\ a \in Attempt /\ Begun(r) /\ AttemptInv(r, a)
    BY AttemptsFacts, LogFacts DEF Begun, TasksInv
  <1>1. ASSUME NEW pc \in {"load", "create", "add", "returned", "raised"},
               NEW version \in 0..Len(log), Advance(r, n, pc, version)
        PROVE  b.pc = pc /\ b.version = version
    <2>1. version \in Nat
      BY LogFacts
    <2> QED
      BY <1>1, <2>1, AdvanceFacts
  <1>2. /\ Paths(r)' = Paths(r)
        /\ \A version \in 0..Len(log) : PathsAt(version)' = PathsAt(version)
        /\ PathsAt(Len(log)) \subseteq PathsAt(Len(log))'
    BY <1>0, AnswerKept, LogGrows
  <1>3. PathsAt(0) = {}
    BY PathsAtIs
  <1>4. \A version \in 0..Len(log) : PathsAt(version) \subseteq PathsAt(Len(log))
    <2>1. ASSUME NEW version \in 0..Len(log), NEW path \in PathsAt(version)
          PROVE  path \in PathsAt(Len(log))
      <3>1. 1..version \subseteq 1..Len(log)
        BY LogFacts
      <3> QED
        BY <2>1, <3>1, PathsAtIs
    <2> QED
      BY <2>1
  <1>5. SUFFICES /\ b.version \in 0..Len(log)
                 /\ b.pc \in {"load", "create"} => b.version = 0
                 /\ b.pc = "create" => Paths(r) # {}
                 /\ b.pc = "add" => created'
                 /\ b.pc = "returned" => Paths(r) \subseteq PathsAt(Len(log))'
                 /\ b.pc = "raised" /\ Paths(r) # {} => ~(Paths(r) \subseteq PathsAt(b.version))
    <2>1. ASSUME b.version \in 0..Len(log)
          PROVE  PathsAt(attempts[r][n].version)' = PathsAt(b.version)
      <3>1. PICK version \in 0..Len(log) : version = b.version
        BY <2>1
      <3>2. PathsAt(version)' = PathsAt(version)
        BY <1>2
      <3> QED
        BY <3>1, <3>2
    <2> QED
      BY <1>2, <2>1 DEF AttemptInv
  <1>6. CASE LoadTable(r, n)
    <2>1. CASE created
      <3>1. Advance(r, n, "add", Len(log)) /\ created'
        BY <1>6, <2>1 DEF LoadTable, tableVars
      <3> QED
        BY <1>0, <1>1, <3>1
    <2>2. CASE ~created /\ Paths(r) = {}
      <3>1. Advance(r, n, "raised", 0)
        BY <1>6, <2>2 DEF LoadTable
      <3> QED
        BY <1>0, <1>1, <2>2, <3>1
    <2>3. CASE ~created /\ Paths(r) # {}
      <3>1. Advance(r, n, "create", 0)
        BY <1>6, <2>3 DEF LoadTable
      <3> QED
        BY <1>0, <1>1, <2>3, <3>1
    <2> QED
      BY <2>1, <2>2, <2>3
  <1>7. CASE CreateTable(r, n)
    <2>1. (Advance(r, n, "raised", 0) \/ Advance(r, n, "add", 0)) /\ created'
      BY <1>7 DEF CreateTable
    <2> QED
      BY <1>0, <1>1, <1>3, <2>1
  <1>8. CASE AddFiles(r, n)
    <2>1. CASE log' = log /\ Paths(r) \subseteq PathsAt(a.version) /\ Advance(r, n, "returned", a.version)
      BY <1>0, <1>1, <1>2, <1>4, <2>1
    <2>2. CASE log' = Append(log, AnswerEntries(r)) /\ Advance(r, n, "returned", a.version)
      <3>1. Len(log)' \in 1..Len(log)' /\ log'[Len(log)'] = AnswerEntries(r)
        BY <1>0, <2>2, EntriesTyped, LogFacts
      <3>2. Paths(r) = {e.path : e \in AnswerEntries(r)}
        BY <1>0, BegunFacts
      <3>3. Paths(r) \subseteq PathsAt(Len(log))'
        BY <3>1, <3>2 DEF PathsAt, EntriesAt
      <3> QED
        BY <1>0, <1>1, <2>2, <3>3
    <2>3. CASE /\ Paths(r) # {} /\ Paths(r) \cap PathsAt(a.version) = {}
               /\ Advance(r, n, "raised", a.version)
      BY <1>0, <1>1, <2>3
    <2> QED
      BY <1>8, <2>1, <2>2, <2>3, AddFilesFacts
  <1> QED
    BY <1>6, <1>7, <1>8 DEF Step

LEMMA TasksKept ==
    ASSUME RunKeysApart, Typed, DirsInv, FilesInv, BegunInv, LogInv, TasksInv, [Next]_vars
    PROVE  TasksInv'
  <1>1. ASSUME NEW r \in Run, NEW n \in DOMAIN attempts'[r]
        PROVE  AttemptInv(r, attempts[r][n])'
    <2> DEFINE b == attempts'[r][n]
    <2>1. CASE /\ n \in DOMAIN attempts[r]
               /\ b.pc = attempts[r][n].pc /\ b.version = attempts[r][n].version
      <3>1. /\ AttemptInv(r, attempts[r][n]) /\ Begun(r)
            /\ b.version \in 0..Len(log)
        BY <2>1, AttemptsFacts DEF TasksInv, Begun
      <3>2. PICK version \in 0..Len(log) : version = b.version
        BY <3>1
      <3>3. /\ Paths(r)' = Paths(r) /\ PathsAt(version)' = PathsAt(version)
            /\ PathsAt(Len(log)) \subseteq PathsAt(Len(log))'
        BY <3>1, AnswerKept, LogGrows
      <3>4. PathsAt(attempts[r][n].version)' = PathsAt(attempts[r][n].version)
        BY <2>1, <3>2, <3>3
      <3> QED
        BY <2>1, <3>1, <3>3, <3>4, CreatedKept DEF AttemptInv
    <2>2. CASE b.pc = "load" /\ b.version = 0
      BY <2>2 DEF AttemptInv
    <2>3. CASE n \in DOMAIN attempts[r] /\ Step(r, n)
      BY <2>3, StepResult
    <2> QED
      BY <2>1, <2>2, <2>3, AttemptSteps
  <1>2. ASSUME NEW r \in Run, ti'[r] = "success"
        PROVE  Begun(r)' /\ Paths(r)' \subseteq PathsAt(Len(log))'
    <2>1. Begun(r) /\ Paths(r) \subseteq PathsAt(Len(log))
      <3>1. CASE ti[r] = "success"
        BY <3>1 DEF TasksInv
      <3>2. CASE ti[r] # "success"
        <4>1. RecordSuccess(r)
          <5>1. ASSUME NEW q \in Run, RecordSuccess(q) \/ RecordFailure(q)
                PROVE  q = r /\ RecordSuccess(q)
            BY <1>2, <3>2, <5>1 DEF RecordSuccess, RecordFailure, Typed, TypeOK
          <5>2. ASSUME NEW q \in Run,
                       StartFinalize(q) \/ GiveUp(q) \/ \E n \in DOMAIN attempts[q] : Step(q, n)
                PROVE  FALSE
            BY <1>2, <3>2, <5>2, StepKeeps DEF StartFinalize, GiveUp
          <5> QED
            BY <1>2, <3>2, <5>1, <5>2, Steps DEF taskVars
        <4> QED
          BY <4>1 DEF RecordSuccess, TasksInv, AttemptInv, Begun
      <3> QED
        BY <3>1, <3>2
    <2> QED
      BY <2>1, AnswerKept, LogGrows
  <1> QED
    BY <1>1, <1>2 DEF TasksInv

LEMMA TypedKept ==
    ASSUME RunKeysApart, Typed, DirsInv, FilesInv, BegunInv, LogInv, TasksInv, FilesInv', [Next]_vars
    PROVE  Typed'
  <1>0. answer' = answer /\ \A r \in Run : answer[r] \in Answers[r]
    BY Steps DEF Typed, TypeOK
  <1>1. /\ metas' \in [Run -> SUBSET Nat]
        /\ \A r \in Run : metas'[r] \subseteq DOMAIN answer'[r]
        /\ workDir' \in [Run -> AllDirs \cup {NoDir}]
    <2>1. CASE UNCHANGED <<workDir, metas>>
      BY <1>0, <2>1 DEF Typed, TypeOK
    <2>2. ASSUME NEW r \in Run, MakeWorkDir(r)
          PROVE  /\ metas' \in [Run -> SUBSET Nat]
                 /\ \A q \in Run : metas'[q] \subseteq DOMAIN answer'[q]
                 /\ workDir' \in [Run -> AllDirs \cup {NoDir}]
      <3>1. PICK dir \in MintedWorkDirs(r, {workDir[q] : q \in Run}) :
                workDir' = [workDir EXCEPT ![r] = dir]
        BY <2>2 DEF MakeWorkDir
      <3>2. dir \in AllDirs /\ metas' = metas
        BY <2>2, DirFacts DEF MakeWorkDir
      <3> QED
        BY <1>0, <3>1, <3>2 DEF Typed, TypeOK
    <2>3. ASSUME NEW r \in Run, NEW p \in DOMAIN answer[r], Write(r, p) \/ LateWrite(r, p)
          PROVE  /\ metas' \in [Run -> SUBSET Nat]
                 /\ \A q \in Run : metas'[q] \subseteq DOMAIN answer'[q]
                 /\ workDir' \in [Run -> AllDirs \cup {NoDir}]
      <3>0. metas \in [Run -> SUBSET Nat] /\ \A q \in Run : metas[q] \subseteq DOMAIN answer[q]
        BY DEF Typed, TypeOK
      <3>1. /\ workDir' = workDir /\ p \in Nat
            /\ metas' = metas \/ metas' = [metas EXCEPT ![r] = metas[r] \cup {p}]
        BY <2>3, AnswerFacts DEF Write, LateWrite
      <3>2. \A q \in Run : metas'[q] = metas[q] \/ (q = r /\ metas'[q] = metas[q] \cup {p})
        BY <3>0, <3>1
      <3>3. metas' \in [Run -> SUBSET Nat] /\ \A q \in Run : metas'[q] \subseteq DOMAIN answer'[q]
        BY <1>0, <3>0, <3>1, <3>2
      <3> QED
        BY <3>1, <3>3 DEF Typed
    <2> QED
      BY <2>1, <2>2, <2>3, Steps
  <1>2. ASSUME NEW path \in DOMAIN staged'
        PROVE  staged'[path] \subseteq Row
    <2>1. PICK r \in Run : \E p \in DOMAIN answer'[r] : staged'[path] = answer'[r][p]
      BY <1>2 DEF FilesInv
    <2> QED
      BY <1>0, <2>1, AnswerFacts
  <1>3. created' \in BOOLEAN
    BY CreatedKept DEF Typed, TypeOK
  <1>4. ASSUME NEW i \in DOMAIN log'
        PROVE  log'[i] # {} /\ \A e \in log'[i] : e.path \in DOMAIN staged'
    <2>1. CASE i \in DOMAIN log
      BY <2>1, LogGrows, RunKept DEF Typed, TypeOK
    <2>2. ASSUME NEW r \in Run, Begun(r), Paths(r) # {}, log' = Append(log, AnswerEntries(r)),
                 i \notin DOMAIN log
          PROVE  log'[i] # {} /\ \A e \in log'[i] : e.path \in DOMAIN staged'
      <3>1. log'[i] = AnswerEntries(r)
        BY <1>4, <2>2, EntriesTyped, LogFacts
      <3> QED
        BY <2>2, <3>1, BegunFacts, RunKept
    <2> QED
      BY <1>4, <2>1, <2>2, LogStep
  <1>5. ASSUME NEW r \in Run, NEW n \in DOMAIN attempts'[r]
        PROVE  attempts'[r][n].version <= Len(log')
    <2>1. attempts'[r][n].version \in 0..Len(log)
      BY AttemptSteps, AttemptsFacts, StepResult, LogFacts
    <2> QED
      BY <2>1, LogGrows, LogFacts
  <1>6. ti' \in [Run -> {"none", "success", "failed"}] /\ deaths' \in 0..MaxDeaths
    <2>0. /\ ti \in [Run -> {"none", "success", "failed"}] /\ deaths \in 0..MaxDeaths
          /\ MaxDeaths \in Nat
      BY IcebergAssumption DEF Typed, TypeOK
    <2>1. ASSUME NEW r \in Run,
                 StartFinalize(r) \/ RecordSuccess(r) \/ RecordFailure(r) \/ GiveUp(r)
          PROVE  ti' \in [Run -> {"none", "success", "failed"}] /\ deaths' \in 0..MaxDeaths
      <3>1. CASE StartFinalize(r)
        BY <2>0, <3>1 DEF StartFinalize
      <3>2. CASE RecordSuccess(r) \/ RecordFailure(r)
        BY <2>0, <3>2 DEF RecordSuccess, RecordFailure
      <3>3. CASE GiveUp(r)
        <4>1. ti' = ti /\ deaths < MaxDeaths /\ deaths' = deaths + 1
          BY <3>3 DEF GiveUp
        <4> QED
          BY <2>0, <4>1
      <3> QED
        BY <2>1, <3>1, <3>2, <3>3
    <2>2. ASSUME UNCHANGED <<ti, deaths>>
          PROVE  ti' \in [Run -> {"none", "success", "failed"}] /\ deaths' \in 0..MaxDeaths
      BY <2>2 DEF Typed, TypeOK
    <2> QED
      BY <2>1, <2>2, Steps, StepKeeps DEF taskVars
  <1>7. late' \in 0..MaxLate
    <2>1. ASSUME NEW r \in Run, NEW p \in DOMAIN answer[r], LateWrite(r, p)
          PROVE  late' \in 0..MaxLate
      BY <2>1, IcebergAssumption DEF Typed, TypeOK, LateWrite
    <2>2. late' = late \/ \E r \in Run : \E p \in DOMAIN answer[r] : LateWrite(r, p)
      BY StepKeeps DEF Next, vars, MakeWorkDir, Write, StartFinalize, RecordSuccess, RecordFailure, GiveUp
    <2> QED
      BY <2>1, <2>2 DEF Typed, TypeOK
  <1>8. attempts' \in [Run -> Seq(Attempt)] /\ log' \in Seq(SUBSET Entries)
    BY AttemptsKept, LogGrows
  <1>9. TypeOK'
    BY <1>0, <1>1, <1>2, <1>3, <1>4, <1>5, <1>6, <1>7, <1>8 DEF TypeOK
  <1> QED
    BY <1>0, <1>1, <1>8, <1>9 DEF Typed

-----------------------------------------------------------------------------
(* The theorems *)

\* Run keys tell runs apart exactly when no two runs of DAGs with a work_dir_base
\* have run_ids that _mint_work_dir makes the same: run_key drops the directory
\* of the DAG, and a temporary directory's name is never that of a run.
THEOREM RunKeysApartExactly ==
    RunKeysApart <=>
        \A r, q \in Run :
            /\ DagOf[r] \in BaseGiven /\ DagOf[q] \in BaseGiven
            /\ SafeRunId[RunIdOf[r]] = SafeRunId[RunIdOf[q]]
            => r = q
  <1> DEFINE Base(r) == <<<<DagOf[r]>>, <<SafeRunId[RunIdOf[r]]>>>>
             Temp(r, x) == <<<<DagOf[r], x>>>>
  <1>1. \A r \in Run : DagOf[r] \in BaseGiven => MintedWorkDirs(r, {}) = {Base(r)}
    BY DEF MintedWorkDirs
  <1>2. \A r \in Run : DagOf[r] \notin BaseGiven => MintedWorkDirs(r, {}) = {Temp(r, x) : x \in Suffix}
    BY DEF MintedWorkDirs
  <1>3. \A r : RunKey(Base(r)) = <<SafeRunId[RunIdOf[r]]>>
    BY DEF RunKey
  <1>4. \A r, x : RunKey(Temp(r, x)) = <<DagOf[r], x>>
    BY DEF RunKey
  <1>5. ASSUME RunKeysApart, NEW r \in Run, NEW q \in Run,
               DagOf[r] \in BaseGiven, DagOf[q] \in BaseGiven,
               SafeRunId[RunIdOf[r]] = SafeRunId[RunIdOf[q]]
        PROVE  r = q
    <2>1. Base(r) \in MintedWorkDirs(r, {}) /\ Base(q) \in MintedWorkDirs(q, {})
      BY <1>1, <1>5
    <2>2. RunKey(Base(r)) = RunKey(Base(q))
      BY <1>3, <1>5
    <2> HIDE DEF Base
    <2> QED
      BY <1>5, <2>1, <2>2 DEF RunKeysApart
  <1>6. ASSUME \A r, q \in Run :
                   /\ DagOf[r] \in BaseGiven /\ DagOf[q] \in BaseGiven
                   /\ SafeRunId[RunIdOf[r]] = SafeRunId[RunIdOf[q]]
                   => r = q,
               NEW r \in Run, NEW q \in Run,
               NEW d \in MintedWorkDirs(r, {}), NEW e \in MintedWorkDirs(q, {}),
               RunKey(d) = RunKey(e)
        PROVE  d = e /\ (r = q \/ (DagOf[r] \notin BaseGiven /\ DagOf[q] \notin BaseGiven))
    <2>1. CASE DagOf[r] \in BaseGiven /\ DagOf[q] \in BaseGiven
      <3>1. d = Base(r) /\ e = Base(q)
        BY <1>1, <2>1
      <3>2. SafeRunId[RunIdOf[r]] = SafeRunId[RunIdOf[q]]
        BY <1>3, <1>6, <3>1
      <3> QED
        BY <1>6, <2>1, <3>1, <3>2
    <2>2. CASE DagOf[r] \notin BaseGiven /\ DagOf[q] \notin BaseGiven
      <3>1. PICK x \in Suffix : d = Temp(r, x)
        BY <1>2, <2>2
      <3>2. PICK y \in Suffix : e = Temp(q, y)
        BY <1>2, <2>2
      <3>3. DagOf[r] = DagOf[q] /\ x = y
        <4>1. <<DagOf[r], x>> = <<DagOf[q], y>>
          BY <1>4, <1>6, <3>1, <3>2
        <4> HIDE DEF Temp, Base
        <4> QED
          BY <4>1
      <3> QED
        BY <2>2, <3>1, <3>2, <3>3
    <2>3. ASSUME NEW a \in Run, NEW b \in Run, NEW x
          PROVE  RunKey(Base(a)) # RunKey(Temp(b, x))
      <3>1. Len(RunKey(Base(a))) = 1 /\ Len(RunKey(Temp(b, x))) = 2
        BY <1>3, <1>4
      <3> QED
        BY <3>1
    <2>4. CASE DagOf[r] \in BaseGiven /\ DagOf[q] \notin BaseGiven
      <3>1. d = Base(r) /\ \E x \in Suffix : e = Temp(q, x)
        BY <1>1, <1>2, <2>4
      <3> QED
        BY <1>6, <2>3, <3>1
    <2>5. CASE DagOf[r] \notin BaseGiven /\ DagOf[q] \in BaseGiven
      <3>1. e = Base(q) /\ \E x \in Suffix : d = Temp(r, x)
        BY <1>1, <1>2, <2>5
      <3> QED
        BY <1>6, <2>3, <3>1
    <2> QED
      BY <2>1, <2>2, <2>4, <2>5
  <1> QED
    BY <1>5, <1>6 DEF RunKeysApart

LEMMA InitIInv ==
    ASSUME Init
    PROVE  IInv
  <1>1. Typed
    <2>1. \A r \in Run : answer[r] \in Answers[r]
      BY DEF Init
    <2>2. answer \in [Run -> UNION {Answers[r] : r \in Run}]
      BY DEF Init
    <2>3. /\ workDir \in [Run -> AllDirs \cup {NoDir}] /\ metas \in [Run -> SUBSET Nat]
          /\ \A r \in Run : metas[r] = {}
      BY DEF Init
    <2>4. DOMAIN staged = {} /\ created \in BOOLEAN
      BY DEF Init
    <2>5. log \in Seq(SUBSET Entries) /\ DOMAIN log = {}
      BY DEF Init
    <2>6. attempts \in [Run -> Seq(Attempt)] /\ \A r \in Run : DOMAIN attempts[r] = {}
      BY DEF Init
    <2>7. /\ ti \in [Run -> {"none", "success", "failed"}]
          /\ late \in 0..MaxLate /\ deaths \in 0..MaxDeaths
      BY IcebergAssumption DEF Init
    <2> QED
      BY <2>1, <2>2, <2>3, <2>4, <2>5, <2>6, <2>7 DEF Typed, TypeOK
  <1>2. DirsInv
    BY DEF Init, DirsInv
  <1>3. FilesInv
    BY DEF Init, FilesInv
  <1>4. BegunInv /\ TasksInv
    <2>1. \A r \in Run : attempts[r] = <<>> /\ ti[r] = "none"
      BY DEF Init
    <2> QED
      BY <2>1 DEF BegunInv, TasksInv, Begun
  <1>5. LogInv
    BY DEF Init, LogInv
  <1> QED
    BY <1>1, <1>2, <1>3, <1>4, <1>5 DEF IInv

LEMMA IInvKept ==
    ASSUME RunKeysApart, IInv, [Next]_vars
    PROVE  IInv'
  <1>1. FilesInv'
    BY FilesKept DEF IInv
  <1> QED
    BY <1>1, TypedKept, DirsKept, BegunKept, LogKept, TasksKept DEF IInv

LEMMA IInvHolds ==
    ASSUME RunKeysApart
    PROVE  Spec => []IInv
  <1>1. Init => IInv
    BY InitIInv
  <1>2. IInv /\ [Next]_vars => IInv'
    BY IInvKept
  <1> QED
    BY <1>1, <1>2, PTL DEF Spec

\* Whatever the runs, their answers, the tries and the attempts given up on,
\* every variable of the Iceberg sink keeps its type, if run keys tell runs apart.
THEOREM IcebergTypeCorrect == RunKeysApart => (Spec => []TypeOK)
  <1> SUFFICES ASSUME RunKeysApart
               PROVE  Spec => []TypeOK
    OBVIOUS
  <1>1. IInv => TypeOK
    BY DEF IInv, Typed
  <1> QED
    BY <1>1, IInvHolds, PTL

LEMMA EntriesDescribe ==
    ASSUME RunKeysApart, IInv, NEW i \in DOMAIN log, NEW e \in log[i]
    PROVE  staged[e.path] = e.stats
  BY BegunFacts DEF IInv, LogInv, Added

\* If run keys tell runs apart, no late write of an abandoned attempt and no
\* other run changes a data file that the table references.
THEOREM IcebergMetadataDescribesFiles == RunKeysApart => (Spec => []MetadataDescribesFiles)
  <1> SUFFICES ASSUME RunKeysApart
               PROVE  Spec => []MetadataDescribesFiles
    OBVIOUS
  <1>1. IInv => MetadataDescribesFiles
    <2> SUFFICES ASSUME IInv, NEW e \in EntriesAt(Len(log))
                 PROVE  staged[e.path] = e.stats
      BY DEF MetadataDescribesFiles
    <2>1. PICK i \in 1..Len(log) : e \in log[i]
      BY DEF EntriesAt
    <2> QED
      BY <2>1, EntriesDescribe, LogFacts DEF IInv
  <1> QED
    BY <1>1, IInvHolds, PTL

\* If run keys tell runs apart, a finalize that Airflow reports successful has
\* left every partition of the answer that has rows in the table.
THEOREM IcebergSuccessMeansCommitted == RunKeysApart => (Spec => []SuccessMeansCommitted)
  <1> SUFFICES ASSUME RunKeysApart
               PROVE  Spec => []SuccessMeansCommitted
    OBVIOUS
  <1>1. IInv => SuccessMeansCommitted
    <2> SUFFICES ASSUME IInv, NEW r \in Run, ti[r] = "success",
                        NEW p \in DOMAIN answer[r], answer[r][p] # {}
                 PROVE  [path |-> DataFile(r, p), stats |-> answer[r][p]] \in EntriesAt(Len(log))
      BY DEF SuccessMeansCommitted
    <2>1. /\ Begun(r) /\ workDir[r] # NoDir /\ metas[r] = DOMAIN answer[r]
          /\ Paths(r) \subseteq PathsAt(Len(log))
      BY DEF IInv, TasksInv, BegunInv
    <2>2. DataFile(r, p) \in PathsAt(Len(log))
      BY <2>1 DEF Paths
    <2>3. PICK i \in 1..Len(log) : \E e \in log[i] : DataFile(r, p) = e.path
      BY <2>2, PathsAtIs
    <2>4. i \in DOMAIN log /\ InStagingDir(r, DataFile(r, p))
      BY LogFacts, DataFileFacts DEF IInv
    <2>5. log[i] = AnswerEntries(r)
      BY <2>1, <2>3, <2>4, OwnerOf DEF IInv, Added
    <2>6. [path |-> DataFile(r, p), stats |-> answer[r][p]] \in log[i]
      BY <2>5 DEF AnswerEntries
    <2> QED
      BY <2>6 DEF EntriesAt
  <1> QED
    BY <1>1, IInvHolds, PTL

\* If run keys tell runs apart, an attempt of finalize fails only if the table
\* it loaded lacked some file of its run: the next attempt converges.
THEOREM IcebergRetryConverges == RunKeysApart => (Spec => []RetryConverges)
  <1> SUFFICES ASSUME RunKeysApart
               PROVE  Spec => []RetryConverges
    OBVIOUS
  <1>1. IInv => RetryConverges
    BY DEF IInv, TasksInv, AttemptInv, RetryConverges
  <1> QED
    BY <1>1, IInvHolds, PTL

-----------------------------------------------------------------------------
(* The table is a sequence of whole answers *)

AppendedRuns == {r \in Run : Committed(r)}
Adders == {r \in Run : \E i \in DOMAIN log : Added(r, i)}

PairsOf(entries) == {<<e.path[2], e.stats>> : e \in entries}

SnapshotPairs == [i \in DOMAIN log |-> {<<e.path[2], staged[e.path]>> : e \in log[i]}]
LogPairs      == [i \in DOMAIN log |-> PairsOf(log[i])]

OneAdder == \A i \in DOMAIN log : \A r, q \in Run : Added(r, i) /\ Added(q, i) => r = q

AppendedInv == IInv /\ OneAdder /\ AppendedRuns = Adders /\ SnapshotPairs = LogPairs

LEMMA AppendedAreAdders ==
    ASSUME RunKeysApart, IInv
    PROVE  AppendedInv
  <1>1. ASSUME NEW r \in Run, Committed(r)
        PROVE  \E i \in DOMAIN log : Added(r, i)
    <2>1. PICK path \in PathsAt(Len(log)) : InStagingDir(r, path)
      BY <1>1 DEF Committed, CommittedPaths
    <2>2. PICK i \in 1..Len(log) : \E e \in log[i] : path = e.path
      BY PathsAtIs
    <2>3. i \in DOMAIN log /\ workDir[r] # NoDir
      BY <1>1, LogFacts DEF IInv, Committed
    <2> QED
      BY <2>1, <2>2, <2>3, OwnerOf DEF IInv
  <1>2. ASSUME NEW r \in Run, NEW i \in DOMAIN log, Added(r, i)
        PROVE  Committed(r)
    <2>1. PICK e \in log[i] : InStagingDir(r, e.path)
      <3>1. log[i] # {}
        BY LogFacts DEF IInv
      <3> QED
        BY <1>2, <3>1, BegunFacts DEF IInv, Added
    <2>2. i \in 1..Len(log) /\ workDir[r] # NoDir
      BY <1>2, LogFacts DEF IInv, BegunInv, Added
    <2>3. e.path \in PathsAt(Len(log))
      BY <2>1, <2>2, PathsAtIs
    <2> QED
      BY <2>1, <2>2, <2>3 DEF Committed, CommittedPaths
  <1>3. AppendedRuns = Adders
    BY <1>1, <1>2 DEF AppendedRuns, Adders
  <1>4. \A i \in DOMAIN log : {<<e.path[2], staged[e.path]>> : e \in log[i]} = PairsOf(log[i])
    BY EntriesDescribe DEF PairsOf
  <1>5. ASSUME NEW i \in DOMAIN log, NEW r \in Run, NEW q \in Run, Added(r, i), Added(q, i)
        PROVE  r = q
    <2>1. PICK e \in log[i] : InStagingDir(r, e.path) /\ InStagingDir(q, e.path)
      <3>1. log[i] # {}
        BY LogFacts DEF IInv
      <3> QED
        BY <1>5, <3>1, BegunFacts DEF IInv, Added
    <2> QED
      BY <1>5, <2>1, KeysOfRunsApart DEF IInv, BegunInv, Added, InStagingDir
  <1> QED
    BY <1>3, <1>4, <1>5 DEF AppendedInv, OneAdder, SnapshotPairs, LogPairs

LEMMA PairsOfAnswer ==
    ASSUME NEW r \in Run
    PROVE  PairsOf(AnswerEntries(r)) = Appends!FilesOf(r)
  <1> DEFINE Full == {q \in DOMAIN answer[r] : answer[r][q] # {}}
             E(p) == [path |-> DataFile(r, p), stats |-> answer[r][p]]
  <1>1. AnswerEntries(r) = {E(p) : p \in Full}
    BY DEF AnswerEntries
  <1>2. \A p : E(p).path[2] = p /\ E(p).stats = answer[r][p]
    BY DataFileFacts
  <1>3. Appends!FilesOf(r) = {<<p, answer[r][p]>> : p \in Full}
    BY DEF Appends!FilesOf
  <1> HIDE DEF Full, E
  <1> QED
    BY <1>1, <1>2, <1>3 DEF PairsOf

\* A commit is the append of its run's answer, and every other step a stutter.
LEMMA AppendStep ==
    ASSUME RunKeysApart, AppendedInv, AppendedInv', [Next]_vars
    PROVE  [Appends!Next]_(Appends!vars)
  <1>0. /\ IInv /\ AppendedRuns = Adders /\ SnapshotPairs = LogPairs
        /\ OneAdder' /\ AppendedRuns' = Adders' /\ SnapshotPairs' = LogPairs'
        /\ answer' = answer
    BY Steps DEF AppendedInv
  <1>1. ASSUME NEW r \in Run, NEW i \in DOMAIN log
        PROVE  Added(r, i)' <=> Added(r, i)
    <2>1. \A q \in Run : Added(q, i) => Added(q, i)'
      BY <1>0, AnswerKept, LogGrows DEF Added, IInv
    <2>2. PICK q \in Run : Added(q, i)
      BY <1>0 DEF IInv, LogInv
    <2>3. i \in DOMAIN log'
      BY <1>0, LogGrows DEF IInv
    <2> QED
      BY <1>0, <2>1, <2>2, <2>3 DEF OneAdder
  <1>2. CASE log' = log
    <2>1. Adders' = Adders /\ LogPairs' = LogPairs
      BY <1>1, <1>2 DEF Adders, LogPairs, PairsOf
    <2> QED
      BY <1>0, <2>1 DEF Appends!vars, AppendedRuns, SnapshotPairs
  <1>3. ASSUME NEW r \in Run, Begun(r), Paths(r) # {}, log' = Append(log, AnswerEntries(r)),
               ~\E i \in DOMAIN log : Added(r, i)
        PROVE  Appends!AppendAnswer(r)
    <2>0. PICK k \in Nat : k = Len(log) + 1
      BY <1>0, LogFacts DEF IInv
    <2>1. /\ log'[k] = AnswerEntries(r) /\ DOMAIN log' = DOMAIN log \cup {k} /\ k \notin DOMAIN log
          /\ \A i \in DOMAIN log : log'[i] = log[i]
          /\ DOMAIN log = 1..Len(log) /\ Len(log) \in Nat
      BY <1>0, <1>3, <2>0, EntriesTyped, LogFacts DEF IInv
    <2>2. Added(r, k)'
      BY <1>0, <1>3, <2>1, AnswerKept DEF Added, IInv
    <2>3. \A q \in Run : Added(q, k)' => q = r
      BY <1>0, <2>1, <2>2 DEF OneAdder
    <2>4. Adders' = Adders \cup {r} /\ r \notin Adders
      BY <1>1, <1>3, <2>1, <2>2, <2>3 DEF Adders
    <2>5. LogPairs' = Append(LogPairs, PairsOf(AnswerEntries(r)))
      <3>1. Len(LogPairs) = Len(log) /\ DOMAIN LogPairs = DOMAIN log
        BY <2>1 DEF LogPairs
      <3> QED
        BY <2>0, <2>1, <3>1 DEF LogPairs
    <2>6. Appends!FilesOf(r) # {}
      <3>1. AnswerEntries(r) # {}
        BY <1>0, <1>3, BegunFacts DEF IInv
      <3>2. PairsOf(AnswerEntries(r)) # {}
        BY <3>1 DEF PairsOf
      <3> QED
        BY <3>2, PairsOfAnswer
    <2> QED
      BY <1>0, <2>4, <2>5, <2>6, PairsOfAnswer DEF Appends!AppendAnswer, AppendedRuns, SnapshotPairs
  <1> QED
    BY <1>0, <1>2, <1>3, LogStep DEF Appends!Next, IInv

\* If run keys tell runs apart, the table that the Iceberg sink writes is one
\* to which each run appends its whole answer, once at most.
THEOREM IcebergImplementsAppends == RunKeysApart => (Spec => RefinesTableAppends)
  <1> SUFFICES ASSUME RunKeysApart
               PROVE  Spec => RefinesTableAppends
    OBVIOUS
  <1>1. Init => Appends!Init
    <2> SUFFICES ASSUME Init
                 PROVE  AppendedRuns = {} /\ SnapshotPairs = <<>>
      BY DEF Appends!Init, AppendedRuns, SnapshotPairs
    <2>1. \A r \in Run : ~Committed(r)
      BY DEF Init, Committed
    <2>2. DOMAIN log = {}
      BY DEF Init
    <2> QED
      BY <2>1, <2>2 DEF AppendedRuns, SnapshotPairs
  <1>2. AppendedInv /\ AppendedInv' /\ [Next]_vars => [Appends!Next]_(Appends!vars)
    BY AppendStep
  <1>3. IInv => AppendedInv
    BY AppendedAreAdders
  <1>4. Spec => []IInv
    BY IInvHolds
  <1> QED
    BY <1>1, <1>2, <1>3, <1>4, PTL DEF Spec, RefinesTableAppends, Appends!Spec
=============================================================================
