--------------------------- MODULE ParquetSinkProofs ---------------------------
(***************************************************************************)
(* Why a consumer that follows _LATEST reads one whole answer: executions  *)
(* have run directories of their own, every file in a run directory holds  *)
(* what its execution computed, and an execution is offered to finalize    *)
(* when its files are all there.                                           *)
(***************************************************************************)
EXTENDS ParquetSink, TLAPS

AllDirs == UNION {MintedWorkDirs(r, {}) : r \in Run}

-----------------------------------------------------------------------------
(* The inductive invariant *)

Typed ==
    /\ TypeOK
    /\ answer \in [Run -> UNION {Answers[r] : r \in Run}]
    /\ metas \in [Run -> SUBSET Nat]
    /\ minted \subseteq AllDirs
    /\ \A x \in past : x.key \in Keys /\ \A p \in DOMAIN x.answer : x.answer[p] \subseteq Row

\* A run works in a directory that it minted and that no other run works in.
DirsInv ==
    /\ \A r \in Run : workDir[r] # NoDir => workDir[r] \in minted \cap MintedWorkDirs(r, {})
    /\ \A r, q \in Run : workDir[r] # NoDir /\ workDir[r] = workDir[q] => r = q

\* The run key of an execution, also of one that was cleared, is its own.
KeysInv ==
    /\ \A x \in Unreported :
          \E q \in Run : \E d \in minted \cap MintedWorkDirs(q, {}) :
              x.key = RunKey(d) /\ (q \in Clearable \/ workDir[q] = d)
    /\ \A x, y \in Unreported : x.key = y.key => x = y

\* A data file holds the rows that the execution whose key it is under computed
\* for its partition, and those that are reported or offered are there.
FilesInv ==
    /\ \A path \in DOMAIN files :
          \E x \in Unreported : \E p \in DOMAIN x.answer :
              path = DataFile(x.key, p) /\ files[path] = x.answer[p]
    /\ \A r \in Run : \A p \in metas[r] :
          workDir[r] # NoDir /\ DataFile(Key(r), p) \in DOMAIN files
    /\ offered \subseteq Unreported
    /\ \A x \in offered : \A p \in DOMAIN x.answer : DataFile(x.key, p) \in DOMAIN files

\* Only what was offered is marked, and only what is marked is pointed to.
MarksInv ==
    /\ \A k \in success \cup recorded : \E x \in offered : x.key = k
    /\ latest = NoKey \/ latest \in success
    /\ \A r \in Run : \A n \in DOMAIN attempts[r] :
          /\ \E x \in offered : x.key = attempts[r][n].key
          /\ attempts[r][n].pc = "latest" => attempts[r][n].key \in success

\* What the consumer has read so far is part of the answer it follows.
ReaderInv ==
    /\ reader = [pc |-> reader.pc, key |-> reader.key, todo |-> reader.todo, got |-> reader.got]
    /\ reader.pc \in {"idle", "list", "read", "done"}
    /\ reader.pc # "read" => reader.todo = {}
    /\ reader.pc = "list" => reader.got = {}
    /\ reader.pc # "idle" => \E x \in offered : x.key = reader.key
    /\ reader.pc \in {"read", "done"} =>
          \A x \in offered : x.key = reader.key =>
              /\ reader.todo \subseteq DOMAIN x.answer
              /\ reader.got = {<<p, x.answer[p]>> : p \in DOMAIN x.answer \ reader.todo}

\* The attempt that Airflow counts on is the last, and once it has returned the
\* pointer names no run that was recorded before it began, strays aside.
CountedOn(r, n) ==
    /\ n = Len(attempts[r])
    /\ workDir[r] # NoDir /\ attempts[r][n].key = Key(r)
    /\ attempts[r][n].after \subseteq recorded
    /\ DagOf[r] \in Marked /\ attempts[r][n].pc = "returned" =>
          Key(r) \in success /\ latest # NoKey /\ latest \notin attempts[r][n].after \ stray
    /\ ti[r] = "success" => attempts[r][n].pc = "returned"

\* What is recorded of a run is so.
Accounted(r) ==
    /\ ti[r] = "success" =>
          workDir[r] # NoDir /\ (DagOf[r] \in Marked => Key(r) \in success /\ latest # NoKey)
    /\ workDir[r] # NoDir /\ Key(r) \in recorded => ti[r] = "success"

OrderInv ==
    \A r \in Run :
        Accounted(r) /\ \A n \in DOMAIN attempts[r] : ~attempts[r][n].lost => CountedOn(r, n)

IInv ==
    /\ Typed /\ DirsInv /\ KeysInv /\ FilesInv /\ MarksInv /\ ReaderInv /\ OrderInv

-----------------------------------------------------------------------------
(* Directories, keys and files *)

LEMMA DirFacts ==
    ASSUME NEW r \in Run, NEW taken, NEW d \in MintedWorkDirs(r, taken)
    PROVE  /\ d \in MintedWorkDirs(r, {}) /\ d \in AllDirs
           /\ d # NoDir
           /\ RunKey(d) \in Keys /\ RunKey(d) # NoKey
           /\ DagOf[r] \notin BaseGiven => d \notin taken
  <1>1. d \in MintedWorkDirs(r, {}) /\ (DagOf[r] \notin BaseGiven => d \notin taken)
    BY DEF MintedWorkDirs
  <1>2. d # NoDir /\ RunKey(d) # NoKey
    <2>1. CASE DagOf[r] \in BaseGiven
      <3>1. PICK s, t : d = <<s, <<t>>>>
        BY <2>1 DEF MintedWorkDirs
      <3>2. d # <<>> /\ d[Len(d)] = <<t>> /\ <<t>> # <<>>
        BY <3>1
      <3> QED
        BY <3>2 DEF NoDir, NoKey, RunKey
    <2>2. CASE DagOf[r] \notin BaseGiven
      <3>1. PICK s, t : d = <<<<s, t>>>>
        BY <2>2 DEF MintedWorkDirs
      <3>2. d # <<>> /\ d[Len(d)] = <<s, t>> /\ <<s, t>> # <<>>
        BY <3>1
      <3> QED
        BY <3>2 DEF NoDir, NoKey, RunKey
    <2> QED
      BY <2>1, <2>2
  <1>3. d \in AllDirs /\ RunKey(d) \in Keys
    BY <1>1 DEF AllDirs, Keys
  <1> QED
    BY <1>1, <1>2, <1>3

LEMMA NoKeyIsNone == NoKey \notin Keys
  BY DirFacts DEF Keys

LEMMA KeyOfRun ==
    ASSUME DirsInv, NEW r \in Run, workDir[r] # NoDir
    PROVE  Key(r) \in Keys /\ Key(r) = RunKey(workDir[r])
  <1>1. workDir[r] \in MintedWorkDirs(r, {})
    BY DEF DirsInv
  <1> QED
    BY <1>1, DirFacts DEF Key

\* Runs at work have different keys.
LEMMA KeysOfRunsApart ==
    ASSUME KeysApart, DirsInv, NEW r \in Run, NEW q \in Run,
           workDir[r] # NoDir, workDir[q] # NoDir, Key(r) = Key(q)
    PROVE  r = q
  <1>1. workDir[r] \in MintedWorkDirs(r, {}) /\ workDir[q] \in MintedWorkDirs(q, {})
    BY DEF DirsInv
  <1>2. workDir[r] = workDir[q]
    BY <1>1 DEF KeysApart, RunKeysApart, Key
  <1> QED
    BY <1>2 DEF DirsInv

LEMMA DataFileFacts ==
    ASSUME NEW k, NEW p, NEW l, NEW o
    PROVE  /\ DataFile(k, p)[2] = p
           /\ DataFile(k, p) = DataFile(l, o) => k = l /\ p = o
  BY DEF DataFile

\* An execution whose files are all there reads back as its answer.
LEMMA OfferedFiles ==
    ASSUME KeysInv, FilesInv, NEW x \in offered
    PROVE  /\ PathsUnder(x.key) = {DataFile(x.key, p) : p \in DOMAIN x.answer}
           /\ \A p \in DOMAIN x.answer : files[DataFile(x.key, p)] = x.answer[p]
           /\ ReadBack(x.key) = Contents(x.answer)
  <1>1. x \in Unreported /\ \A p \in DOMAIN x.answer : DataFile(x.key, p) \in DOMAIN files
    BY DEF FilesInv
  <1>2. ASSUME NEW p, DataFile(x.key, p) \in DOMAIN files
        PROVE  p \in DOMAIN x.answer /\ files[DataFile(x.key, p)] = x.answer[p]
    <2>1. PICK y \in Unreported : \E o \in DOMAIN y.answer :
              DataFile(x.key, p) = DataFile(y.key, o) /\ files[DataFile(x.key, p)] = y.answer[o]
      BY <1>2 DEF FilesInv
    <2>2. y = x
      BY <1>1, <2>1, DataFileFacts DEF KeysInv
    <2> QED
      BY <2>1, <2>2, DataFileFacts
  <1>3. PathsUnder(x.key) = {DataFile(x.key, p) : p \in DOMAIN x.answer}
    <2>1. ASSUME NEW path \in PathsUnder(x.key)
          PROVE  path \in {DataFile(x.key, p) : p \in DOMAIN x.answer}
      BY <1>2 DEF PathsUnder
    <2>2. ASSUME NEW p \in DOMAIN x.answer
          PROVE  DataFile(x.key, p) \in PathsUnder(x.key)
      BY <1>1, DataFileFacts DEF PathsUnder
    <2> QED
      BY <2>1, <2>2
  <1>4. \A p \in DOMAIN x.answer : files[DataFile(x.key, p)] = x.answer[p]
    BY <1>1, <1>2
  <1>5. ReadBack(x.key) = Contents(x.answer)
    <2>1. ReadBack(x.key) = {<<DataFile(x.key, p)[2], files[DataFile(x.key, p)]>> : p \in DOMAIN x.answer}
      BY <1>3 DEF ReadBack
    <2> QED
      BY <1>4, <2>1, DataFileFacts DEF Contents
  <1> QED
    BY <1>3, <1>4, <1>5

-----------------------------------------------------------------------------
(* What a step does to one part of the state *)

LEMMA AttemptsFacts ==
    ASSUME Typed, NEW r \in Run
    PROVE  /\ attempts \in [Run -> Seq(Attempt)] /\ attempts[r] \in Seq(Attempt)
           /\ DOMAIN attempts[r] = 1..Len(attempts[r]) /\ Len(attempts[r]) \in Nat
           /\ \A n \in DOMAIN attempts[r] : attempts[r][n] \in Attempt
  BY DEF Typed, TypeOK

LEMMA AttemptFields ==
    ASSUME NEW a \in Attempt
    PROVE  /\ \A pc : /\ [a EXCEPT !.pc = pc].pc = pc /\ [a EXCEPT !.pc = pc].key = a.key
                      /\ [a EXCEPT !.pc = pc].lost = a.lost /\ [a EXCEPT !.pc = pc].after = a.after
           /\ [a EXCEPT !.lost = TRUE].lost = TRUE /\ [a EXCEPT !.lost = TRUE].key = a.key
           /\ [a EXCEPT !.lost = TRUE].pc = a.pc /\ [a EXCEPT !.lost = TRUE].after = a.after
  BY DEF Attempt

\* Finalize goes one place further.
LEMMA GotoFacts ==
    ASSUME Typed, NEW r \in Run, NEW n \in DOMAIN attempts[r],
           NEW pc \in {"success", "latest", "returned"}, Goto(r, n, pc)
    PROVE  /\ attempts' \in [Run -> Seq(Attempt)]
           /\ \A q \in Run :
                 /\ DOMAIN attempts'[q] = DOMAIN attempts[q]
                 /\ Len(attempts'[q]) = Len(attempts[q])
                 /\ \A m \in DOMAIN attempts[q] :
                       /\ attempts'[q][m].pc = IF q = r /\ m = n THEN pc ELSE attempts[q][m].pc
                       /\ attempts'[q][m].key = attempts[q][m].key
                       /\ attempts'[q][m].lost = attempts[q][m].lost
                       /\ attempts'[q][m].after = attempts[q][m].after
  <1> DEFINE a == [attempts[r][n] EXCEPT !.pc = pc]
             s == [attempts[r] EXCEPT ![n] = a]
  <1>1. a \in Attempt
    BY AttemptsFacts DEF Attempt
  <1>2. /\ s \in Seq(Attempt) /\ Len(s) = Len(attempts[r]) /\ DOMAIN s = DOMAIN attempts[r]
        /\ \A m \in DOMAIN attempts[r] : s[m] = IF m = n THEN a ELSE attempts[r][m]
    BY <1>1, AttemptsFacts
  <1>3. attempts' = [attempts EXCEPT ![r] = s]
    BY DEF Goto
  <1> HIDE DEF s
  <1>4. attempts' \in [Run -> Seq(Attempt)] /\ \A q \in Run : attempts'[q] = IF q = r THEN s ELSE attempts[q]
    BY <1>2, <1>3, AttemptsFacts
  <1>5. /\ a.pc = pc /\ a.key = attempts[r][n].key /\ a.lost = attempts[r][n].lost
        /\ a.after = attempts[r][n].after
    BY AttemptFields, AttemptsFacts
  <1> HIDE DEF a
  <1> QED
    BY <1>2, <1>4, <1>5

\* Attempts are given up on, and go on as they were.
LEMMA LostFacts ==
    ASSUME Typed, NEW r \in Run, GiveUp(r) \/ Clear(r)
    PROVE  /\ attempts' \in [Run -> Seq(Attempt)]
           /\ \A q \in Run :
                 /\ DOMAIN attempts'[q] = DOMAIN attempts[q]
                 /\ Len(attempts'[q]) = Len(attempts[q])
                 /\ \A m \in DOMAIN attempts[q] :
                       /\ attempts'[q][m].pc = attempts[q][m].pc
                       /\ attempts'[q][m].key = attempts[q][m].key
                       /\ attempts'[q][m].after = attempts[q][m].after
                       /\ ~attempts'[q][m].lost => ~attempts[q][m].lost /\ ~(q = r /\ Clear(r))
  <1>1. CASE GiveUp(r)
    <2> DEFINE n == Len(attempts[r])
               a == [attempts[r][n] EXCEPT !.lost = TRUE]
               s == [attempts[r] EXCEPT ![n] = a]
    <2>1. n \in DOMAIN attempts[r]
      BY <1>1, AttemptsFacts DEF GiveUp, Over
    <2>2. a \in Attempt
      BY <2>1, AttemptsFacts DEF Attempt
    <2>3. /\ s \in Seq(Attempt) /\ Len(s) = Len(attempts[r]) /\ DOMAIN s = DOMAIN attempts[r]
          /\ \A m \in DOMAIN attempts[r] : s[m] = IF m = n THEN a ELSE attempts[r][m]
      BY <2>1, <2>2, AttemptsFacts
    <2>4. attempts' = [attempts EXCEPT ![r] = s]
      BY <1>1 DEF GiveUp
    <2> HIDE DEF s
    <2>5. attempts' \in [Run -> Seq(Attempt)] /\ \A q \in Run : attempts'[q] = IF q = r THEN s ELSE attempts[q]
      BY <2>3, <2>4, AttemptsFacts
    <2>6. a.pc = attempts[r][n].pc /\ a.key = attempts[r][n].key /\ a.lost /\ a.after = attempts[r][n].after
      BY <2>1, AttemptFields, AttemptsFacts
    <2>7. ~Clear(r)
      BY <1>1 DEF GiveUp, Clear, runVars, Typed, TypeOK
    <2> HIDE DEF a
    <2> QED
      BY <2>3, <2>5, <2>6, <2>7
  <1>2. CASE Clear(r)
    <2> DEFINE s == [m \in DOMAIN attempts[r] |-> [attempts[r][m] EXCEPT !.lost = TRUE]]
    <2>1. \A m \in DOMAIN attempts[r] : [attempts[r][m] EXCEPT !.lost = TRUE] \in Attempt
      BY AttemptsFacts DEF Attempt
    <2>2. s \in Seq(Attempt) /\ DOMAIN s = DOMAIN attempts[r] /\ Len(s) = Len(attempts[r])
      BY <2>1, AttemptsFacts
    <2>3. attempts' = [attempts EXCEPT ![r] = s]
      BY <1>2 DEF Clear
    <2>4. \A m \in DOMAIN attempts[r] : s[m] = [attempts[r][m] EXCEPT !.lost = TRUE]
      OBVIOUS
    <2> HIDE DEF s
    <2>5. attempts' \in [Run -> Seq(Attempt)] /\ \A q \in Run : attempts'[q] = IF q = r THEN s ELSE attempts[q]
      BY <2>2, <2>3, AttemptsFacts
    <2>6. \A m \in DOMAIN attempts[r] :
              /\ s[m].pc = attempts[r][m].pc /\ s[m].key = attempts[r][m].key
              /\ s[m].lost /\ s[m].after = attempts[r][m].after
      <3> SUFFICES ASSUME NEW m \in DOMAIN attempts[r]
                   PROVE  /\ s[m].pc = attempts[r][m].pc /\ s[m].key = attempts[r][m].key
                          /\ s[m].lost /\ s[m].after = attempts[r][m].after
        OBVIOUS
      <3> DEFINE a == attempts[r][m]
      <3>1. a \in Attempt
        BY AttemptsFacts
      <3>2. s[m] = [a EXCEPT !.lost = TRUE]
        BY <2>4
      <3> HIDE DEF a
      <3>3. s[m].pc = a.pc /\ s[m].key = a.key /\ s[m].lost /\ s[m].after = a.after
        BY ONLY <3>1, <3>2, AttemptFields
      <3> QED
        BY <3>3 DEF a
    <2> QED
      BY <1>2, <2>2, <2>5, <2>6
  <1> QED
    BY <1>1, <1>2

LEMMA RunSteps ==
    ASSUME [Next]_vars
    PROVE  \/ \E r \in Run : MakeWorkDir(r) \/ Clear(r)
           \/ \E r \in Run : \E p \in DOMAIN answer[r] : Write(r, p)
           \/ UNCHANGED runVars
  BY DEF Next, RunStep, ReaderStep, vars, StartFinalize, WriteSuccess, WriteLatest, Goto,
         RecordSuccess, RecordFailure, GiveUp, LateWrite, ReadLatest, ListDirectory, ReadFile,
         EndReading

LEMMA FileSteps ==
    ASSUME [Next]_vars
    PROVE  \/ files' = files
           \/ \E r \in Run : \E p \in DOMAIN answer[r] : Write(r, p)
           \/ \E x \in Unreported : \E p \in DOMAIN x.answer : LateWrite(x, p)
  BY DEF Next, RunStep, ReaderStep, vars, MakeWorkDir, StartFinalize, Clear, WriteSuccess,
         WriteLatest, Goto, RecordSuccess, RecordFailure, GiveUp, ReadLatest, ListDirectory,
         ReadFile, EndReading

LEMMA OfferedSteps ==
    ASSUME [Next]_vars
    PROVE  offered' = offered \/ \E r \in Run : StartFinalize(r)
  BY DEF Next, RunStep, ReaderStep, vars, MakeWorkDir, Write, Clear, WriteSuccess, taskVars,
         WriteLatest, Goto, RecordSuccess, RecordFailure, GiveUp, LateWrite, ReadLatest,
         ListDirectory, ReadFile, EndReading

LEMMA MarkerSteps ==
    ASSUME [Next]_vars
    PROVE  \/ UNCHANGED markerVars
           \/ \E r \in Run : \E n \in DOMAIN attempts[r] : WriteSuccess(r, n) \/ WriteLatest(r, n)
  BY DEF Next, RunStep, ReaderStep, vars, MakeWorkDir, Write, Clear, StartFinalize,
         RecordSuccess, RecordFailure, GiveUp, LateWrite, ReadLatest, ListDirectory, ReadFile,
         EndReading

LEMMA TaskSteps ==
    ASSUME [Next]_vars
    PROVE  \/ UNCHANGED taskVars
           \/ \E r \in Run : StartFinalize(r) \/ Clear(r)
           \/ \E r \in Run : \E n \in DOMAIN attempts[r] : WriteSuccess(r, n) \/ WriteLatest(r, n)
           \/ \E r \in Run : RecordSuccess(r) \/ RecordFailure(r) \/ GiveUp(r)
  BY DEF Next, RunStep, ReaderStep, vars, MakeWorkDir, Write, LateWrite, ReadLatest,
         ListDirectory, ReadFile, EndReading

LEMMA ReaderSteps ==
    ASSUME [Next]_vars
    PROVE  reader' = reader \/ ReaderStep
  BY DEF Next, RunStep, vars, MakeWorkDir, Write, Clear, StartFinalize, WriteSuccess,
         WriteLatest, Goto, RecordSuccess, RecordFailure, GiveUp, LateWrite

\* The steps that the account of finalize and the pointer depend on.
LEMMA OrderSteps ==
    ASSUME [Next]_vars
    PROVE  \/ UNCHANGED <<workDir, markerVars, taskVars>>
           \/ \E r \in Run : \/ MakeWorkDir(r) \/ Clear(r) \/ StartFinalize(r)
                             \/ RecordSuccess(r) \/ RecordFailure(r) \/ GiveUp(r)
           \/ \E r \in Run : \E n \in DOMAIN attempts[r] : WriteSuccess(r, n) \/ WriteLatest(r, n)
  BY DEF Next, RunStep, ReaderStep, vars, Write, LateWrite, ReadLatest, ListDirectory, ReadFile,
         EndReading, runVars

\* What the run r computes now, under its run key.
Execution(r) == [key |-> Key(r), answer |-> answer[r]]

LEMMA UnreportedIs ==
    \A x : x \in Unreported <=>
               x \in past \/ \E r \in Run : workDir[r] # NoDir /\ x = Execution(r)
  BY DEF Unreported, Execution

\* Executions are never forgotten, and a new one comes with its directory.
LEMMA UnreportedSteps ==
    ASSUME Typed, [Next]_vars
    PROVE  \/ UNCHANGED <<Unreported, workDir, minted>>
           \/ \E r \in Run : Clear(r) /\ Unreported' = Unreported
           \/ \E r \in Run : MakeWorkDir(r)
                /\ Unreported' = Unreported \cup {[key |-> RunKey(workDir'[r]), answer |-> answer[r]]}
  <1>1. ASSUME UNCHANGED <<workDir, answer, past, minted>>
        PROVE  UNCHANGED <<Unreported, workDir, minted>>
    BY <1>1 DEF Unreported, Key
  <1>2. ASSUME NEW r \in Run, MakeWorkDir(r)
        PROVE  Unreported' = Unreported \cup {[key |-> RunKey(workDir'[r]), answer |-> answer[r]]}
    <2>1. /\ workDir[r] = NoDir /\ workDir'[r] # NoDir
          /\ \A q \in Run : q # r => workDir'[q] = workDir[q]
          /\ answer' = answer /\ past' = past
      BY <1>2, DirFacts DEF MakeWorkDir, Typed, TypeOK
    <2>2. /\ Execution(r)' = [key |-> RunKey(workDir'[r]), answer |-> answer[r]]
          /\ \A q \in Run : q # r => Execution(q)' = Execution(q)
      BY <2>1 DEF Execution, Key
    <2>3. \A x : x \in Unreported' <=>
                     x \in past' \/ \E q \in Run : workDir'[q] # NoDir /\ x = Execution(q)'
      BY DEF Unreported, Execution
    <2>4. \A x : x \in Unreported' <=> x \in Unreported \/ x = Execution(r)'
      BY <2>1, <2>2, <2>3, UnreportedIs
    <2> QED
      BY <2>2, <2>4
  <1>3. ASSUME NEW r \in Run, Clear(r)
        PROVE  Unreported' = Unreported
    <2>1. /\ past' = past \cup {Execution(r)}
          /\ workDir[r] # NoDir /\ workDir'[r] = NoDir
          /\ \A q \in Run : q # r => workDir'[q] = workDir[q] /\ answer'[q] = answer[q]
      BY <1>3 DEF Clear, Execution, Typed, TypeOK
    <2>2. \A q \in Run : q # r => Execution(q)' = Execution(q)
      BY <2>1 DEF Execution, Key
    <2>3. \A x : x \in Unreported' <=>
                     x \in past' \/ \E q \in Run : workDir'[q] # NoDir /\ x = Execution(q)'
      BY DEF Unreported, Execution
    <2>4. \A x : x \in Unreported' <=> x \in Unreported
      BY <2>1, <2>2, <2>3, UnreportedIs
    <2> QED
      BY <2>4
  <1>4. (\E r \in Run : \E p \in DOMAIN answer[r] : Write(r, p)) => UNCHANGED <<workDir, answer, past, minted>>
    BY DEF Write
  <1> QED
    BY <1>1, <1>2, <1>3, <1>4, RunSteps DEF runVars

LEMMA FilesGrow ==
    ASSUME [Next]_vars
    PROVE  DOMAIN files \subseteq DOMAIN files'
  BY FileSteps DEF Write, LateWrite, PutFile

-----------------------------------------------------------------------------
(* Each part of the invariant is kept *)

LEMMA DirsKept ==
    ASSUME KeysApart, Typed, DirsInv, [Next]_vars
    PROVE  DirsInv'
  <1>1. CASE UNCHANGED <<workDir, minted>>
    BY <1>1 DEF DirsInv
  <1>2. ASSUME NEW r \in Run, MakeWorkDir(r)
        PROVE  DirsInv'
    <2>1. PICK d \in MintedWorkDirs(r, minted) :
              workDir' = [workDir EXCEPT ![r] = d] /\ minted' = minted \cup {d}
      BY <1>2 DEF MakeWorkDir
    <2>2. workDir'[r] = d /\ \A q \in Run : q # r => workDir'[q] = workDir[q]
      BY <2>1 DEF Typed, TypeOK
    <2>3. d \in MintedWorkDirs(r, {}) /\ d # NoDir /\ (DagOf[r] \notin BaseGiven => d \notin minted)
      BY DirFacts
    <2>4. ASSUME NEW q \in Run, workDir[q] # NoDir
          PROVE  d # workDir[q] \/ q = r
      <3>1. workDir[q] \in minted \cap MintedWorkDirs(q, {})
        BY <2>4 DEF DirsInv
      <3> QED
        BY <2>3, <3>1 DEF KeysApart, RunKeysApart
    <2> QED
      BY <2>1, <2>2, <2>3, <2>4 DEF DirsInv
  <1>3. ASSUME NEW r \in Run, Clear(r)
        PROVE  DirsInv'
    <2>1. workDir'[r] = NoDir /\ (\A q \in Run : q # r => workDir'[q] = workDir[q]) /\ minted' = minted
      BY <1>3 DEF Clear, Typed, TypeOK
    <2> QED
      BY <2>1 DEF DirsInv
  <1> QED
    BY <1>1, <1>2, <1>3, RunSteps DEF runVars, Write

\* A run key that make_work_dir brings has not been used.
LEMMA NewKey ==
    ASSUME KeysApart, Typed, KeysInv, NEW r \in Run, MakeWorkDir(r), NEW y \in Unreported
    PROVE  y.key # RunKey(workDir'[r])
  <1>1. PICK d \in MintedWorkDirs(r, minted) : workDir' = [workDir EXCEPT ![r] = d]
    BY DEF MakeWorkDir
  <1>2. workDir[r] = NoDir /\ workDir'[r] = d
    BY <1>1 DEF Typed, TypeOK, MakeWorkDir
  <1>3. d \in MintedWorkDirs(r, {}) /\ d # NoDir /\ (DagOf[r] \notin BaseGiven => d \notin minted)
    BY DirFacts
  <1>4. PICK q \in Run : \E e \in minted \cap MintedWorkDirs(q, {}) :
            y.key = RunKey(e) /\ (q \in Clearable \/ workDir[q] = e)
    BY DEF KeysInv
  <1>5. PICK e \in minted \cap MintedWorkDirs(q, {}) :
            y.key = RunKey(e) /\ (q \in Clearable \/ workDir[q] = e)
    BY <1>4
  <1>6. e # NoDir
    BY <1>5, DirFacts
  <1>7. CASE RunKey(d) = RunKey(e)
    <2>1. d = e /\ (r = q \/ DagOf[r] \notin BaseGiven)
      BY <1>3, <1>5, <1>7 DEF KeysApart, RunKeysApart
    <2>2. r = q /\ DagOf[r] \in BaseGiven
      BY <1>3, <1>5, <2>1
    <2> QED
      BY <1>2, <1>5, <1>6, <2>2 DEF KeysApart, RunKeysApart
  <1> QED
    BY <1>2, <1>5, <1>7

LEMMA KeysKept ==
    ASSUME KeysApart, Typed, DirsInv, KeysInv, [Next]_vars
    PROVE  KeysInv'
  <1>1. CASE UNCHANGED <<Unreported, workDir, minted>>
    BY <1>1 DEF KeysInv
  <1>2. ASSUME NEW r \in Run, Clear(r), Unreported' = Unreported
        PROVE  KeysInv'
    <2>1. /\ r \in Clearable /\ workDir'[r] = NoDir /\ minted' = minted
          /\ \A q \in Run : q # r => workDir'[q] = workDir[q]
      BY <1>2 DEF Clear, Typed, TypeOK
    <2> QED
      BY <1>2, <2>1 DEF KeysInv
  <1>3. ASSUME NEW r \in Run, MakeWorkDir(r),
               Unreported' = Unreported \cup {[key |-> RunKey(workDir'[r]), answer |-> answer[r]]}
        PROVE  KeysInv'
    <2>1. PICK d \in MintedWorkDirs(r, minted) :
              workDir' = [workDir EXCEPT ![r] = d] /\ minted' = minted \cup {d}
      BY <1>3 DEF MakeWorkDir
    <2>2. workDir[r] = NoDir /\ workDir'[r] = d /\ \A q \in Run : q # r => workDir'[q] = workDir[q]
      BY <1>3, <2>1 DEF Typed, TypeOK, MakeWorkDir
    <2>3. d \in MintedWorkDirs(r, {}) /\ d # NoDir /\ (DagOf[r] \notin BaseGiven => d \notin minted)
      BY DirFacts
    <2> DEFINE x == [key |-> RunKey(d), answer |-> answer[r]]
    <2>4. Unreported' = Unreported \cup {x}
      BY <1>3, <2>2
    <2>5. ASSUME NEW y \in Unreported
          PROVE  \E q \in Run : \E e \in minted' \cap MintedWorkDirs(q, {}) :
                     y.key = RunKey(e) /\ (q \in Clearable \/ workDir'[q] = e)
      <3>0. PICK q \in Run : \E e \in minted \cap MintedWorkDirs(q, {}) :
                y.key = RunKey(e) /\ (q \in Clearable \/ workDir[q] = e)
        BY DEF KeysInv
      <3>1. PICK e \in minted \cap MintedWorkDirs(q, {}) :
                y.key = RunKey(e) /\ (q \in Clearable \/ workDir[q] = e)
        BY <3>0
      <3>2. e # NoDir
        BY <3>1, DirFacts
      <3> QED
        BY <2>1, <2>2, <3>1, <3>2
    <2>6. \A y \in Unreported : y.key # x.key
      BY <1>3, <2>2, NewKey
    <2>7. \E q \in Run : \E e \in minted' \cap MintedWorkDirs(q, {}) :
              x.key = RunKey(e) /\ (q \in Clearable \/ workDir'[q] = e)
      BY <2>1, <2>2, <2>3
    <2> HIDE DEF x
    <2> QED
      BY <2>4, <2>5, <2>6, <2>7 DEF KeysInv
  <1> QED
    BY <1>1, <1>2, <1>3, UnreportedSteps

LEMMA FilesKept ==
    ASSUME Typed, DirsInv, KeysInv, FilesInv, [Next]_vars
    PROVE  FilesInv'
  <1>1. Unreported \subseteq Unreported'
    BY UnreportedSteps
  <1>2. ASSUME NEW path \in DOMAIN files'
        PROVE  \E x \in Unreported : \E p \in DOMAIN x.answer :
                   path = DataFile(x.key, p) /\ files'[path] = x.answer[p]
    <2>1. CASE files' = files
      BY <1>2, <2>1 DEF FilesInv
    <2>2. ASSUME NEW x \in Unreported, NEW p \in DOMAIN x.answer,
                 PutFile(DataFile(x.key, p), x.answer[p])
          PROVE  \E y \in Unreported : \E o \in DOMAIN y.answer :
                     path = DataFile(y.key, o) /\ files'[path] = y.answer[o]
      <3>1. CASE path = DataFile(x.key, p)
        BY <1>2, <2>2, <3>1 DEF PutFile
      <3>2. CASE path # DataFile(x.key, p)
        <4>1. path \in DOMAIN files /\ files'[path] = files[path]
          BY <1>2, <2>2, <3>2 DEF PutFile
        <4> QED
          BY <4>1 DEF FilesInv
      <3> QED
        BY <3>1, <3>2
    <2>3. ASSUME NEW r \in Run, NEW p \in DOMAIN answer[r], Write(r, p)
          PROVE  /\ Execution(r) \in Unreported /\ p \in DOMAIN Execution(r).answer
                 /\ PutFile(DataFile(Execution(r).key, p), Execution(r).answer[p])
      BY <2>3, UnreportedIs DEF Write, Execution
    <2> QED
      BY <2>1, <2>2, <2>3, FileSteps DEF LateWrite
  <1>3. ASSUME NEW r \in Run, NEW p \in metas'[r]
        PROVE  workDir'[r] # NoDir /\ DataFile(Key(r)', p) \in DOMAIN files'
    <2>1. CASE UNCHANGED runVars
      BY <1>3, <2>1, FilesGrow DEF runVars, FilesInv, Key
    <2>2. ASSUME NEW q \in Run, MakeWorkDir(q)
          PROVE  workDir'[r] # NoDir /\ DataFile(Key(r)', p) \in DOMAIN files'
      <3>1. metas' = metas /\ workDir[q] = NoDir
        BY <2>2 DEF MakeWorkDir
      <3>2. r # q
        BY <1>3, <3>1 DEF FilesInv
      <3>3. workDir'[r] = workDir[r]
        BY <2>2, <3>2 DEF MakeWorkDir, Typed, TypeOK
      <3> QED
        BY <1>3, <3>1, <3>3, FilesGrow DEF FilesInv, Key
    <2>3. ASSUME NEW q \in Run, Clear(q)
          PROVE  workDir'[r] # NoDir /\ DataFile(Key(r)', p) \in DOMAIN files'
      <3>1. /\ metas' = [metas EXCEPT ![q] = {}] /\ metas \in [Run -> SUBSET Nat]
            /\ workDir' = [workDir EXCEPT ![q] = NoDir]
        BY <2>3 DEF Clear, Typed
      <3>2. r # q
        BY <1>3, <3>1
      <3>3. workDir'[r] = workDir[r] /\ metas'[r] = metas[r]
        BY <3>1, <3>2 DEF Typed, TypeOK
      <3> QED
        BY <1>3, <3>3, FilesGrow DEF FilesInv, Key
    <2>4. ASSUME NEW q \in Run, NEW o \in DOMAIN answer[q], Write(q, o)
          PROVE  workDir'[r] # NoDir /\ DataFile(Key(r)', p) \in DOMAIN files'
      <3>1. /\ workDir' = workDir /\ workDir[q] # NoDir
            /\ metas' = [metas EXCEPT ![q] = @ \cup {o}] /\ metas \in [Run -> SUBSET Nat]
            /\ DataFile(Key(q), o) \in DOMAIN files'
        BY <2>4 DEF Write, PutFile, Typed
      <3>2. p \in metas[r] \/ (r = q /\ p = o)
        BY <1>3, <3>1
      <3> QED
        BY <3>1, <3>2, FilesGrow DEF FilesInv, Key
    <2> QED
      BY <2>1, <2>2, <2>3, <2>4, RunSteps
  <1>4. ASSUME NEW x \in offered'
        PROVE  x \in Unreported /\ \A p \in DOMAIN x.answer : DataFile(x.key, p) \in DOMAIN files
    <2>1. CASE x \in offered
      BY <2>1 DEF FilesInv
    <2>2. ASSUME NEW r \in Run, StartFinalize(r), x \notin offered
          PROVE  x \in Unreported /\ \A p \in DOMAIN x.answer : DataFile(x.key, p) \in DOMAIN files
      <3>1. x = Execution(r) /\ workDir[r] # NoDir /\ metas[r] = DOMAIN answer[r]
        BY <1>4, <2>2 DEF StartFinalize, Ready, Execution
      <3> QED
        BY <3>1, UnreportedIs DEF Execution, FilesInv
    <2> QED
      BY <1>4, <2>1, <2>2, OfferedSteps
  <1> QED
    BY <1>1, <1>2, <1>3, <1>4, FilesGrow DEF FilesInv

LEMMA ReaderKept ==
    ASSUME KeysInv, FilesInv, MarksInv, ReaderInv, KeysInv', FilesInv', [Next]_vars
    PROVE  ReaderInv'
  <1>1. ASSUME reader' = reader
        PROVE  ReaderInv'
    <2>1. offered \subseteq offered'
      BY OfferedSteps DEF StartFinalize
    <2>2. ASSUME NEW x \in offered', NEW y \in offered, x.key = y.key
          PROVE  x = y
      BY <2>1, <2>2 DEF KeysInv, FilesInv
    <2> QED
      BY <1>1, <2>1, <2>2 DEF ReaderInv
  <1>2. ASSUME ReaderStep
        PROVE  ReaderInv'
    <2>1. offered' = offered
      BY <1>2 DEF ReaderStep, ReadLatest, ListDirectory, ReadFile, EndReading, taskVars
    <2>2. CASE ReadLatest
      <3>1. reader' = [pc |-> "list", key |-> latest, todo |-> {}, got |-> {}]
        BY <2>2 DEF ReadLatest, Idle
      <3>2. \E x \in offered : x.key = latest
        BY <2>2 DEF ReadLatest, MarksInv
      <3> QED
        BY <2>1, <3>1, <3>2 DEF ReaderInv
    <2>3. CASE ListDirectory
      <3>1. /\ reader.pc = "list" /\ reader.got = {}
            /\ reader' = [pc |-> "read", key |-> reader.key, got |-> {},
                          todo |-> {path[2] : path \in PathsUnder(reader.key)}]
        BY <2>3 DEF ListDirectory, ReaderInv
      <3>2. ASSUME NEW x \in offered, x.key = reader.key
            PROVE  reader'.todo = DOMAIN x.answer
        <4>1. PathsUnder(reader.key) = {DataFile(x.key, p) : p \in DOMAIN x.answer}
          BY <3>2, OfferedFiles
        <4> QED
          BY <3>1, <4>1, DataFileFacts
      <3>3. ASSUME NEW x \in offered, x.key = reader.key
            PROVE  reader'.got = {<<p, x.answer[p]>> : p \in DOMAIN x.answer \ reader'.todo}
        BY <3>1, <3>2, <3>3
      <3>4. \E x \in offered : x.key = reader'.key
        BY <3>1 DEF ReaderInv
      <3> QED
        BY <2>1, <3>1, <3>2, <3>3, <3>4 DEF ReaderInv
    <2>4. ASSUME NEW p \in reader.todo, ReadFile(p)
          PROVE  ReaderInv'
      <3>1. /\ reader.pc = "read"
            /\ reader' = [pc |-> "read", key |-> reader.key, todo |-> reader.todo \ {p},
                          got |-> reader.got \cup {<<p, files[DataFile(reader.key, p)]>>}]
        BY <2>4 DEF ReadFile, ReaderInv
      <3>2. ASSUME NEW x \in offered, x.key = reader.key
            PROVE  /\ p \in DOMAIN x.answer /\ reader.todo \subseteq DOMAIN x.answer
                   /\ files[DataFile(reader.key, p)] = x.answer[p]
                   /\ reader.got = {<<o, x.answer[o]>> : o \in DOMAIN x.answer \ reader.todo}
        BY <3>1, <3>2, OfferedFiles DEF ReaderInv
      <3>3. ASSUME NEW x \in offered, x.key = reader.key
            PROVE  reader'.got = {<<o, x.answer[o]>> : o \in DOMAIN x.answer \ reader'.todo}
        BY <3>1, <3>2, <3>3
      <3>4. \E x \in offered : x.key = reader'.key
        BY <3>1 DEF ReaderInv
      <3> QED
        BY <2>1, <3>1, <3>2, <3>3, <3>4 DEF ReaderInv
    <2>5. CASE EndReading
      <3>1. /\ reader.pc = "read" /\ reader.todo = {}
            /\ reader' = [pc |-> "done", key |-> reader.key, todo |-> {}, got |-> reader.got]
        BY <2>5 DEF EndReading, ReaderInv
      <3> QED
        BY <2>1, <3>1 DEF ReaderInv
    <2> QED
      BY <1>2, <2>2, <2>3, <2>4, <2>5 DEF ReaderStep
  <1> QED
    BY <1>1, <1>2, ReaderSteps

LEMMA MarksKept ==
    ASSUME Typed, MarksInv, OrderInv, [Next]_vars
    PROVE  MarksInv'
  <1>0. offered \subseteq offered' /\ success \subseteq success'
    BY OfferedSteps, MarkerSteps DEF StartFinalize, WriteSuccess, WriteLatest, markerVars
  <1>1. CASE UNCHANGED <<markerVars, taskVars>>
    BY <1>1 DEF MarksInv, markerVars, taskVars
  <1>2. ASSUME NEW r \in Run, StartFinalize(r)
        PROVE  MarksInv'
    <2> DEFINE a == [pc |-> IF DagOf[r] \in Marked THEN "success" ELSE "returned",
                     key |-> Key(r), round |-> clears[r], lost |-> FALSE, after |-> recorded]
    <2>1. /\ attempts' = [attempts EXCEPT ![r] = Append(@, a)] /\ attempts[r] \in Seq(Attempt)
          /\ Execution(r) \in offered'
          /\ UNCHANGED <<success, latest, recorded>>
      BY <1>2, AttemptsFacts DEF StartFinalize, Execution, markerVars
    <2>2. a.key = Execution(r).key /\ a.pc # "latest"
      BY DEF Execution
    <2> HIDE DEF a
    <2>3. ASSUME NEW q \in Run, NEW n \in DOMAIN attempts'[q]
          PROVE  (n \in DOMAIN attempts[q] /\ attempts'[q][n] = attempts[q][n]) \/ attempts'[q][n] = a
      <3>1. CASE q = r
        <4>1. attempts'[q] = Append(attempts[r], a)
          BY <2>1, <3>1 DEF Typed, TypeOK
        <4> QED
          BY <2>1, <3>1, <4>1
      <3>2. CASE q # r
        BY <2>1, <3>2 DEF Typed, TypeOK
      <3> QED
        BY <3>1, <3>2
    <2>4. ASSUME NEW q \in Run, NEW n \in DOMAIN attempts'[q]
          PROVE  /\ \E x \in offered' : x.key = attempts'[q][n].key
                 /\ attempts'[q][n].pc = "latest" => attempts'[q][n].key \in success'
      BY <1>0, <2>1, <2>2, <2>3 DEF MarksInv
    <2> QED
      BY <1>0, <2>1, <2>4 DEF MarksInv
  <1>3. ASSUME NEW r \in Run, NEW n \in DOMAIN attempts[r], WriteSuccess(r, n)
        PROVE  MarksInv'
    <2>1. Goto(r, n, "latest") /\ success' = success \cup {attempts[r][n].key}
          /\ latest' = latest /\ recorded' = recorded
      BY <1>3 DEF WriteSuccess, Goto
    <2>2. ASSUME NEW q \in Run, NEW m \in DOMAIN attempts'[q]
          PROVE  /\ m \in DOMAIN attempts[q] /\ attempts'[q][m].key = attempts[q][m].key
                 /\ attempts'[q][m].pc = "latest" =>
                        attempts[q][m].pc = "latest" \/ attempts[q][m].key = attempts[r][n].key
      <3>1. /\ DOMAIN attempts'[q] = DOMAIN attempts[q]
            /\ \A o \in DOMAIN attempts[q] :
                  /\ attempts'[q][o].pc = IF q = r /\ o = n THEN "latest" ELSE attempts[q][o].pc
                  /\ attempts'[q][o].key = attempts[q][o].key
        BY <2>1, GotoFacts
      <3> QED
        BY <3>1
    <2> QED
      BY <1>0, <2>1, <2>2 DEF MarksInv
  <1>4. ASSUME NEW r \in Run, NEW n \in DOMAIN attempts[r], WriteLatest(r, n)
        PROVE  MarksInv'
    <2>1. Goto(r, n, "returned") /\ success' = success /\ attempts[r][n].pc = "latest"
          /\ latest' = attempts[r][n].key /\ recorded' = recorded
      BY <1>4 DEF WriteLatest, Goto, PointerWritten
    <2>2. ASSUME NEW q \in Run, NEW m \in DOMAIN attempts'[q]
          PROVE  /\ m \in DOMAIN attempts[q] /\ attempts'[q][m].key = attempts[q][m].key
                 /\ attempts'[q][m].pc = "latest" => attempts[q][m].pc = "latest"
      <3>1. /\ DOMAIN attempts'[q] = DOMAIN attempts[q]
            /\ \A o \in DOMAIN attempts[q] :
                  /\ attempts'[q][o].pc = IF q = r /\ o = n THEN "returned" ELSE attempts[q][o].pc
                  /\ attempts'[q][o].key = attempts[q][o].key
        BY <2>1, GotoFacts
      <3> QED
        BY <3>1
    <2> QED
      BY <1>0, <2>1, <2>2 DEF MarksInv
  <1>5. ASSUME NEW r \in Run, RecordSuccess(r)
        PROVE  MarksInv'
    <2>1. PICK n \in DOMAIN attempts[r] : ~attempts[r][n].lost
      BY <1>5 DEF RecordSuccess
    <2>2. attempts[r][n].key = Key(r)
      BY <2>1 DEF OrderInv, CountedOn
    <2>3. recorded' = recorded \cup {Key(r)} /\ UNCHANGED <<success, latest, offered, attempts>>
      BY <1>5 DEF RecordSuccess, markerVars
    <2> QED
      BY <2>2, <2>3 DEF MarksInv
  <1>6. ASSUME NEW r \in Run, RecordFailure(r)
        PROVE  MarksInv'
    BY <1>6 DEF RecordFailure, markerVars, MarksInv
  <1>7. ASSUME NEW r \in Run, GiveUp(r) \/ Clear(r)
        PROVE  MarksInv'
    <2>1. UNCHANGED <<success, latest, recorded, offered>>
      BY <1>7 DEF GiveUp, Clear, markerVars
    <2>2. ASSUME NEW q \in Run, NEW m \in DOMAIN attempts'[q]
          PROVE  /\ m \in DOMAIN attempts[q] /\ attempts'[q][m].key = attempts[q][m].key
                 /\ attempts'[q][m].pc = attempts[q][m].pc
      BY LostFacts, <1>7
    <2> QED
      BY <2>1, <2>2 DEF MarksInv
  <1> QED
    BY <1>1, <1>2, <1>3, <1>4, <1>5, <1>6, <1>7, TaskSteps, MarkerSteps

LEMMA OrderKept ==
    ASSUME KeysApart, Typed, DirsInv, KeysInv, FilesInv, MarksInv, OrderInv, [Next]_vars
    PROVE  OrderInv'
  <1>1. CASE UNCHANGED <<workDir, markerVars, taskVars>>
    BY <1>1 DEF OrderInv, CountedOn, Accounted, Key, markerVars, taskVars
  <1>2. ASSUME NEW r \in Run, MakeWorkDir(r)
        PROVE  OrderInv'
    <2>1. /\ workDir[r] = NoDir
          /\ \A q \in Run : q # r => workDir'[q] = workDir[q] /\ Key(q)' = Key(q)
          /\ UNCHANGED <<success, latest, stray, attempts, recorded, ti>>
      BY <1>2 DEF MakeWorkDir, markerVars, taskVars, Typed, TypeOK, Key
    <2>2. Key(r)' \notin recorded
      <3>1. \A k \in recorded : \E y \in Unreported : y.key = k
        BY DEF MarksInv, FilesInv
      <3> QED
        BY <1>2, <3>1, NewKey DEF Key
    <2>3. ASSUME NEW q \in Run, NEW n \in DOMAIN attempts[q], ~attempts[q][n].lost
          PROVE  CountedOn(q, n)'
      <3>1. CountedOn(q, n)
        BY <2>3 DEF OrderInv
      <3> QED
        BY <2>1, <3>1 DEF CountedOn
    <2>4. ASSUME NEW q \in Run
          PROVE  Accounted(q)'
      BY <2>1, <2>2 DEF OrderInv, Accounted
    <2> QED
      BY <2>1, <2>3, <2>4 DEF OrderInv
  <1>3. ASSUME NEW r \in Run, Clear(r)
        PROVE  OrderInv'
    <2>1. /\ workDir'[r] = NoDir /\ ti'[r] = "none"
          /\ \A q \in Run : q # r => workDir'[q] = workDir[q] /\ Key(q)' = Key(q) /\ ti'[q] = ti[q]
          /\ UNCHANGED <<success, latest, stray, recorded>>
      BY <1>3 DEF Clear, markerVars, Typed, TypeOK, Key
    <2>2. ASSUME NEW q \in Run, NEW n \in DOMAIN attempts'[q], ~attempts'[q][n].lost
          PROVE  CountedOn(q, n)'
      <3>1. /\ q # r /\ ~attempts[q][n].lost /\ n \in DOMAIN attempts[q]
            /\ Len(attempts'[q]) = Len(attempts[q]) /\ attempts'[q][n].pc = attempts[q][n].pc
            /\ attempts'[q][n].key = attempts[q][n].key
            /\ attempts'[q][n].after = attempts[q][n].after
        BY <1>3, <2>2, LostFacts
      <3>2. CountedOn(q, n)
        BY <3>1 DEF OrderInv
      <3> QED
        BY <2>1, <3>1, <3>2 DEF CountedOn
    <2>3. ASSUME NEW q \in Run
          PROVE  Accounted(q)'
      BY <2>1 DEF OrderInv, Accounted
    <2> QED
      BY <2>2, <2>3 DEF OrderInv
  <1>4. ASSUME NEW r \in Run, StartFinalize(r)
        PROVE  OrderInv'
    <2> DEFINE a == [pc |-> IF DagOf[r] \in Marked THEN "success" ELSE "returned",
                     key |-> Key(r), round |-> clears[r], lost |-> FALSE, after |-> recorded]
    <2>1. /\ attempts' = [attempts EXCEPT ![r] = Append(@, a)] /\ attempts[r] \in Seq(Attempt)
          /\ workDir[r] # NoDir /\ ti[r] = "none" /\ Over(r)
          /\ UNCHANGED <<workDir, success, latest, stray, recorded, ti>>
      BY <1>4, AttemptsFacts DEF StartFinalize, Ready, markerVars, runVars
    <2>2. a.key = Key(r) /\ a.after = recorded /\ (DagOf[r] \in Marked => a.pc # "returned")
      OBVIOUS
    <2> HIDE DEF a
    <2>3. \A q \in Run : Key(q)' = Key(q)
      BY <2>1 DEF Key
    <2>4. ASSUME NEW q \in Run, NEW n \in DOMAIN attempts'[q], ~attempts'[q][n].lost
          PROVE  CountedOn(q, n)'
      <3>1. CASE q # r
        <4>1. attempts'[q] = attempts[q]
          BY <2>1, <3>1 DEF Typed, TypeOK
        <4>2. CountedOn(q, n)
          BY <2>4, <4>1 DEF OrderInv
        <4> QED
          BY <2>1, <2>3, <4>1, <4>2 DEF CountedOn
      <3>2. CASE q = r
        <4>1. attempts'[r] = Append(attempts[r], a)
          BY <2>1 DEF Typed, TypeOK
        <4>2. n = Len(attempts[r]) + 1 \/ (n \in DOMAIN attempts[r] /\ attempts'[r][n] = attempts[r][n])
          BY <2>1, <2>4, <3>2, <4>1
        <4>3. n = Len(attempts[r]) + 1 /\ attempts'[r][n] = a /\ Len(attempts'[r]) = n
          BY <2>1, <2>4, <3>2, <4>1, <4>2 DEF Over
        <4> QED
          BY <2>1, <2>2, <2>3, <3>2, <4>3 DEF CountedOn
      <3> QED
        BY <3>1, <3>2
    <2>5. ASSUME NEW q \in Run
          PROVE  Accounted(q)'
      BY <2>1, <2>3 DEF OrderInv, Accounted
    <2> QED
      BY <2>4, <2>5 DEF OrderInv
  <1>5. ASSUME NEW r \in Run, NEW n \in DOMAIN attempts[r], WriteSuccess(r, n)
        PROVE  OrderInv'
    <2>1. /\ Goto(r, n, "latest") /\ attempts[r][n].pc = "success"
          /\ success \subseteq success' /\ UNCHANGED <<workDir, latest, stray, recorded, ti>>
      BY <1>5 DEF WriteSuccess, Goto, runVars
    <2>2. ASSUME NEW q \in Run, NEW m \in DOMAIN attempts'[q], ~attempts'[q][m].lost
          PROVE  CountedOn(q, m)'
      <3>1. /\ m \in DOMAIN attempts[q] /\ Len(attempts'[q]) = Len(attempts[q])
            /\ attempts'[q][m].pc = IF q = r /\ m = n THEN "latest" ELSE attempts[q][m].pc
            /\ attempts'[q][m].key = attempts[q][m].key /\ ~attempts[q][m].lost
            /\ attempts'[q][m].after = attempts[q][m].after
        BY <2>1, <2>2, GotoFacts
      <3>2. CountedOn(q, m)
        BY <3>1 DEF OrderInv
      <3> QED
        BY <2>1, <3>1, <3>2 DEF CountedOn, Key
    <2>3. ASSUME NEW q \in Run
          PROVE  Accounted(q)'
      BY <2>1 DEF OrderInv, Accounted, Key
    <2> QED
      BY <2>2, <2>3 DEF OrderInv
  <1>6. ASSUME NEW r \in Run, NEW n \in DOMAIN attempts[r], WriteLatest(r, n)
        PROVE  OrderInv'
    <2> DEFINE k == attempts[r][n].key
    <2>1. /\ Goto(r, n, "returned") /\ attempts[r][n].pc = "latest"
          /\ latest' = k /\ k # NoKey /\ k \in success
          /\ stray \subseteq stray' /\ (attempts[r][n].lost => k \in stray')
          /\ UNCHANGED <<workDir, success, recorded, ti>>
      <3>1. k \in Keys
        BY AttemptsFacts DEF Attempt
      <3> QED
        BY <1>6, <3>1, NoKeyIsNone DEF WriteLatest, Goto, runVars, MarksInv, PointerWritten
    <2>2. k \notin recorded \ stray'
      <3>1. CASE attempts[r][n].lost
        BY <2>1, <3>1
      <3>2. CASE ~attempts[r][n].lost
        <4>1. CountedOn(r, n) /\ Accounted(r)
          BY <3>2 DEF OrderInv
        <4> QED
          BY <2>1, <4>1 DEF CountedOn, Accounted
      <3> QED
        BY <3>1, <3>2
    <2>3. ASSUME NEW q \in Run, NEW m \in DOMAIN attempts'[q], ~attempts'[q][m].lost
          PROVE  CountedOn(q, m)'
      <3>1. /\ m \in DOMAIN attempts[q] /\ Len(attempts'[q]) = Len(attempts[q])
            /\ attempts'[q][m].pc = IF q = r /\ m = n THEN "returned" ELSE attempts[q][m].pc
            /\ attempts'[q][m].key = attempts[q][m].key /\ ~attempts[q][m].lost
            /\ attempts'[q][m].after = attempts[q][m].after
        BY <2>1, <2>3, GotoFacts
      <3>2. CountedOn(q, m) /\ Key(q)' = Key(q)
        BY <2>1, <3>1 DEF OrderInv, Key
      <3> HIDE DEF k
      <3>3. CASE q = r /\ m = n
        <4>1. k = Key(q)
          BY <3>2, <3>3 DEF CountedOn, k
        <4> QED
          BY <2>1, <2>2, <3>1, <3>2, <3>3, <4>1 DEF CountedOn
      <3>4. CASE ~(q = r /\ m = n)
        BY <2>1, <2>2, <3>1, <3>2, <3>4 DEF CountedOn
      <3> QED
        BY <3>3, <3>4
    <2>4. ASSUME NEW q \in Run
          PROVE  Accounted(q)'
      BY <2>1 DEF OrderInv, Accounted, Key
    <2> QED
      BY <2>3, <2>4 DEF OrderInv
  <1>7. ASSUME NEW r \in Run, RecordSuccess(r)
        PROVE  OrderInv'
    <2>1. PICK n \in DOMAIN attempts[r] : attempts[r][n].pc = "returned" /\ ~attempts[r][n].lost
      BY <1>7 DEF RecordSuccess
    <2>2. /\ recorded' = recorded \cup {Key(r)} /\ ti'[r] = "success"
          /\ \A q \in Run : q # r => ti'[q] = ti[q]
          /\ UNCHANGED <<workDir, success, latest, stray, attempts>>
      BY <1>7 DEF RecordSuccess, markerVars, runVars, Typed, TypeOK
    <2>3. CountedOn(r, n)
      BY <2>1 DEF OrderInv
    <2>4. ASSUME NEW q \in Run, NEW m \in DOMAIN attempts[q], ~attempts[q][m].lost
          PROVE  CountedOn(q, m)'
      <3>1. CountedOn(q, m)
        BY <2>4 DEF OrderInv
      <3>2. q = r => m = n
        BY <2>3, <3>1 DEF CountedOn
      <3> QED
        BY <2>1, <2>2, <3>1, <3>2 DEF CountedOn, Key
    <2>5. ASSUME NEW q \in Run
          PROVE  Accounted(q)'
      <3>1. Key(q)' = Key(q) /\ Accounted(q)
        BY <2>2 DEF Key, OrderInv
      <3>2. workDir[q] # NoDir /\ Key(q) = Key(r) => q = r
        BY <2>3, KeysOfRunsApart DEF CountedOn
      <3> QED
        BY <2>1, <2>2, <2>3, <3>1, <3>2 DEF Accounted, CountedOn
    <2> QED
      BY <2>2, <2>4, <2>5 DEF OrderInv
  <1>8. ASSUME NEW r \in Run, RecordFailure(r)
        PROVE  OrderInv'
    <2>1. /\ ti[r] = "none" /\ ti'[r] = "failed" /\ Over(r)
          /\ \A q \in Run : q # r => ti'[q] = ti[q]
          /\ UNCHANGED <<workDir, success, latest, stray, attempts, recorded>>
      BY <1>8 DEF RecordFailure, markerVars, runVars, Typed, TypeOK
    <2>2. ASSUME NEW q \in Run, NEW m \in DOMAIN attempts[q], ~attempts[q][m].lost
          PROVE  CountedOn(q, m)'
      <3>1. CountedOn(q, m) /\ q # r
        BY <2>1, <2>2 DEF OrderInv, Over
      <3> QED
        BY <2>1, <3>1 DEF CountedOn, Key
    <2>3. ASSUME NEW q \in Run
          PROVE  Accounted(q)'
      <3>1. Accounted(q) /\ Key(q)' = Key(q)
        BY <2>1 DEF OrderInv, Key
      <3> QED
        BY <2>1, <3>1 DEF Accounted
    <2> QED
      BY <2>1, <2>2, <2>3 DEF OrderInv
  <1>9. ASSUME NEW r \in Run, GiveUp(r)
        PROVE  OrderInv'
    <2>1. UNCHANGED <<workDir, success, latest, stray, recorded, ti>>
      BY <1>9 DEF GiveUp, markerVars, runVars
    <2>2. ASSUME NEW q \in Run, NEW m \in DOMAIN attempts'[q], ~attempts'[q][m].lost
          PROVE  CountedOn(q, m)'
      <3>1. /\ ~attempts[q][m].lost /\ m \in DOMAIN attempts[q]
            /\ Len(attempts'[q]) = Len(attempts[q]) /\ attempts'[q][m].pc = attempts[q][m].pc
            /\ attempts'[q][m].key = attempts[q][m].key
            /\ attempts'[q][m].after = attempts[q][m].after
        BY <1>9, <2>2, LostFacts
      <3>2. CountedOn(q, m)
        BY <3>1 DEF OrderInv
      <3> QED
        BY <2>1, <3>1, <3>2 DEF CountedOn, Key
    <2>3. ASSUME NEW q \in Run
          PROVE  Accounted(q)'
      BY <2>1 DEF OrderInv, Accounted, Key
    <2> QED
      BY <2>2, <2>3 DEF OrderInv
  <1> QED
    BY <1>1, <1>2, <1>3, <1>4, <1>5, <1>6, <1>7, <1>8, <1>9, OrderSteps

\* The part of Typed that is about the runs.
RunsTyped ==
    /\ \A r \in Run : answer[r] \in Answers[r] /\ metas[r] \subseteq DOMAIN answer[r]
    /\ workDir \in [Run -> {NoDir} \cup minted]
    /\ clears \in [Run -> 0..MaxClears]
    /\ answer \in [Run -> UNION {Answers[r] : r \in Run}]
    /\ metas \in [Run -> SUBSET Nat]
    /\ minted \subseteq AllDirs
    /\ \A x \in past : x.key \in Keys /\ \A p \in DOMAIN x.answer : x.answer[p] \subseteq Row

\* The part of Typed that is about finalize.
TasksTyped ==
    /\ attempts \in [Run -> Seq(Attempt)]
    /\ ti \in [Run -> {"none", "success", "failed"}]
    /\ deaths \in 0..MaxDeaths

LEMMA RunsTypedKept ==
    ASSUME Typed, DirsInv, [Next]_vars
    PROVE  RunsTyped'
  <1>0. RunsTyped
    BY DEF Typed, TypeOK, RunsTyped
  <1>1. CASE UNCHANGED runVars
    BY <1>0, <1>1 DEF RunsTyped, runVars
  <1>2. ASSUME NEW r \in Run, MakeWorkDir(r)
        PROVE  RunsTyped'
    <2>1. PICK d \in MintedWorkDirs(r, minted) :
              workDir' = [workDir EXCEPT ![r] = d] /\ minted' = minted \cup {d}
      BY <1>2 DEF MakeWorkDir
    <2>2. d \in AllDirs
      BY DirFacts
    <2>3. UNCHANGED <<answer, past, metas, clears>>
      BY <1>2 DEF MakeWorkDir
    <2>4. workDir' \in [Run -> {NoDir} \cup minted']
      BY <1>0, <2>1 DEF RunsTyped
    <2> QED
      BY <1>0, <2>1, <2>2, <2>3, <2>4 DEF RunsTyped
  <1>3. ASSUME NEW r \in Run, Clear(r)
        PROVE  RunsTyped'
    <2>1. PICK f \in Answers[r] : answer' = [answer EXCEPT ![r] = f]
      BY <1>3 DEF Clear
    <2>2. /\ workDir' = [workDir EXCEPT ![r] = NoDir] /\ metas' = [metas EXCEPT ![r] = {}]
          /\ clears' = [clears EXCEPT ![r] = @ + 1] /\ clears[r] < MaxClears
          /\ past' = past \cup {Execution(r)} /\ minted' = minted /\ workDir[r] # NoDir
      BY <1>3 DEF Clear, Execution
    <2>3. \A q \in Run : answer'[q] \in Answers[q] /\ metas'[q] \subseteq DOMAIN answer'[q]
      BY <1>0, <2>1, <2>2 DEF RunsTyped
    <2>4. clears' \in [Run -> 0..MaxClears]
      BY <1>0, <2>2, ParquetAssumption DEF RunsTyped
    <2>5. Execution(r).key \in Keys /\ \A p \in DOMAIN answer[r] : answer[r][p] \subseteq Row
      BY <1>0, <2>2, KeyOfRun, ParquetAssumption DEF RunsTyped, Execution
    <2>6. \A x \in past' : x.key \in Keys /\ \A p \in DOMAIN x.answer : x.answer[p] \subseteq Row
      BY <1>0, <2>2, <2>5 DEF RunsTyped, Execution
    <2>7. /\ workDir' \in [Run -> {NoDir} \cup minted'] /\ metas' \in [Run -> SUBSET Nat]
          /\ answer' \in [Run -> UNION {Answers[q] : q \in Run}]
      BY <1>0, <2>1, <2>2 DEF RunsTyped
    <2> QED
      BY <1>0, <2>2, <2>3, <2>4, <2>6, <2>7 DEF RunsTyped
  <1>4. ASSUME NEW r \in Run, NEW p \in DOMAIN answer[r], Write(r, p)
        PROVE  RunsTyped'
    <2>1. UNCHANGED <<answer, workDir, minted, past, clears>> /\ metas' = [metas EXCEPT ![r] = @ \cup {p}]
      BY <1>4 DEF Write
    <2>2. p \in Nat
      BY <1>0, ParquetAssumption DEF RunsTyped
    <2> QED
      BY <1>0, <2>1, <2>2 DEF RunsTyped
  <1> QED
    BY <1>1, <1>2, <1>3, <1>4, RunSteps

LEMMA TasksTypedKept ==
    ASSUME Typed, DirsInv, [Next]_vars
    PROVE  TasksTyped'
  <1>0. TasksTyped
    BY DEF Typed, TypeOK, TasksTyped
  <1>1. CASE UNCHANGED taskVars
    BY <1>0, <1>1 DEF TasksTyped, taskVars
  <1>2. ASSUME NEW r \in Run, StartFinalize(r)
        PROVE  TasksTyped'
    <2> DEFINE a == [pc |-> IF DagOf[r] \in Marked THEN "success" ELSE "returned",
                     key |-> Key(r), round |-> clears[r], lost |-> FALSE, after |-> recorded]
    <2>1. /\ attempts' = [attempts EXCEPT ![r] = Append(@, a)]
          /\ workDir[r] # NoDir /\ ti' = ti /\ deaths' = deaths
      BY <1>2 DEF StartFinalize, Ready
    <2>2. a \in Attempt
      <3>1. Key(r) \in Keys /\ clears[r] \in 0..MaxClears /\ recorded \in SUBSET Keys
        BY <2>1, KeyOfRun DEF Typed, TypeOK
      <3> QED
        BY <3>1 DEF Attempt
    <2> HIDE DEF a
    <2> QED
      BY <1>0, <2>1, <2>2 DEF TasksTyped
  <1>3. ASSUME NEW r \in Run, NEW n \in DOMAIN attempts[r], WriteSuccess(r, n) \/ WriteLatest(r, n)
        PROVE  TasksTyped'
    <2>1. Goto(r, n, "latest") \/ Goto(r, n, "returned")
      BY <1>3 DEF WriteSuccess, WriteLatest
    <2>2. attempts' \in [Run -> Seq(Attempt)]
      BY <2>1, GotoFacts
    <2> QED
      BY <1>0, <2>1, <2>2 DEF TasksTyped, Goto
  <1>4. ASSUME NEW r \in Run, RecordSuccess(r) \/ RecordFailure(r)
        PROVE  TasksTyped'
    BY <1>0, <1>4 DEF TasksTyped, RecordSuccess, RecordFailure
  <1>5. ASSUME NEW r \in Run, GiveUp(r) \/ Clear(r)
        PROVE  TasksTyped'
    <2>1. attempts' \in [Run -> Seq(Attempt)]
      BY <1>5, LostFacts
    <2>2. ti' \in [Run -> {"none", "success", "failed"}]
      BY <1>0, <1>5 DEF TasksTyped, GiveUp, Clear
    <2>3. deaths' \in 0..MaxDeaths
      BY <1>0, <1>5, ParquetAssumption DEF TasksTyped, GiveUp, Clear
    <2> QED
      BY <2>1, <2>2, <2>3 DEF TasksTyped
  <1> QED
    BY <1>1, <1>2, <1>3, <1>4, <1>5, TaskSteps

\* An execution has a run key and the rows of its answer are rows.
LEMMA ExecutionFacts ==
    ASSUME RunsTyped, DirsInv, NEW x \in Unreported
    PROVE  x.key \in Keys /\ \A p \in DOMAIN x.answer : x.answer[p] \subseteq Row
  <1>1. CASE x \in past
    BY <1>1 DEF RunsTyped
  <1>2. ASSUME NEW r \in Run, workDir[r] # NoDir, x = Execution(r)
        PROVE  x.key \in Keys /\ \A p \in DOMAIN x.answer : x.answer[p] \subseteq Row
    BY <1>2, KeyOfRun, ParquetAssumption DEF RunsTyped, Execution
  <1> QED
    BY <1>1, <1>2, UnreportedIs

\* What is under the base directory then has its type.
LEMMA BaseTyped ==
    RunsTyped /\ DirsInv /\ FilesInv /\ MarksInv =>
        /\ \A path \in DOMAIN files : files[path] \subseteq Row
        /\ success \subseteq Keys /\ recorded \subseteq Keys /\ latest \in Keys \cup {NoKey}
  <1> SUFFICES ASSUME RunsTyped, DirsInv, FilesInv, MarksInv
               PROVE  /\ \A path \in DOMAIN files : files[path] \subseteq Row
                      /\ success \subseteq Keys /\ recorded \subseteq Keys
                      /\ latest \in Keys \cup {NoKey}
    OBVIOUS
  <1>1. \A path \in DOMAIN files : files[path] \subseteq Row
    BY ExecutionFacts DEF FilesInv
  <1>2. success \subseteq Keys /\ recorded \subseteq Keys
    BY ExecutionFacts DEF MarksInv, FilesInv
  <1> QED
    BY <1>1, <1>2 DEF MarksInv

LEMMA StrayKept ==
    ASSUME Typed, [Next]_vars
    PROVE  stray' \subseteq Keys
  <1>1. ASSUME NEW r \in Run, NEW n \in DOMAIN attempts[r], WriteLatest(r, n)
        PROVE  stray' \subseteq Keys
    <2>1. attempts[r][n].key \in Keys
      BY AttemptsFacts DEF Attempt
    <2> QED
      BY <1>1, <2>1 DEF WriteLatest, Typed, TypeOK
  <1> QED
    BY <1>1, MarkerSteps DEF WriteSuccess, markerVars, Typed, TypeOK

-----------------------------------------------------------------------------
(* The theorems *)

LEMMA InitIInv ==
    ASSUME Init
    PROVE  IInv
  <1>1. Unreported = {} /\ DOMAIN files = {} /\ \A r \in Run : DOMAIN attempts[r] = {}
    BY DEF Init, Unreported
  <1>2. Typed
    <2>1. /\ workDir \in [Run -> {NoDir} \cup minted] /\ clears \in [Run -> 0..MaxClears]
          /\ ti \in [Run -> {"none", "success", "failed"}] /\ deaths \in 0..MaxDeaths
          /\ metas \in [Run -> SUBSET Nat]
      BY ParquetAssumption DEF Init
    <2>2. attempts \in [Run -> Seq(Attempt)]
      BY DEF Init
    <2> QED
      BY <1>1, <2>1, <2>2 DEF Init, Typed, TypeOK
  <1>3. DirsInv /\ KeysInv /\ FilesInv /\ MarksInv /\ ReaderInv
    BY <1>1 DEF Init, DirsInv, KeysInv, FilesInv, MarksInv, ReaderInv, Idle
  <1>4. OrderInv
    BY <1>1 DEF Init, OrderInv, Accounted
  <1> QED
    BY <1>2, <1>3, <1>4 DEF IInv

LEMMA IInvHolds == KeysApart => (Spec => []IInv)
  <1> SUFFICES ASSUME KeysApart
               PROVE  Spec => []IInv
    OBVIOUS
  <1>1. Init => IInv
    BY InitIInv
  <1>2. (RunsTyped /\ DirsInv /\ FilesInv /\ MarksInv)' =>
            (/\ \A path \in DOMAIN files : files[path] \subseteq Row
             /\ success \subseteq Keys /\ recorded \subseteq Keys /\ latest \in Keys \cup {NoKey})'
    BY BaseTyped, PTL
  <1>3. IInv /\ [Next]_vars => IInv'
    <2> SUFFICES ASSUME IInv, [Next]_vars
                 PROVE  IInv'
      OBVIOUS
    <2> USE DEF IInv
    <2>1. DirsInv' /\ KeysInv' /\ FilesInv' /\ MarksInv' /\ OrderInv'
      BY DirsKept, KeysKept, FilesKept, MarksKept, OrderKept
    <2>2. ReaderInv'
      BY <2>1, ReaderKept
    <2>3. RunsTyped' /\ TasksTyped' /\ stray' \subseteq Keys
      BY RunsTypedKept, TasksTypedKept, StrayKept
    <2>4. Typed'
      BY <1>2, <2>1, <2>3 DEF RunsTyped, TasksTyped, Typed, TypeOK
    <2> QED
      BY <2>1, <2>2, <2>4
  <1> QED
    BY <1>1, <1>3, PTL DEF Spec

\* If executions have run directories of their own, the variables keep their
\* types (ParquetSink.finalize, make_work_dir and the write task).
THEOREM ParquetTypeCorrect == KeysApart => (Spec => []TypeOK)
  <1>1. IInv => TypeOK
    BY DEF IInv, Typed
  <1> QED
    BY <1>1, IInvHolds, PTL

\* If executions have run directories of their own, a consumer that follows
\* _LATEST reads one whole answer, whatever ParquetSink writes meanwhile and
\* whatever abandoned attempts still write.
THEOREM ParquetReaderSeesOneAnswer == KeysApart => (Spec => []ReaderSeesOneAnswer)
  <1>1. ReaderInv => ReaderSeesOneAnswer
    <2> SUFFICES ASSUME ReaderInv, reader.pc = "done"
                 PROVE  \E x \in offered : x.key = reader.key /\ reader.got = Contents(x.answer)
      BY DEF ReaderSeesOneAnswer
    <2>1. PICK x \in offered : x.key = reader.key
      BY DEF ReaderInv
    <2>2. reader.todo = {} /\ reader.got = {<<p, x.answer[p]>> : p \in DOMAIN x.answer \ reader.todo}
      BY <2>1 DEF ReaderInv
    <2>3. reader.got = Contents(x.answer)
      BY <2>2 DEF Contents
    <2> QED
      BY <2>1, <2>3
  <1> QED
    BY <1>1, IInvHolds, PTL DEF IInv

\* If executions have run directories of their own, the pointer that a
\* successful finalize of ParquetSink leaves names no run that was finalized
\* before it, unless an abandoned attempt put it there.
THEOREM ParquetLatestNotStale == KeysApart => (Spec => []LatestNotStale)
  <1>1. OrderInv => LatestNotStale
    BY DEF OrderInv, Accounted, CountedOn, LatestNotStale
  <1> QED
    BY <1>1, IInvHolds, PTL DEF IInv

\* The answers of the executions that are marked.
AnswersMarked == {<<x.key, Contents(x.answer)>> : x \in {y \in offered : y.key \in success}}

MarkedInv == IInv /\ Marks = AnswersMarked

LEMMA MarksAreAnswers == IInv => MarkedInv
  <1> SUFFICES ASSUME IInv
               PROVE  Marks = AnswersMarked
    BY DEF MarkedInv
  <1>1. \A x \in offered : ReadBack(x.key) = Contents(x.answer)
    BY OfferedFiles DEF IInv
  <1>2. \A k \in success : \E x \in offered : x.key = k
    BY DEF IInv, MarksInv
  <1> QED
    BY <1>1, <1>2 DEF Marks, AnswersMarked

\* If executions have run directories of their own, the base directory of
\* ParquetSink is a register of whole results that never change.
THEOREM ParquetImplementsRegister == KeysApart => (Spec => RefinesResultRegister)
  <1> SUFFICES ASSUME KeysApart
               PROVE  Spec => RefinesResultRegister
    OBVIOUS
  <1> DEFINE Offers == {<<x.key, Contents(x.answer)>> : x \in offered}
  <1>1. Init => Register!Init
    BY DEF Init, Register!Init, Marks, NoKey
  <1>2. MarkedInv /\ MarkedInv' /\ [Next]_vars => [Register!Next]_(Register!vars)
    <2> SUFFICES ASSUME MarkedInv, MarkedInv', [Next]_vars
                 PROVE  [Register!Next]_(Register!vars)
      OBVIOUS
    <2>a. IInv /\ IInv' /\ Marks = AnswersMarked /\ Marks' = AnswersMarked'
      BY DEF MarkedInv
    <2>0. ASSUME AnswersMarked' = AnswersMarked
          PROVE  Marks' = Marks
      BY <2>a, <2>0
    <2>1. CASE UNCHANGED <<markerVars, offered>>
      <3>1. Offers' = Offers /\ Marks' = Marks /\ latest' = latest
        BY <2>0, <2>1 DEF AnswersMarked, markerVars
      <3> QED
        BY <3>1 DEF Register!vars
    <2>2. ASSUME NEW r \in Run, StartFinalize(r)
          PROVE  [Register!Next]_(Register!vars)
      <3>1. offered \subseteq offered' /\ success' = success /\ latest' = latest
        BY <2>2 DEF StartFinalize, markerVars
      <3>2. ASSUME NEW x \in offered', x.key \in success
            PROVE  x \in offered
        <4>1. PICK y \in offered : y.key = x.key
          BY <2>a, <3>2 DEF IInv, MarksInv
        <4>2. x \in Unreported' /\ y \in Unreported'
          BY <2>a, <3>1 DEF IInv, FilesInv
        <4> QED
          BY <2>a, <4>1, <4>2 DEF IInv, KeysInv
      <3>3. Marks' = Marks
        BY <2>0, <3>1, <3>2 DEF AnswersMarked
      <3>4. Offers \subseteq Offers'
        BY <3>1
      <3> QED
        BY <3>1, <3>3, <3>4 DEF Register!Next, Register!Offer
    <2>3. ASSUME NEW r \in Run, NEW n \in DOMAIN attempts[r], WriteSuccess(r, n)
          PROVE  [Register!Next]_(Register!vars)
      <3> DEFINE k == attempts[r][n].key
      <3>1. success' = success \cup {k} /\ latest' = latest /\ offered' = offered
        BY <2>3 DEF WriteSuccess, Goto
      <3>2. PICK x \in offered : x.key = k
        BY <2>a DEF IInv, MarksInv
      <3> HIDE DEF k
      <3>3. \A y \in offered : y.key = k => y = x
        BY <2>a, <3>2 DEF IInv, KeysInv, FilesInv
      <3>4. CASE k \in success
        <4>1. Marks' = Marks /\ Offers' = Offers
          BY <2>0, <3>1, <3>4 DEF AnswersMarked
        <4> QED
          BY <3>1, <4>1 DEF Register!vars
      <3>5. CASE k \notin success
        <4> DEFINE o == <<x.key, Contents(x.answer)>>
        <4>1. AnswersMarked' = AnswersMarked \cup {o}
          BY <3>1, <3>2, <3>3 DEF AnswersMarked
        <4>2. o[1] \notin Register!Names(AnswersMarked)
          BY <3>2, <3>5 DEF Register!Names, AnswersMarked
        <4>3. o \in Offers /\ Offers' = Offers
          BY <3>1
        <4> QED
          BY <2>a, <3>1, <4>1, <4>2, <4>3 DEF Register!Next, Register!Publish
      <3> QED
        BY <3>4, <3>5
    <2>4. ASSUME NEW r \in Run, NEW n \in DOMAIN attempts[r], WriteLatest(r, n)
          PROVE  [Register!Next]_(Register!vars)
      <3>1. latest' \in success /\ success' = success /\ offered' = offered
        BY <2>a, <2>4 DEF WriteLatest, Goto, IInv, MarksInv, PointerWritten
      <3>2. Marks' = Marks /\ Offers' = Offers
        BY <2>0, <3>1 DEF AnswersMarked
      <3>3. latest' \in Register!Names(Marks)
        <4>1. <<latest', ReadBack(latest')>> \in Marks
          BY <3>1 DEF Marks
        <4> QED
          BY <4>1 DEF Register!Names
      <3> QED
        BY <3>2, <3>3 DEF Register!Next, Register!Point
    <2> QED
      BY <2>1, <2>2, <2>3, <2>4, OfferedSteps, MarkerSteps DEF StartFinalize, WriteSuccess, WriteLatest, Goto
  <1>3. IInv => MarkedInv
    BY MarksAreAnswers
  <1>4. Spec => []IInv
    BY IInvHolds
  <1> QED
    BY <1>1, <1>2, <1>3, <1>4, PTL DEF Spec, RefinesResultRegister, Register!Spec
=============================================================================
