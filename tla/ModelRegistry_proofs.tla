------------------------- MODULE ModelRegistry_proofs -------------------------
(***************************************************************************)
(* Processes that share the registry file under its lock implement the     *)
(* atomic registry, for any number of processes and runs, any model types  *)
(* and any crashes; and what a script leaves in the production directory   *)
(* is the files of one run.                                                *)
(***************************************************************************)
EXTENDS ModelRegistry, SequenceTheorems, TLAPS
-----------------------------------------------------------------------------
(* What an operation makes of the list of runs. *)

RunLists == Seq(AR!Run)

OneOfEach(rs) ==
    \A i, j \in DOMAIN rs :
        rs[i].status = "production" /\ rs[j].status = "production"
            /\ rs[i].type = rs[j].type => i = j

LEMMA OperationKinds ==
    ASSUME NEW o \in Operations
    PROVE  \/ o.kind = "register" /\ o.type \in Types
           \/ o.kind \in {"promote", "archive"} /\ o.run \in RunIds
           \/ o.kind = "update" /\ o.run \in RunIds /\ o.metric \in Metrics
BY DEF Operations

\* A registered run is added to the end, in staging.
LEMMA RegisteredRuns ==
    ASSUME NEW rs \in RunLists, NEW t \in Types
    PROVE  /\ AR!Registered(rs, t) \in RunLists
           /\ DOMAIN AR!Registered(rs, t) = DOMAIN rs \cup {Len(rs) + 1}
           /\ \A i \in DOMAIN rs : AR!Registered(rs, t)[i] = rs[i]
           /\ AR!Registered(rs, t)[Len(rs) + 1].status = "staging"
<1> DEFINE new == [type |-> t, status |-> "staging", metrics |-> {}]
<1>1. new \in AR!Run /\ new.status = "staging"
  BY DEF AR!Run
<1> HIDE DEF new
<1>2. AR!Registered(rs, t) = Append(rs, new)
  BY DEF AR!Registered, new
<1>3. QED
  BY <1>1, <1>2 DEF RunLists

\* The other operations change runs where they are, and never their type.
Rewrite(new, rs) ==
    /\ new \in RunLists
    /\ DOMAIN new = DOMAIN rs
    /\ \A j \in DOMAIN rs : new[j].type = rs[j].type

LEMMA RewriteIntro ==
    ASSUME NEW rs \in RunLists, NEW new \in [DOMAIN rs -> AR!Run],
           \A j \in DOMAIN rs : new[j].type = rs[j].type
    PROVE  Rewrite(new, rs)
<1>1. Len(rs) \in Nat /\ DOMAIN rs = 1..Len(rs)
  BY LenProperties DEF RunLists
<1>2. new \in Seq(AR!Run)
  BY <1>1, SeqDef
<1>3. QED
  BY <1>2 DEF Rewrite, RunLists

LEMMA RunsOf ==
    ASSUME NEW rs \in RunLists, NEW j \in DOMAIN rs
    PROVE  rs[j] \in AR!Run
BY LenProperties DEF RunLists

LEMMA PromotedRuns ==
    ASSUME NEW rs \in RunLists, NEW i \in DOMAIN rs
    PROVE  Rewrite(AR!Promoted(rs, i), rs)
<1> DEFINE new == AR!Promoted(rs, i)
<1>1. DOMAIN new = DOMAIN rs
  BY DEF AR!Promoted
<1>2. ASSUME NEW j \in DOMAIN rs
      PROVE  new[j] \in AR!Run /\ new[j].type = rs[j].type
  BY RunsOf DEF AR!Promoted, AR!Run
<1>3. new \in [DOMAIN rs -> AR!Run]
  BY <1>2 DEF AR!Promoted
<1>4. QED
  BY <1>2, <1>3, RewriteIntro

LEMMA ArchivedRuns ==
    ASSUME NEW rs \in RunLists, NEW i \in DOMAIN rs
    PROVE  Rewrite(AR!Archived(rs, i), rs)
<1> DEFINE new == AR!Archived(rs, i)
<1>2. ASSUME NEW j \in DOMAIN rs
      PROVE  new[j] \in AR!Run /\ new[j].type = rs[j].type
  BY RunsOf DEF AR!Archived, AR!Run
<1>3. new \in [DOMAIN rs -> AR!Run]
  BY <1>2 DEF AR!Archived
<1>4. QED
  BY <1>2, <1>3, RewriteIntro

LEMMA MeasuredRuns ==
    ASSUME NEW rs \in RunLists, NEW i \in DOMAIN rs, NEW m \in Metrics
    PROVE  Rewrite(AR!Measured(rs, i, m), rs)
<1> DEFINE new == AR!Measured(rs, i, m)
<1>2. ASSUME NEW j \in DOMAIN rs
      PROVE  new[j] \in AR!Run /\ new[j].type = rs[j].type
  BY RunsOf DEF AR!Measured, AR!Run
<1>3. new \in [DOMAIN rs -> AR!Run]
  BY <1>2, RunsOf DEF AR!Measured
<1>4. QED
  BY <1>2, <1>3, RewriteIntro

\* One operation on a list of runs: the runs stay, with their types.
LEMMA EditedRuns ==
    ASSUME NEW rs \in RunLists, NEW o \in Operations, Finds(o, rs)
    PROVE  /\ Edited(o, rs) \in RunLists
           /\ DOMAIN rs \subseteq DOMAIN Edited(o, rs)
           /\ \A j \in DOMAIN rs : Edited(o, rs)[j].type = rs[j].type
<1>1. CASE o.kind = "register"
  <2>1. o.type \in Types
    BY <1>1 DEF Operations
  <2>2. Edited(o, rs) = AR!Registered(rs, o.type)
    BY <1>1 DEF Edited
  <2>3. QED
    BY <2>1, <2>2, RegisteredRuns
<1>2. CASE o.kind # "register"
  <2>1. o.run \in DOMAIN rs
    BY <1>2 DEF Finds
  <2>2. CASE o.kind = "promote"
    BY <2>1, <2>2, PromotedRuns DEF Edited, Rewrite
  <2>3. CASE o.kind = "archive"
    BY <2>1, <2>3, ArchivedRuns DEF Edited, Rewrite
  <2>4. CASE o.kind = "update"
    <3>1. o.metric \in Metrics
      BY <2>4 DEF Operations
    <3>2. QED
      BY <2>1, <2>4, <3>1, MeasuredRuns DEF Edited, Rewrite
  <2>5. QED
    BY <1>2, <2>2, <2>3, <2>4, OperationKinds
<1>3. QED
  BY <1>1, <1>2

\* And it keeps at most one run of each type in production.
LEMMA EditedOneOfEach ==
    ASSUME NEW rs \in RunLists, NEW o \in Operations, Finds(o, rs), OneOfEach(rs)
    PROVE  OneOfEach(Edited(o, rs))
<1>1. CASE o.kind = "register"
  <2>1. o.type \in Types
    BY <1>1 DEF Operations
  <2>2. Edited(o, rs) = AR!Registered(rs, o.type)
    BY <1>1 DEF Edited
  <2> DEFINE new == AR!Registered(rs, o.type)
  <2>3. /\ DOMAIN new = DOMAIN rs \cup {Len(rs) + 1}
        /\ \A i \in DOMAIN rs : new[i] = rs[i]
        /\ new[Len(rs) + 1].status # "production"
    BY <2>1, RegisteredRuns
  <2> HIDE DEF new
  <2>4. QED
    BY <2>2, <2>3 DEF OneOfEach, new
<1>2. CASE o.kind # "register"
  <2>1. o.run \in DOMAIN rs
    BY <1>2 DEF Finds
  <2>2. CASE o.kind = "promote"
    <3>1. Edited(o, rs) = AR!Promoted(rs, o.run)
      BY <2>2 DEF Edited
    <3> DEFINE new == AR!Promoted(rs, o.run)
    <3>2. DOMAIN new = DOMAIN rs /\ \A j \in DOMAIN rs : new[j].type = rs[j].type
      BY <2>1, PromotedRuns DEF Rewrite
    <3>3. ASSUME NEW j \in DOMAIN rs, new[j].status = "production", j # o.run
          PROVE  rs[j].status = "production" /\ rs[j].type # rs[o.run].type
      BY <3>3, RunsOf DEF AR!Promoted, AR!Run
    <3>4. QED
      BY <2>1, <3>1, <3>2, <3>3 DEF OneOfEach
  <2>3. CASE o.kind = "archive"
    <3>1. Edited(o, rs) = AR!Archived(rs, o.run)
      BY <2>3 DEF Edited
    <3>2. QED
      BY <2>1, <3>1, RunsOf DEF OneOfEach, AR!Archived, AR!Run
  <2>4. CASE o.kind = "update"
    <3>1. Edited(o, rs) = AR!Measured(rs, o.run, o.metric)
      BY <2>4 DEF Edited
    <3>2. QED
      BY <2>1, <3>1, RunsOf DEF OneOfEach, AR!Measured, AR!Run
  <2>5. QED
    BY <1>2, <2>2, <2>3, <2>4, OperationKinds
<1>3. QED
  BY <1>1, <1>2
-----------------------------------------------------------------------------
(* Who is inside, and what the file becomes. *)

LEMMA InitHolds == Init => TypeOK /\ RegistryInv
<1> SUFFICES ASSUME Init PROVE TypeOK /\ RegistryInv
  OBVIOUS
<1> USE RegistryAssumption DEF Init
<1>1. <<>> \in Seq(AR!Run)
  OBVIOUS
<1>2. TypeOK
  <2>1. file \in Seq(AR!Run) /\ data \in [Processes -> Seq(AR!Run)]
    BY <1>1
  <2>2. prod \in [Names -> RunIds \cup {0}]
    OBVIOUS
  <2>3. /\ lock \in Processes \cup {Nobody}
        /\ pc \in [Processes -> {"idle"}]
        /\ op \in [Processes -> Operations \cup {NoOp}]
        /\ todo \in [Processes -> SUBSET Names]
    OBVIOUS
  <2>4. alone \in SUBSET Processes /\ faults \in 0..MaxFaults
    OBVIOUS
  <2>5. spoiled \in BOOLEAN
    BY Zenon
  <2>6. QED
    BY <2>1, <2>2, <2>3, <2>4, <2>5 DEF TypeOK
<1>3. OneProduction
  BY DEF OneProduction, AR!OneProduction
<1>4. Exclusive
  <2>1. \A p \in Processes : pc[p] = "idle" /\ lock # p
    OBVIOUS
  <2>2. QED
    BY <2>1 DEF Exclusive, Guarded, Inside
<1>5. \A p \in Processes : Promoting(p)
  BY DEF Promoting, NoOp
<1>6. Directory
  BY DEF Directory, WholeDirectory, InDirectory
<1>7. QED
  BY <1>2, <1>3, <1>4, <1>5, <1>6 DEF RegistryInv

\* The file changes when the process inside renames what it has written.
LEMMA FileSteps ==
    ASSUME TypeOK, Exclusive, [Next]_vars
    PROVE  \/ UNCHANGED file
           \/ \E p \in Processes :
                 /\ pc[p] = "replace"
                 /\ op[p] \in Operations
                 /\ Finds(op[p], file)
                 /\ file' = Edited(op[p], file)
<1>1. CASE \E p \in Processes : Replace(p)
  <2>1. PICK p \in Processes : Replace(p)
    BY <1>1
  <2>2. QED
    BY <2>1 DEF Replace, Exclusive, Guarded, TypeOK
<1>2. CASE ~\E p \in Processes : Replace(p)
  BY <1>2 DEF Next, vars, Operate, CopyArtifacts, Begin, BeginScript, Crash, Acquire,
     Read, WriteTmp, Unlock, Raise, ArtifactsMissing, EnterDirectory, ClearItem,
     ClearDone, CopyItem, CopyDone, registry
<1>3. QED
  BY <1>1, <1>2

\* The runs of the file stay, with their types.
LEMMA FileGrows ==
    ASSUME TypeOK, Exclusive, [Next]_vars
    PROVE  /\ file' \in RunLists
           /\ DOMAIN file \subseteq DOMAIN file'
           /\ \A j \in DOMAIN file : file'[j].type = file[j].type
<1>1. file \in RunLists
  BY DEF TypeOK, RunLists
<1>2. CASE UNCHANGED file
  BY <1>1, <1>2
<1>3. CASE ~UNCHANGED file
  BY <1>1, <1>3, FileSteps, EditedRuns
<1>4. QED
  BY <1>2, <1>3

LEMMA OneProductionKept ==
    ASSUME TypeOK, Exclusive, OneProduction, [Next]_vars
    PROVE  OneProduction'
<1>1. file \in RunLists /\ OneOfEach(file)
  BY DEF TypeOK, RunLists, OneProduction, AR!OneProduction, OneOfEach
<1>2. OneOfEach(file')
  <2>1. CASE UNCHANGED file
    BY <1>1, <2>1
  <2>2. CASE ~UNCHANGED file
    BY <1>1, <2>2, FileSteps, EditedOneOfEach
  <2>3. QED
    BY <2>1, <2>2
<1>3. QED
  BY <1>2 DEF OneProduction, AR!OneProduction, OneOfEach

LEMMA ExclusiveKept ==
    ASSUME TypeOK, Exclusive, [Next]_vars
    PROVE  Exclusive'
<1> SUFFICES ASSUME NEW q \in Processes PROVE Guarded(q)'
  BY DEF Exclusive
<1> USE RegistryAssumption DEF TypeOK, Exclusive, Guarded, Inside, Goto
<1>1. CASE UNCHANGED vars
  BY <1>1 DEF vars, registry, history
<1>2. ASSUME NEW p \in Processes, Begin(p) \/ BeginScript(p)
      PROVE  Guarded(q)'
  BY <1>2 DEF Begin, BeginScript, registry
<1>3. ASSUME NEW p \in Processes, Acquire(p)
      PROVE  Guarded(q)'
  BY <1>3 DEF Acquire
<1>4. ASSUME NEW p \in Processes, Read(p)
      PROVE  Guarded(q)'
  BY <1>4 DEF Read, registry
<1>5. ASSUME NEW p \in Processes, WriteTmp(p)
      PROVE  Guarded(q)'
  BY <1>5 DEF WriteTmp, registry
<1>6. ASSUME NEW p \in Processes, Replace(p)
      PROVE  Guarded(q)'
  BY <1>6 DEF Replace
<1>7. ASSUME NEW p \in Processes, Unlock(p) \/ Raise(p)
      PROVE  Guarded(q)'
  BY <1>7 DEF Unlock, Raise, End
<1>8. ASSUME NEW p \in Processes, CopyArtifacts(p)
      PROVE  Guarded(q)'
  BY <1>8 DEF CopyArtifacts, ArtifactsMissing, EnterDirectory, ClearItem, ClearDone,
     CopyItem, CopyDone, End, registry
<1>9. ASSUME NEW p \in Processes, Crash(p)
      PROVE  Guarded(q)'
  BY <1>9 DEF Crash, End
<1>10. QED
  BY <1>1, <1>2, <1>3, <1>4, <1>5, <1>6, <1>7, <1>8, <1>9 DEF Next, Operate

LEMMA TypesKept ==
    ASSUME TypeOK, Exclusive, \A p \in Processes : Promoting(p), [Next]_vars
    PROVE  TypeOK'
<1> USE RegistryAssumption
<1>0. file' \in Seq(AR!Run) /\ spoiled' \in BOOLEAN
  <2>1. file' \in Seq(AR!Run)
    BY FileGrows DEF RunLists
  <2>2. spoiled' \in BOOLEAN
    <3>1. spoiled \in BOOLEAN
      BY DEF TypeOK
    <3>2. \/ spoiled' = spoiled
          \/ spoiled' = TRUE
          \/ \E p \in Processes : EnterDirectory(p) \/ CopyDone(p) \/ Crash(p)
      BY DEF Next, vars, Operate, CopyArtifacts, Begin, BeginScript, Acquire, Read,
         WriteTmp, Replace, Unlock, Raise, ArtifactsMissing, ClearItem, ClearDone,
         CopyItem, history
    <3>3. QED
      BY <3>1, <3>2, Zenon DEF EnterDirectory, CopyDone, Crash
  <2>3. QED
    BY <2>1, <2>2
<1> USE DEF TypeOK, Goto
<1>1. CASE UNCHANGED vars
  BY <1>1 DEF vars, registry, history
<1>2. ASSUME NEW p \in Processes, Begin(p) \/ BeginScript(p)
      PROVE  TypeOK'
  BY <1>2 DEF Begin, BeginScript, registry, history
<1>3. ASSUME NEW p \in Processes, Acquire(p) \/ Read(p) \/ Replace(p)
      PROVE  TypeOK'
  <2>1. data' \in [Processes -> Seq(AR!Run)]
    <3>1. <<>> \in Seq(AR!Run)
      OBVIOUS
    <3>2. QED
      BY <1>3, <3>1 DEF Acquire, Read, Replace
  <2>2. QED
    BY <1>0, <1>3, <2>1 DEF Acquire, Read, Replace, registry, history
<1>4. ASSUME NEW p \in Processes, WriteTmp(p)
      PROVE  TypeOK'
  <2>1. Edited(op[p], data[p]) \in Seq(AR!Run)
    BY <1>4, EditedRuns DEF WriteTmp, Exclusive, Guarded, RunLists
  <2>2. QED
    BY <1>4, <2>1 DEF WriteTmp, registry, history
<1>5. ASSUME NEW p \in Processes, End(p)
      PROVE  /\ pc' \in [Processes -> {"idle", "enter", "read", "write", "replace",
                             "unlock", "raise", "copying", "clear", "copy"}]
             /\ op' \in [Processes -> Operations \cup {NoOp}]
             /\ data' \in [Processes -> Seq(AR!Run)]
             /\ todo' \in [Processes -> SUBSET Names]
  <2>1. <<>> \in Seq(AR!Run)
    OBVIOUS
  <2>2. QED
    BY <1>5, <2>1 DEF End
<1>6. ASSUME NEW p \in Processes, Unlock(p) \/ Raise(p)
      PROVE  TypeOK'
  BY <1>0, <1>5, <1>6 DEF Unlock, Raise, history
<1>7. ASSUME NEW p \in Processes, EnterDirectory(p) \/ ClearDone(p) \/ CopyItem(p)
      PROVE  TypeOK'
  <2>1. CASE EnterDirectory(p)
    BY <1>0, <2>1 DEF EnterDirectory, registry
  <2>2. CASE ClearDone(p)
    <3>1. op[p].run \in DOMAIN file
      BY <2>2 DEF ClearDone, Promoting
    <3>2. Artifacts(op[p].run) \in SUBSET Names
      BY <3>1, RunsOf DEF Artifacts, AR!Run, RunLists
    <3>3. QED
      BY <2>2, <3>2 DEF ClearDone, registry, history
  <2>3. CASE CopyItem(p)
    <3>1. op[p] \in Operations /\ op[p].kind = "promote"
      BY <2>3 DEF CopyItem, Promoting, Exclusive, Guarded
    <3>2. op[p].run \in RunIds
      BY <3>1, OperationKinds
    <3>3. QED
      BY <2>3, <3>2 DEF CopyItem, registry, history
  <2>4. QED
    BY <1>7, <2>1, <2>2, <2>3
<1>8. ASSUME NEW p \in Processes, ArtifactsMissing(p) \/ ClearItem(p) \/ CopyDone(p)
      PROVE  TypeOK'
  <2>1. CASE ArtifactsMissing(p)
    BY <1>0, <1>5, <2>1 DEF ArtifactsMissing, registry, Fault
  <2>2. CASE ClearItem(p)
    <3>1. PICK x \in todo[p] :
             /\ prod' = [prod EXCEPT ![x] = 0]
             /\ \/ End(p)
                \/ todo' = [todo EXCEPT ![p] = @ \ {x}] /\ UNCHANGED <<pc, op, data>>
      BY <2>2 DEF ClearItem
    <3>2. prod' \in [Names -> RunIds \cup {0}]
      BY <3>1
    <3>3. QED
      BY <1>0, <1>5, <2>2, <3>1, <3>2 DEF ClearItem, registry, history
  <2>3. CASE CopyDone(p)
    BY <1>0, <1>5, <2>3 DEF CopyDone, registry
  <2>4. QED
    BY <1>8, <2>1, <2>2, <2>3
<1>9. ASSUME NEW p \in Processes, Crash(p)
      PROVE  TypeOK'
  BY <1>0, <1>5, <1>9 DEF Crash, Fault
<1>10. QED
  BY <1>1, <1>2, <1>3, <1>4, <1>6, <1>7, <1>8, <1>9 DEF Next, Operate, CopyArtifacts

\* A step of the file is a step of the atomic registry.
LEMMA StepRefines ==
    ASSUME TypeOK, Exclusive, [Next]_vars
    PROVE  [AR!Next]_file
<1>1. ASSUME NEW p \in Processes, op[p] \in Operations, Finds(op[p], file),
             file' = Edited(op[p], file)
      PROVE  AR!Next
  <2>1. CASE op[p].kind = "register"
    BY <1>1, <2>1, OperationKinds DEF Edited, AR!Next, AR!Register
  <2>2. CASE op[p].kind = "promote"
    BY <1>1, <2>2 DEF Edited, Finds, AR!Next, AR!Promote
  <2>3. CASE op[p].kind = "archive"
    BY <1>1, <2>3 DEF Edited, Finds, AR!Next, AR!Archive
  <2>4. CASE op[p].kind = "update"
    BY <1>1, <2>4, OperationKinds DEF Edited, Finds, AR!Next, AR!Update
  <2>5. QED
    BY <1>1, <2>1, <2>2, <2>3, <2>4, OperationKinds
<1>2. QED
  BY <1>1, FileSteps
-----------------------------------------------------------------------------
(* The production directory. *)

LEMMA PromotingKept ==
    ASSUME TypeOK, Exclusive, \A p \in Processes : Promoting(p), [Next]_vars,
           NEW q \in Processes
    PROVE  Promoting(q)'
<1>1. DOMAIN file \subseteq DOMAIN file'
  BY FileGrows
<1> USE DEF TypeOK, Promoting, Goto
<1>2. CASE UNCHANGED vars
  BY <1>2 DEF vars, registry
<1>3. ASSUME NEW p \in Processes, Begin(p) \/ BeginScript(p)
      PROVE  Promoting(q)'
  BY <1>3 DEF Begin, BeginScript, registry
<1>4. ASSUME NEW p \in Processes, Operate(p)
      PROVE  Promoting(q)'
  <2>1. CASE Acquire(p) \/ Read(p) \/ WriteTmp(p)
    BY <2>1 DEF Acquire, Read, WriteTmp, registry
  <2>2. CASE Replace(p)
    BY <1>1, <2>2 DEF Replace
  <2>3. CASE Unlock(p) \/ Raise(p)
    BY <2>3 DEF Unlock, Raise, End, NoOp
  <2>4. QED
    BY <1>4, <2>1, <2>2, <2>3 DEF Operate
<1>5. ASSUME NEW p \in Processes, CopyArtifacts(p)
      PROVE  Promoting(q)'
  <2>1. CASE End(p) /\ UNCHANGED file
    BY <2>1 DEF End, NoOp
  <2>2. CASE ~End(p)
    BY <1>5, <2>2 DEF CopyArtifacts, ArtifactsMissing, EnterDirectory, ClearItem,
       ClearDone, CopyItem, CopyDone, registry
  <2>3. QED
    BY <1>5, <2>1, <2>2 DEF CopyArtifacts, ArtifactsMissing, EnterDirectory, ClearItem,
       ClearDone, CopyItem, CopyDone, registry
<1>6. ASSUME NEW p \in Processes, Crash(p)
      PROVE  Promoting(q)'
  BY <1>6 DEF Crash, End, NoOp
<1>7. QED
  BY <1>2, <1>3, <1>4, <1>5, <1>6 DEF Next

\* The artifacts of a run stay the same, since its type does.
LEMMA SameArtifacts ==
    ASSUME TypeOK, Exclusive, [Next]_vars, NEW i \in DOMAIN file
    PROVE  i \in DOMAIN file' /\ Artifacts(i)' = Artifacts(i)
BY FileGrows DEF Artifacts

\* Steps of a process that is not in the directory and does not enter it.
Apart(q) ==
    /\ q \notin InDirectory
    /\ pc'[q] \notin {"clear", "copy"}
    /\ \A p \in Processes \ {q} :
          pc'[p] = pc[p] /\ op'[p] = op[p] /\ todo'[p] = todo[p]
    /\ UNCHANGED <<prod, alone>>
    /\ spoiled => spoiled'

LEMMA DirectoryApart ==
    ASSUME TypeOK, Exclusive, \A p \in Processes : Promoting(p), Directory,
           [Next]_vars, NEW q \in Processes, Apart(q)
    PROVE  Directory'
<1>1. InDirectory' = InDirectory
  BY DEF InDirectory, Apart
<1>2. ASSUME NEW p \in alone'
      PROVE  Knowing(p)'
  <2>1. p \in alone /\ p \in Processes /\ p # q /\ Knowing(p)
    BY <1>2 DEF Apart, Directory, Knowing, InDirectory, TypeOK
  <2>2. pc[p] = "copy" => op[p].run \in DOMAIN file
    BY <2>1 DEF Promoting
  <2>3. pc'[p] = pc[p] /\ op'[p] = op[p] /\ todo'[p] = todo[p] /\ prod' = prod
    BY <2>1 DEF Apart
  <2>4. pc[p] = "copy" => Artifacts(op[p].run)' = Artifacts(op[p].run)
    BY <2>2, <2>3, SameArtifacts DEF Artifacts
  <2>5. QED
    BY <1>1, <2>1, <2>3, <2>4 DEF Knowing
<1>3. (~spoiled => InDirectory \subseteq alone)'
  BY <1>1 DEF Directory, Apart
<1>4. WholeDirectory'
  BY <1>1, SameArtifacts DEF WholeDirectory, Directory, Apart
<1>5. QED
  BY <1>2, <1>3, <1>4 DEF Directory

LEMMA DirectoryEntered ==
    ASSUME TypeOK, Directory, NEW p \in Processes, EnterDirectory(p)
    PROVE  Directory'
<1> USE DEF EnterDirectory, Goto, TypeOK
<1>1. InDirectory' = InDirectory \cup {p} /\ p \notin InDirectory
  BY DEF InDirectory
<1>2. CASE InDirectory = {}
  <2>1. alone' = {p} /\ InDirectory' = {p}
    BY <1>1, <1>2
  <2>2. pc'[p] = "clear" /\ todo'[p] = {x \in Names : prod'[x] # 0}
    OBVIOUS
  <2>3. QED
    BY <2>1, <2>2 DEF Directory, Knowing, WholeDirectory
<1>3. CASE InDirectory # {}
  <2>1. alone' = {} /\ spoiled'
    BY <1>3
  <2>2. QED
    BY <2>1 DEF Directory, WholeDirectory
<1>4. QED
  BY <1>2, <1>3

\* Who is alone in the directory when a process of it takes a step.
LEMMA AloneInDirectory ==
    ASSUME Directory, NEW p \in InDirectory, NEW q \in alone
    PROVE  q = p
BY DEF Directory, Knowing

LEMMA DirectoryCleared ==
    ASSUME TypeOK, Directory, NEW p \in Processes, ClearItem(p) \/ ClearDone(p)
    PROVE  Directory'
<1> USE DEF Goto, TypeOK
<1>1. p \in InDirectory /\ pc[p] = "clear"
  BY DEF ClearItem, ClearDone, InDirectory
<1>2. alone' = alone /\ spoiled' = spoiled
  BY DEF ClearItem, ClearDone, history
<1>3. CASE p \in alone
  <2>1. alone = {p} /\ InDirectory = {p} /\ todo[p] = {x \in Names : prod[x] # 0}
    BY <1>1, <1>3, AloneInDirectory DEF Directory, Knowing
  <2>2. CASE ClearItem(p)
    <3>1. PICK x \in todo[p] :
             /\ prod' = [prod EXCEPT ![x] = 0]
             /\ IF prod[x] = 0
                THEN End(p)
                ELSE todo' = [todo EXCEPT ![p] = @ \ {x}] /\ UNCHANGED <<pc, op, data>>
      BY <2>2 DEF ClearItem
    <3>2. /\ prod[x] # 0
          /\ todo'[p] = todo[p] \ {x}
          /\ pc' = pc
      BY <2>1, <3>1
    <3>3. InDirectory' = {p}
      BY <2>1, <3>2 DEF InDirectory
    <3>4. todo'[p] = {y \in Names : prod'[y] # 0}
      BY <2>1, <3>1, <3>2
    <3>5. Knowing(p)'
      BY <1>1, <3>2, <3>3, <3>4 DEF Knowing
    <3>6. QED
      BY <1>2, <2>1, <3>3, <3>5 DEF Directory, WholeDirectory
  <2>3. CASE ClearDone(p)
    <3>1. /\ \A x \in Names : prod[x] = 0
          /\ pc'[p] = "copy"
          /\ todo'[p] = Artifacts(op[p].run)
          /\ UNCHANGED <<file, op, prod>>
      BY <2>1, <2>3 DEF ClearDone, registry
    <3>2. Artifacts(op[p].run)' = Artifacts(op[p].run)
      BY <3>1 DEF Artifacts
    <3>3. InDirectory' = {p}
      BY <2>1, <2>3 DEF InDirectory, ClearDone
    <3>4. Knowing(p)'
      BY <3>1, <3>2, <3>3 DEF Knowing
    <3>5. QED
      BY <1>2, <2>1, <3>3, <3>4 DEF Directory, WholeDirectory
  <2>4. QED
    BY <2>2, <2>3
<1>4. CASE p \notin alone
  <2>1. alone = {} /\ spoiled
    BY <1>1, <1>4, AloneInDirectory DEF Directory
  <2>2. QED
    BY <1>2, <2>1 DEF Directory, WholeDirectory
<1>5. QED
  BY <1>3, <1>4

LEMMA DirectoryCopied ==
    ASSUME TypeOK, Exclusive, \A p \in Processes : Promoting(p), Directory,
           NEW p \in Processes, CopyItem(p) \/ CopyDone(p)
    PROVE  Directory'
<1> USE DEF Goto, TypeOK
<1>1. p \in InDirectory /\ pc[p] = "copy" /\ op[p].run \in DOMAIN file
  BY DEF CopyItem, CopyDone, InDirectory, Promoting
<1>2. op[p].run # 0
  BY <1>1, OperationKinds DEF Exclusive, Guarded, Promoting, RunIds
<1> DEFINE run == op[p].run
<1>3. CASE p \in alone
  <2>1. /\ alone = {p} /\ InDirectory = {p}
        /\ todo[p] \subseteq Artifacts(run)
        /\ \A x \in Names : prod[x] = IF x \in Artifacts(run) \ todo[p] THEN run ELSE 0
    BY <1>1, <1>3, AloneInDirectory DEF Directory, Knowing
  <2>2. UNCHANGED file /\ Artifacts(run) = ArtifactsOf[file[run].type]
    BY DEF CopyItem, CopyDone, registry, Artifacts
  <2>3. CASE CopyItem(p)
    <3>1. PICK x \in todo[p] :
             /\ prod' = [prod EXCEPT ![x] = run]
             /\ todo' = [todo EXCEPT ![p] = @ \ {x}]
             /\ UNCHANGED <<file, pc, op, alone, spoiled>>
      BY <2>3 DEF CopyItem, registry, history
    <3>2. InDirectory' = {p} /\ run' = run /\ Artifacts(run)' = Artifacts(run)
      BY <2>1, <2>2, <3>1 DEF InDirectory, Artifacts
    <3>3. todo'[p] = todo[p] \ {x}
      BY <3>1
    <3>4. \A y \in Names :
             prod'[y] = IF y \in Artifacts(run) \ todo'[p] THEN run ELSE 0
      BY <2>1, <3>1, <3>3
    <3>5. Knowing(p)'
      BY <1>1, <2>1, <3>1, <3>2, <3>3, <3>4 DEF Knowing
    <3>6. QED
      BY <2>1, <3>1, <3>2, <3>5 DEF Directory, WholeDirectory
  <2>4. CASE CopyDone(p)
    <3>1. InDirectory' = {} /\ alone' = {} /\ prod' = prod
      BY <2>1, <2>4 DEF CopyDone, End, InDirectory
    <3>2. \A x \in Names : prod[x] = IF x \in Artifacts(run) THEN run ELSE 0
      BY <2>1, <2>4 DEF CopyDone
    <3>3. WholeDirectory'
      BY <1>1, <2>2, <3>1, <3>2 DEF WholeDirectory, Artifacts
    <3>4. QED
      BY <3>1, <3>3 DEF Directory
  <2>5. QED
    BY <2>3, <2>4
<1>4. CASE p \notin alone
  <2>1. alone = {} /\ spoiled
    BY <1>1, <1>4, AloneInDirectory DEF Directory
  <2>2. alone' = {} /\ spoiled'
    BY <1>4, <2>1 DEF CopyItem, CopyDone, history
  <2>3. QED
    BY <2>2 DEF Directory, WholeDirectory
<1>5. QED
  BY <1>3, <1>4

LEMMA DirectoryKept ==
    ASSUME TypeOK, Exclusive, \A p \in Processes : Promoting(p), Directory, [Next]_vars
    PROVE  Directory'
<1>1. CASE UNCHANGED vars
  BY <1>1 DEF vars, registry, history, Directory, Knowing, WholeDirectory, InDirectory,
     Artifacts
<1>2. ASSUME NEW p \in Processes, Begin(p) \/ BeginScript(p) \/ Operate(p)
      PROVE  Directory'
  <2>1. Apart(p)
    BY <1>2 DEF Begin, BeginScript, Operate, Acquire, Read, WriteTmp, Replace, Unlock,
       Raise, End, Goto, Apart, InDirectory, TypeOK, history
  <2>2. QED
    BY <2>1, DirectoryApart
<1>3. ASSUME NEW p \in Processes, ArtifactsMissing(p)
      PROVE  Directory'
  <2>1. Apart(p)
    BY <1>3 DEF ArtifactsMissing, End, Goto, Apart, InDirectory, TypeOK
  <2>2. QED
    BY <2>1, DirectoryApart
<1>4. ASSUME NEW p \in Processes, Crash(p)
      PROVE  Directory'
  <2>1. CASE p \in InDirectory
    <3>1. op[p].kind = "promote"
      BY <2>1 DEF Promoting, InDirectory
    <3>2. alone' = {} /\ spoiled'
      BY <1>4, <2>1, <3>1, AloneInDirectory DEF Crash
    <3>3. QED
      BY <3>2 DEF Directory, WholeDirectory
  <2>2. CASE p \notin InDirectory
    <3>1. p \notin alone
      BY <2>2 DEF Directory, Knowing
    <3>2. Apart(p)
      BY <1>4, <2>2, <3>1 DEF Crash, End, Goto, Apart, InDirectory, TypeOK
    <3>3. QED
      BY <3>2, DirectoryApart
  <2>3. QED
    BY <2>1, <2>2
<1>5. QED
  BY <1>1, <1>2, <1>3, <1>4, DirectoryEntered, DirectoryCleared, DirectoryCopied
     DEF Next, CopyArtifacts
-----------------------------------------------------------------------------
(* The theorems. *)

\* The state is well typed.
THEOREM RegistryTypeCorrect == Spec => []TypeOK
<1>1. Init => TypeOK /\ RegistryInv
  BY InitHolds
<1>2. TypeOK /\ RegistryInv /\ [Next]_vars => (TypeOK /\ RegistryInv)'
  BY TypesKept, ExclusiveKept, PromotingKept, DirectoryKept, OneProductionKept
     DEF RegistryInv
<1>3. QED
  BY <1>1, <1>2, PTL DEF Spec

\* The inductive invariant: at most one run of a type is in production, the
\* process inside the lock knows the file, scripts promote runs of the file, and
\* a script that is alone in the directory knows what is in it.
THEOREM RegistryInvariant == Spec => []RegistryInv
<1>1. Init => TypeOK /\ RegistryInv
  BY InitHolds
<1>2. TypeOK /\ RegistryInv /\ [Next]_vars => (TypeOK /\ RegistryInv)'
  BY TypesKept, ExclusiveKept, PromotingKept, DirectoryKept, OneProductionKept
     DEF RegistryInv
<1>3. QED
  BY <1>1, <1>2, PTL DEF Spec

\* A script that had the production directory to itself and ran to its end left
\* the files of one run in it (promote_model.py:78-92).
THEOREM PromotionLeavesOneRun == Spec => []WholeDirectory
<1>1. RegistryInv => WholeDirectory
  BY DEF RegistryInv, Directory
<1>2. QED
  BY <1>1, RegistryInvariant, PTL

\* Operations under the file lock, with crashes between their steps, are atomic
\* (model_registry.py:220-252).
THEOREM RegistryIsAtomic == Spec => ImplementsAtomicRegistry
<1>1. Init => AR!Init
  BY DEF Init, AR!Init
<1>2. TypeOK /\ RegistryInv /\ [Next]_vars => [AR!Next]_file
  BY StepRefines DEF RegistryInv
<1>3. QED
  BY <1>1, <1>2, RegistryTypeCorrect, RegistryInvariant, PTL
     DEF Spec, ImplementsAtomicRegistry, AR!Spec
=============================================================================
