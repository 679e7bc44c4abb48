---------------------------- MODULE ModelRegistry ----------------------------
(***************************************************************************)
(* ModelRegistry (src/logfilter/monitoring/model_registry.py) as processes *)
(* use it: training registers runs, evaluation adds metrics, an operator   *)
(* archives, and scripts/promote_model.py promotes a run and replaces the  *)
(* files of the production directory by those of the run.                  *)
(*                                                                         *)
(* An operation reads the registry file, changes what it read, writes a    *)
(* temporary file and renames it, all under a lock on a file of its own.   *)
(* The directory is not under the lock.                                    *)
(***************************************************************************)
EXTENDS Integers, Sequences, FiniteSets

CONSTANTS Processes,
          Nobody,             (* the lock is free                          *)
          Types,              (* model types                               *)
          Metrics,            (* metrics that evaluation may report        *)
          MaxRuns,            (* bound on registered runs                  *)
          Names,              (* names of artifact files                   *)
          ArtifactsOf,        (* names of the files of a run, by type      *)
          MaxFaults           (* bound on crashes and missing artifacts    *)

ASSUME RegistryAssumption ==
    /\ Nobody \notin Processes
    /\ MaxRuns \in Nat
    /\ ArtifactsOf \in [Types -> SUBSET Names]
    /\ MaxFaults \in Nat

VARIABLES file,               (* what registry.json holds                  *)
          lock,               (* process that holds the lock file          *)
          pc,                 (* where each process is                     *)
          op,                 (* the operation each process performs       *)
          data,               (* what each process has read, then what it
                                 has written to registry.json.tmp          *)
          prod,               (* the run each production file is from, or 0*)
          todo,               (* files a script has yet to remove or copy  *)
          alone,              (* history: scripts that have had the
                                 directory to themselves so far            *)
          spoiled,            (* history: a script overlapped another one,
                                 or did not run to its end, since the last
                                 that was alone and did                    *)
          faults              (* faults so far                             *)

registry == <<file, lock>>
history == <<alone, spoiled>>
vars == <<file, lock, pc, op, data, prod, todo, alone, spoiled, faults>>

AR == INSTANCE AtomicRegistry WITH runs <- file

RunIds == 1..MaxRuns
NoOp == [kind |-> "none"]

Operations ==
    [kind : {"register"}, type : Types]
        \cup [kind : {"promote", "archive"}, run : RunIds]
        \cup [kind : {"update"}, run : RunIds, metric : Metrics]

Init ==
    /\ file = <<>>
    /\ lock = Nobody
    /\ pc = [p \in Processes |-> "idle"]
    /\ op = [p \in Processes |-> NoOp]
    /\ data = [p \in Processes |-> <<>>]
    /\ prod = [x \in Names |-> 0]
    /\ todo = [p \in Processes |-> {}]
    /\ alone = {}
    /\ spoiled = FALSE
    /\ faults = 0

Goto(p, label) == pc' = [pc EXCEPT ![p] = label]
Fault == faults < MaxFaults /\ faults' = faults + 1

\* The process is done, and what it held in memory is gone.
End(p) ==
    /\ Goto(p, "idle")
    /\ op' = [op EXCEPT ![p] = NoOp]
    /\ data' = [data EXCEPT ![p] = <<>>]
    /\ todo' = [todo EXCEPT ![p] = {}]
-----------------------------------------------------------------------------
(* One operation of the registry. *)

\* Runs registered or about to be: bounded by MaxRuns.
Promised ==
    Len(file) + Cardinality({p \in Processes :
                                pc[p] # "idle" /\ op[p].kind = "register"})

\* register_run, archive_run or update_metrics is called.
Begin(p) ==
    /\ pc[p] = "idle"
    /\ \E o \in Operations :
          /\ o.kind # "promote"
          /\ o.kind = "register" => Promised < MaxRuns
          /\ op' = [op EXCEPT ![p] = o]
    /\ Goto(p, "enter")
    /\ UNCHANGED <<registry, data, prod, todo, history, faults>>

\* Lines 56-63 of the script: get_run, a read under the lock, finds a run
\* that is not in production; otherwise the script ends at once.
BeginScript(p) ==
    /\ pc[p] = "idle"
    /\ lock = Nobody
    /\ \E o \in Operations :
          /\ o.kind = "promote"
          /\ o.run \in DOMAIN file
          /\ file[o.run].status # "production"
          /\ op' = [op EXCEPT ![p] = o]
    /\ Goto(p, "enter")
    /\ UNCHANGED <<registry, data, prod, todo, history, faults>>

\* Mutated form: a shared lock.
AcquireShared(p) ==
    /\ pc[p] = "enter"
    /\ lock' = p
    /\ Goto(p, "read")
    /\ UNCHANGED <<file, op, data, prod, todo, history, faults>>

\* Lines 228-230: flock, exclusive.
Acquire(p) ==
    /\ pc[p] = "enter"
    /\ lock = Nobody
    /\ lock' = p
    /\ Goto(p, "read")
    /\ UNCHANGED <<file, op, data, prod, todo, history, faults>>

Finds(o, rs) == o.kind = "register" \/ o.run \in DOMAIN rs

Edited(o, rs) ==
    CASE o.kind = "register" -> AR!Registered(rs, o.type)
      [] o.kind = "promote" -> AR!Promoted(rs, o.run)
      [] o.kind = "archive" -> AR!Archived(rs, o.run)
      [] o.kind = "update" -> AR!Measured(rs, o.run, o.metric)

Read(p) ==
    /\ pc[p] = "read"
    /\ data' = [data EXCEPT ![p] = file]
    /\ Goto(p, IF Finds(op[p], file) THEN "write" ELSE "raise")
    /\ UNCHANGED <<registry, op, prod, todo, history, faults>>

\* Lines 247-251: the temporary file, on disk.
WriteTmp(p) ==
    /\ pc[p] = "write"
    /\ data' = [data EXCEPT ![p] = Edited(op[p], @)]
    /\ Goto(p, "replace")
    /\ UNCHANGED <<registry, op, prod, todo, history, faults>>

Replace(p) ==
    /\ pc[p] = "replace"
    /\ file' = data[p]
    /\ Goto(p, "unlock")
    /\ data' = [data EXCEPT ![p] = <<>>]
    /\ UNCHANGED <<lock, op, prod, todo, history, faults>>

\* Lines 232-234; a promotion goes on with the directory.
Unlock(p) ==
    /\ pc[p] = "unlock"
    /\ lock' = Nobody
    /\ IF op[p].kind = "promote"
       THEN Goto(p, "copying") /\ UNCHANGED <<op, data, todo>>
       ELSE End(p)
    /\ UNCHANGED <<file, prod, history, faults>>

\* Lines 157, 191 and 202, the run is not in the file: ValueError, through
\* the finally clause.
Raise(p) ==
    /\ pc[p] = "raise"
    /\ lock' = Nobody
    /\ End(p)
    /\ UNCHANGED <<file, prod, history, faults>>
-----------------------------------------------------------------------------
(* The rest of promote_model.py, which works on the production directory. *)

InDirectory == {p \in Processes : pc[p] \in {"clear", "copy"}}

Artifacts(i) == ArtifactsOf[file[i].type]

\* Lines 69-76: the run's artifacts are gone.
ArtifactsMissing(p) ==
    /\ pc[p] = "copying"
    /\ Fault
    /\ End(p)
    /\ spoiled' = TRUE
    /\ UNCHANGED <<registry, prod, alone>>

\* Mutated form: the directory is not emptied first.
EnterWithoutClearing(p) ==
    /\ pc[p] = "copying"
    /\ todo' = [todo EXCEPT ![p] = Artifacts(op[p].run)]
    /\ Goto(p, "copy")
    /\ alone' = IF InDirectory = {} THEN {p} ELSE {}
    /\ spoiled' = (spoiled \/ InDirectory # {})
    /\ UNCHANGED <<registry, op, data, prod, faults>>

\* Lines 78-80: iterdir() lists the directory.
EnterDirectory(p) ==
    /\ pc[p] = "copying"
    /\ todo' = [todo EXCEPT ![p] = {x \in Names : prod[x] # 0}]
    /\ Goto(p, "clear")
    /\ alone' = IF InDirectory = {} THEN {p} ELSE {}
    /\ spoiled' = (spoiled \/ InDirectory # {})
    /\ UNCHANGED <<registry, op, data, prod, faults>>

\* Lines 80-84; a file that another script has removed ends this one.
ClearItem(p) ==
    /\ pc[p] = "clear"
    /\ \E x \in todo[p] :
          /\ prod' = [prod EXCEPT ![x] = 0]
          /\ IF prod[x] = 0
             THEN End(p)
             ELSE /\ todo' = [todo EXCEPT ![p] = @ \ {x}]
                  /\ UNCHANGED <<pc, op, data>>
    /\ UNCHANGED <<registry, history, faults>>

ClearDone(p) ==
    /\ pc[p] = "clear"
    /\ todo[p] = {}
    /\ todo' = [todo EXCEPT ![p] = Artifacts(op[p].run)]
    /\ Goto(p, "copy")
    /\ UNCHANGED <<registry, op, data, prod, history, faults>>

\* Lines 87-92.
CopyItem(p) ==
    /\ pc[p] = "copy"
    /\ \E x \in todo[p] :
          /\ prod' = [prod EXCEPT ![x] = op[p].run]
          /\ todo' = [todo EXCEPT ![p] = @ \ {x}]
    /\ UNCHANGED <<registry, pc, op, data, history, faults>>

CopyDone(p) ==
    /\ pc[p] = "copy"
    /\ todo[p] = {}
    /\ End(p)
    /\ spoiled' = (spoiled /\ p \notin alone)
    /\ alone' = alone \ {p}
    /\ UNCHANGED <<registry, prod, faults>>

\* The kernel releases the lock of a process that dies.
Crash(p) ==
    /\ pc[p] # "idle"
    /\ Fault
    /\ End(p)
    /\ lock' = IF lock = p THEN Nobody ELSE lock
    /\ spoiled' = (spoiled \/ op[p].kind = "promote")
    /\ alone' = alone \ {p}
    /\ UNCHANGED <<file, prod>>

Operate(p) ==
    \/ Acquire(p) \/ Read(p) \/ WriteTmp(p) \/ Replace(p) \/ Unlock(p) \/ Raise(p)

CopyArtifacts(p) ==
    \/ ArtifactsMissing(p) \/ EnterDirectory(p) \/ ClearItem(p) \/ ClearDone(p)
    \/ CopyItem(p) \/ CopyDone(p)

Next ==
    \E p \in Processes :
        \/ Begin(p) \/ BeginScript(p) \/ Crash(p)
        \/ Operate(p) \/ CopyArtifacts(p)

Spec == Init /\ [][Next]_vars
-----------------------------------------------------------------------------
(* Properties. *)

TypeOK ==
    /\ file \in Seq(AR!Run)
    /\ lock \in Processes \cup {Nobody}
    /\ pc \in [Processes -> {"idle", "enter", "read", "write", "replace", "unlock",
                             "raise", "copying", "clear", "copy"}]
    /\ op \in [Processes -> Operations \cup {NoOp}]
    /\ data \in [Processes -> Seq(AR!Run)]
    /\ prod \in [Names -> RunIds \cup {0}]
    /\ todo \in [Processes -> SUBSET Names]
    /\ alone \in SUBSET Processes
    /\ spoiled \in BOOLEAN
    /\ faults \in 0..MaxFaults

\* At most one run of each model type is in production, whoever promotes.
OneProduction == AR!OneProduction

\* Operations of several processes, and crashes between their steps, never
\* lose an update or leave one half done.
ImplementsAtomicRegistry == AR!Spec

\* A script that has the production directory to itself and runs to its end
\* leaves there the files of one run, all of them and no others, whatever
\* an interrupted or overlapping script had left.
WholeDirectory ==
    InDirectory = {} /\ ~spoiled =>
        \/ \A x \in Names : prod[x] = 0
        \/ \E i \in DOMAIN file : \A x \in Names :
              prod[x] = IF x \in Artifacts(i) THEN i ELSE 0

\* The strengthening the proofs use.  The lock is held by the process inside,
\* and what that process has read is still what the file holds.
Inside(p) == pc[p] \in {"read", "write", "replace", "unlock", "raise"}

Guarded(p) ==
    /\ Inside(p) <=> lock = p
    /\ pc[p] # "idle" => op[p] \in Operations
    /\ pc[p] = "write" => data[p] = file /\ Finds(op[p], file)
    /\ pc[p] = "replace" => data[p] = Edited(op[p], file) /\ Finds(op[p], file)

Exclusive == \A p \in Processes : Guarded(p)

\* A script promotes a run that the file has.
Promoting(p) ==
    /\ op[p].kind = "promote" => op[p].run \in DOMAIN file
    /\ pc[p] \in {"copying", "clear", "copy"} => op[p].kind = "promote"

\* A script that is alone in the directory knows what is in it.
Knowing(p) ==
    /\ InDirectory = {p}
    /\ pc[p] = "clear" => todo[p] = {x \in Names : prod[x] # 0}
    /\ pc[p] = "copy" =>
          /\ todo[p] \subseteq Artifacts(op[p].run)
          /\ \A x \in Names :
                prod[x] = IF x \in Artifacts(op[p].run) \ todo[p] THEN op[p].run ELSE 0

Directory ==
    /\ \A p \in alone : Knowing(p)
    /\ ~spoiled => InDirectory \subseteq alone
    /\ WholeDirectory

RegistryInv ==
    /\ OneProduction
    /\ Exclusive
    /\ \A p \in Processes : Promoting(p)
    /\ Directory

\* A run that is in production is the one whose files are in the production
\* directory, once no script is at work and none was interrupted.
ProductionServed ==
    (\A p \in Processes : pc[p] = "idle") /\ ~spoiled =>
        \A i \in DOMAIN file : file[i].status = "production" =>
            \A x \in Artifacts(i) : prod[x] = i
=============================================================================
