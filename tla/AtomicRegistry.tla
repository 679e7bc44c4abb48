---------------------------- MODULE AtomicRegistry ----------------------------
(***************************************************************************)
(* What the model registry (src/logfilter/monitoring/model_registry.py)    *)
(* promises: its operations happen one after the other, each on the result *)
(* of those before it.  A run is known by its place in the list, since     *)
(* runs are only ever appended.                                            *)
(***************************************************************************)
EXTENDS Integers, Sequences

CONSTANTS Types,              (* model types                               *)
          Metrics             (* metrics that evaluation may report        *)

VARIABLE runs                 (* data["runs"]                              *)

Run == [type : Types,
        status : {"staging", "production", "archived"},
        metrics : SUBSET Metrics]

Registered(rs, t) ==
    Append(rs, [type |-> t, status |-> "staging", metrics |-> {}])

\* The production run of the same type is archived, of other types not.
Promoted(rs, i) ==
    [j \in DOMAIN rs |->
        IF j = i THEN [rs[j] EXCEPT !.status = "production"]
        ELSE IF rs[j].status = "production" /\ rs[j].type = rs[i].type
        THEN [rs[j] EXCEPT !.status = "archived"]
        ELSE rs[j]]

Archived(rs, i) == [rs EXCEPT ![i].status = "archived"]

Measured(rs, i, m) == [rs EXCEPT ![i].metrics = @ \cup {m}]

Init == runs = <<>>

Register == \E t \in Types : runs' = Registered(runs, t)
Promote == \E i \in DOMAIN runs : runs' = Promoted(runs, i)
Archive == \E i \in DOMAIN runs : runs' = Archived(runs, i)
Update == \E i \in DOMAIN runs, m \in Metrics : runs' = Measured(runs, i, m)

Next == Register \/ Promote \/ Archive \/ Update

Spec == Init /\ [][Next]_runs

\* At most one run of each type is in production.
OneProduction ==
    \A i, j \in DOMAIN runs :
        runs[i].status = "production" /\ runs[j].status = "production"
            /\ runs[i].type = runs[j].type => i = j
=============================================================================
