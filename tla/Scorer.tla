------------------------------- MODULE Scorer -------------------------------
(***************************************************************************)
(* LogScorer.score_batch (src/logfilter/pipeline/scorer.py) and the        *)
(* deduplication of BiEncoderModel (src/logfilter/models/biencoder.py).    *)
(*                                                                         *)
(* The API runs each request in a thread of the pool, and all threads      *)
(* share one LogScorer: "Submit" to "Final" are the stages of a call, in   *)
(* program order.  Only the deduplication touches shared state, the deque  *)
(* "window" and the vector "index", which no lock guards, so it is cut     *)
(* into the pieces between which the interpreter may switch threads.       *)
(*                                                                         *)
(* The models are functions of the event, which carries their answers as   *)
(* fields.  Scores are whole percents; sums of weighted scores are in      *)
(* units of 1/10000.  The default configuration has no drift detector.     *)
(***************************************************************************)
EXTENDS Integers, Sequences, FiniteSets

CONSTANTS Threads,            (* threads of the request pool               *)
          Events,             (* events that are submitted                 *)
          Batches,            (* batches that are submitted                *)
          Similar(_, _),      (* cosine similarity >= dedup_threshold      *)
          NoveltyScores,      (* {0} without a novelty detector            *)
          DedupWindow,        (* dedup_window_seconds, in ticks            *)
          ThresholdLow, ThresholdMedium, ThresholdHigh,
          MaxTime,            (* bound on the clock                        *)
          MaxEvents,          (* bound on the events submitted             *)
          MaxFaults           (* bound on models that raise                *)

Percent == 0..100

ASSUME ScorerAssumption ==
    /\ \A e \in Events :
          /\ {e.tier1, e.tier2, e.crossEncoder} \subseteq Percent
          /\ {e.syslog, e.sigma, e.attackTool, e.entities, e.candidates}
                \subseteq BOOLEAN
    /\ Batches \subseteq Seq(Events) \ {<<>>}
    /\ NoveltyScores \subseteq Percent
    /\ {DedupWindow, MaxTime, MaxEvents, MaxFaults} \subseteq Nat
    /\ {ThresholdLow, ThresholdMedium, ThresholdHigh} \subseteq Nat

(* The floor under the classifier score of an attack tool reaches the lowest  *)
(* threshold, as in config/config.yaml: 0.35 * 0.60 >= 0.20.                  *)
ASSUME FloorAssumption == ThresholdLow <= 35 * 60

VARIABLES threads,            (* the calls in progress                     *)
          window,             (* _dedup_window, oldest entry first         *)
          index,              (* texts in _faiss_dedup                     *)
          now,                (* time.monotonic()                          *)
          added,              (* history: every entry the window ever had  *)
          overlapped,         (* history: have two calls ever been in the
                                 deduplication at once?                    *)
          submitted, faults   (* events submitted, models raising, so far  *)

shared == <<window, index, added>>
vars == <<threads, shared, now, overlapped, submitted, faults>>

Texts == {e.text : e \in Events}
TextsOf(entries) == {entries[k].text : k \in DOMAIN entries}

\* The ScoredEvent that _init_scored returns, as far as the score depends on it.
Fresh(e) ==
    [classifier |-> 0, sigma |-> e.sigma, duplicate |-> FALSE,
     candidates |-> FALSE, entityBoost |-> FALSE, crossEncoder |-> 0,
     novelty |-> 0, degraded |-> FALSE, priority |-> "none"]

\* A call that is at "stage" with nothing done for its batch.
NewCall(stage, b) ==
    [pc |-> stage, batch |-> b, i |-> 0, cutoff |-> 0, snap |-> {}, base |-> {},
     disturbed |-> FALSE, failed |-> FALSE, out |-> [k \in DOMAIN b |-> Fresh(b[k])]]

Idle == NewCall("idle", <<>>)

Init ==
    /\ threads = [t \in Threads |-> Idle]
    /\ window = <<>> /\ index = {}
    /\ now = 0
    /\ added = {} /\ overlapped = FALSE
    /\ submitted = 0 /\ faults = 0

At(t, stage) == threads[t].pc = stage
Becomes(t, r) == threads' = [threads EXCEPT ![t] = r]
Goto(t, stage) == Becomes(t, [threads[t] EXCEPT !.pc = stage])

(* Thread t has changed an object that the threads at "stage" are using. *)
Disturbing(t, stage, r) ==
    threads' = [u \in Threads |->
                  IF u = t THEN r
                  ELSE IF threads[u].pc = stage
                       THEN [threads[u] EXCEPT !.disturbed = TRUE]
                       ELSE threads[u]]

Raise == faults < MaxFaults /\ faults' = faults + 1
-----------------------------------------------------------------------------
(* Tier 1 and tier 2 of the classifier *)

\* Lines 500-511: the call begins; sigma rules are functions of the text.
Submit(t) ==
    /\ At(t, "idle")
    /\ \E b \in Batches :
          /\ submitted + Len(b) <= MaxEvents
          /\ submitted' = submitted + Len(b)
          /\ Becomes(t, NewCall("classify", b))
    /\ UNCHANGED <<shared, now, overlapped, faults>>

\* Tier2Classifier.should_escalate with the default band.
ShouldEscalate(score) == score \in 10..90

(* The classifier score of event e: 0.5 when tier 1 raised, and tier 2's    *)
(* answer, unless that raised, when the score of tier 1 is uncertain.       *)
ClassifierScore(e, raised1, raised2) ==
    LET tier1 == IF raised1 THEN 50 ELSE e.tier1
    IN  IF ~e.syslog /\ ~raised2 /\ ShouldEscalate(tier1) THEN e.tier2 ELSE tier1

\* The fallbacks catch ValueError, IndexError, TypeError and RuntimeError.
Classify(t) ==
    /\ At(t, "classify")
    /\ \E raised1, raised2 \in BOOLEAN :
          /\ faults' = faults + (IF raised1 THEN 1 ELSE 0) + (IF raised2 THEN 1 ELSE 0)
          /\ faults' <= MaxFaults
          /\ LET r == threads[t]
             IN  Becomes(t, [r EXCEPT !.pc = "encode",
                   !.out = [k \in DOMAIN r.out |->
                      [r.out[k] EXCEPT
                         !.classifier = ClassifierScore(r.batch[k], raised1, raised2),
                         !.degraded = raised1]]])
    /\ UNCHANGED <<shared, now, overlapped, submitted>>

(* What sigma or a classifier raises of any other type leaves score_batch, and *)
(* the caller has no result.                                                   *)
ScoringRaises(t) ==
    /\ At(t, "classify")
    /\ Raise
    /\ Becomes(t, Idle)
    /\ UNCHANGED <<shared, now, overlapped, submitted>>
-----------------------------------------------------------------------------
(* A tier-3 stage raises: _apply_tier3_neutral_fallback over the whole batch *)

\* Mutated form: the entity boost survives.
NeutralKeepsBoost(s) ==
    [s EXCEPT !.duplicate = FALSE, !.candidates = FALSE,
              !.crossEncoder = 0, !.degraded = TRUE]

Neutral(s) ==
    [s EXCEPT !.duplicate = FALSE, !.candidates = FALSE, !.entityBoost = FALSE,
              !.crossEncoder = 0, !.degraded = TRUE]

Fallback(t) ==
    LET r == threads[t]
    IN  Becomes(t, [r EXCEPT !.pc = "final", !.failed = TRUE,
                             !.out = [k \in DOMAIN r.out |-> Neutral(r.out[k])]])

\* encode, the search of the technique index (which no duplicate gets to), novelty
\* (when there is a detector), NER or cross encoder.
ModelRaises(t) ==
    /\ threads[t].pc \in {"encode", "retrieve", "novelty", "ner", "crossEncoder"}
    /\ At(t, "retrieve") => ~threads[t].out[threads[t].i].duplicate
    /\ At(t, "novelty") => NoveltyScores # {0}
    /\ Raise
    /\ Fallback(t)
    /\ UNCHANGED <<shared, now, overlapped, submitted>>
-----------------------------------------------------------------------------
(* BiEncoderModel.check_dedup, once for each event of the batch *)

DedupStages == {"prune", "pop", "search", "append", "rebuild", "collect",
                "add", "write", "retrieve"}
InDedup(t) == threads[t].pc \in DedupStages

Encode(t) ==
    /\ At(t, "encode")
    /\ Becomes(t, [threads[t] EXCEPT !.pc = "prune", !.i = 1,
                                     !.cutoff = now - DedupWindow])
    /\ overlapped' = (overlapped \/ \E u \in Threads : InDedup(u))
    /\ UNCHANGED <<shared, now, submitted, faults>>

\* _prune_dedup_window: the loop looks at the head, and pops what is then the head.
Prune(t) ==
    /\ At(t, "prune")
    /\ IF window # <<>> /\ Head(window).at < threads[t].cutoff
       THEN Goto(t, "pop")
       ELSE Goto(t, "search")
    /\ UNCHANGED <<shared, now, overlapped, submitted, faults>>

\* Mutated form: the stale head is looked at and left in place.
PopPeeks(t) ==
    /\ At(t, "pop")
    /\ window # <<>>
    /\ Goto(t, "prune")
    /\ UNCHANGED <<shared, now, overlapped, submitted, faults>>

Pop(t) ==
    /\ At(t, "pop")
    /\ window # <<>>
    /\ window' = Tail(window)
    /\ Disturbing(t, "collect", [threads[t] EXCEPT !.pc = "prune"])
    /\ UNCHANGED <<index, added, now, overlapped, submitted, faults>>

\* IndexError: another thread popped the last entry first.
PopRaises(t) ==
    /\ At(t, "pop")
    /\ window = <<>>
    /\ Fallback(t)
    /\ UNCHANGED <<shared, now, overlapped, submitted, faults>>

TextOf(r) == r.batch[r.i].text
\* Mutated form: the nearest entry counts whatever its similarity.
IsDuplicateOfNearest(text) == index # {}

IsDuplicate(text) == \E x \in index : Similar(x, text)

Search(t) ==
    /\ At(t, "search")
    /\ LET r == threads[t]
       IN  Becomes(t, [r EXCEPT !.pc = "append",
                                !.out[r.i].duplicate = IsDuplicate(TextOf(r))])
    /\ UNCHANGED <<shared, now, overlapped, submitted, faults>>

\* Mutated form: the index is not rebuilt for a duplicate.
AddDuplicateSilently(t) ==
    /\ At(t, "append")
    /\ LET r == threads[t]
           entry == [text |-> TextOf(r), at |-> now]
       IN  /\ window' = Append(window, entry) /\ added' = added \cup {entry}
           /\ Disturbing(t, "collect", [r EXCEPT !.pc =
                 IF r.out[r.i].duplicate THEN "retrieve" ELSE "rebuild"])
    /\ UNCHANGED <<index, now, overlapped, submitted, faults>>

\* _add_to_dedup
AddToWindow(t) ==
    /\ At(t, "append")
    /\ LET entry == [text |-> TextOf(threads[t]), at |-> now]
       IN  window' = Append(window, entry) /\ added' = added \cup {entry}
    /\ Disturbing(t, "collect", [threads[t] EXCEPT !.pc = "rebuild"])
    /\ UNCHANGED <<index, now, overlapped, submitted, faults>>

\* _rebuild_dedup_faiss assigns an empty index, ...
Rebuild(t) ==
    /\ At(t, "rebuild")
    /\ index' = {}
    /\ Disturbing(t, "write", [threads[t] EXCEPT !.pc = "collect", !.disturbed = FALSE])
    /\ UNCHANGED <<window, added, now, overlapped, submitted, faults>>

\* ... iterates over the window, ...
Collect(t) ==
    /\ At(t, "collect")
    /\ Becomes(t, [threads[t] EXCEPT !.pc = "add", !.snap = TextsOf(window)])
    /\ UNCHANGED <<shared, now, overlapped, submitted, faults>>

\* (RuntimeError: deque mutated during iteration)
CollectRaises(t) ==
    /\ At(t, "collect")
    /\ threads[t].disturbed
    /\ Fallback(t)
    /\ UNCHANGED <<shared, now, overlapped, submitted, faults>>

\* ... and adds the entries: it reads the vectors of what is now the index ...
AddReads(t) ==
    /\ At(t, "add")
    /\ Becomes(t, [threads[t] EXCEPT !.pc = "write", !.base = index, !.disturbed = FALSE])
    /\ UNCHANGED <<shared, now, overlapped, submitted, faults>>

\* ... and assigns the longer matrix, to an index that may have been replaced.
AddWrites(t) ==
    /\ At(t, "write")
    /\ LET r == threads[t]
       IN  index' = IF r.disturbed THEN index ELSE r.base \cup r.snap
    /\ Becomes(t, [threads[t] EXCEPT !.pc = "retrieve", !.snap = {}, !.base = {},
                                     !.disturbed = FALSE])
    /\ UNCHANGED <<window, added, now, overlapped, submitted, faults>>

(* retrieve_attack_candidates unless a duplicate, and on to the next event. *)
Retrieve(t) ==
    /\ At(t, "retrieve")
    /\ LET r == threads[t]
           s == r.out[r.i]
           retrieved == [r EXCEPT !.out[r.i].candidates =
                                     ~s.duplicate /\ r.batch[r.i].candidates]
       IN  Becomes(t, IF r.i < Len(r.batch)
                      THEN [retrieved EXCEPT !.pc = "prune", !.i = r.i + 1,
                                             !.cutoff = now - DedupWindow]
                      ELSE [retrieved EXCEPT !.pc = "novelty", !.i = 0, !.cutoff = 0])
    /\ UNCHANGED <<shared, now, overlapped, submitted, faults>>
-----------------------------------------------------------------------------
(* Tier 3 for the events that are no duplicates, and the score *)

Novelty(t) ==
    /\ At(t, "novelty")
    /\ LET r == threads[t]
       IN  \E score \in [DOMAIN r.out -> NoveltyScores] :
              Becomes(t, [r EXCEPT
                 !.pc = IF \A k \in DOMAIN r.out : r.out[k].duplicate THEN "final" ELSE "ner",
                 !.out = [k \in DOMAIN r.out |-> [r.out[k] EXCEPT !.novelty = score[k]]]])
    /\ UNCHANGED <<shared, now, overlapped, submitted, faults>>

NER(t) ==
    /\ At(t, "ner")
    /\ LET r == threads[t]
       IN  Becomes(t, [r EXCEPT !.pc = "crossEncoder",
              !.out = [k \in DOMAIN r.out |->
                 [r.out[k] EXCEPT !.entityBoost =
                    ~r.out[k].duplicate /\ r.batch[k].entities]]])
    /\ UNCHANGED <<shared, now, overlapped, submitted, faults>>

CrossEncoder(t) ==
    /\ At(t, "crossEncoder")
    /\ LET r == threads[t]
       IN  Becomes(t, [r EXCEPT !.pc = "final",
              !.out = [k \in DOMAIN r.out |->
                 [r.out[k] EXCEPT !.crossEncoder =
                    IF r.out[k].candidates THEN r.batch[k].crossEncoder ELSE 0]]])
    /\ UNCHANGED <<shared, now, overlapped, submitted, faults>>

Larger(a, b) == IF a >= b THEN a ELSE b

\* Mutated form: a floor below the threshold.
FlooredTooLow(e, s) ==
    LET tool == IF e.attackTool THEN Larger(s.classifier, 55) ELSE s.classifier
    IN  IF s.sigma THEN Larger(tool, 90) ELSE tool

\* _ATTACK_TOOL_FLOOR, and the floor under a sigma match in _compute_score.
Floored(e, s) ==
    LET tool == IF e.attackTool THEN Larger(s.classifier, 60) ELSE s.classifier
    IN  IF s.sigma THEN Larger(tool, 90) ELSE tool

\* An attack tool's penalty is cleared; any other counts only with a cross encoder score.
Penalty(e, s) ==
    IF s.duplicate /\ ~e.attackTool /\ s.crossEncoder > 0 THEN 3000 ELSE 0

ComputeScore(e, s) ==
    LET sum == 35 * Floored(e, s) + (IF s.entityBoost THEN 25 * 20 ELSE 0)
                 + 40 * s.crossEncoder + 15 * s.novelty - Penalty(e, s)
    IN  IF sum < 0 THEN 0 ELSE IF sum > 10000 THEN 10000 ELSE sum

RoutingLabel(e, s) ==
    LET score == ComputeScore(e, s)
    IN  IF s.sigma \/ score >= ThresholdHigh THEN "HIGH"
        ELSE IF score >= ThresholdMedium THEN "MEDIUM"
        ELSE IF score >= ThresholdLow THEN "LOW"
        ELSE "INFO"

Final(t) ==
    /\ At(t, "final")
    /\ LET r == threads[t]
       IN  Becomes(t, [r EXCEPT !.pc = "done", !.snap = {}, !.base = {}, !.i = 0,
              !.cutoff = 0, !.disturbed = FALSE,
              !.out = [k \in DOMAIN r.out |->
                 [r.out[k] EXCEPT !.priority = RoutingLabel(r.batch[k], r.out[k])]]])
    /\ UNCHANGED <<shared, now, overlapped, submitted, faults>>

\* The caller has taken the result.
Return(t) ==
    /\ At(t, "done")
    /\ Becomes(t, Idle)
    /\ UNCHANGED <<shared, now, overlapped, submitted, faults>>

\* No call is in progress, and the service waits for one.
Quiet ==
    /\ \A t \in Threads : At(t, "idle")
    /\ UNCHANGED vars

Tick ==
    /\ now < MaxTime
    /\ now' = now + 1
    /\ UNCHANGED <<threads, shared, overlapped, submitted, faults>>

CheckDedup(t) ==
    \/ Prune(t) \/ Pop(t) \/ PopRaises(t) \/ Search(t) \/ AddToWindow(t)
    \/ Rebuild(t) \/ Collect(t) \/ CollectRaises(t) \/ AddReads(t) \/ AddWrites(t)

ScoreBatch(t) ==
    \/ Classify(t) \/ ScoringRaises(t) \/ Encode(t) \/ CheckDedup(t) \/ Retrieve(t)
    \/ ModelRaises(t) \/ Novelty(t) \/ NER(t) \/ CrossEncoder(t)
    \/ Final(t)

Next == Tick \/ Quiet \/ \E t \in Threads : Submit(t) \/ ScoreBatch(t) \/ Return(t)

Spec == Init /\ [][Next]_vars
FairSpec == Spec /\ \A t \in Threads : WF_vars(ScoreBatch(t))
-----------------------------------------------------------------------------
Stages == DedupStages \cup {"idle", "classify", "encode", "novelty", "ner",
                            "crossEncoder", "final", "done"}

Entry == [text : Texts, at : Nat]

Priorities == {"none", "INFO", "LOW", "MEDIUM", "HIGH"}

Scored == [classifier : Percent, sigma : BOOLEAN, duplicate : BOOLEAN,
           candidates : BOOLEAN, entityBoost : BOOLEAN, crossEncoder : Percent,
           novelty : Percent, degraded : BOOLEAN,
           priority : Priorities]

Call == [pc : Stages, batch : Batches \cup {<<>>}, i : Nat, cutoff : Int,
         snap : SUBSET Texts, base : SUBSET Texts, disturbed : BOOLEAN,
         failed : BOOLEAN, out : Seq(Scored)]

(* Every variable of the scorer and of the deduplication window has its type, *)
(* and a call that is in check_dedup is at an event of its batch.             *)
TypeOK ==
    /\ threads \in [Threads -> Call]
    /\ \A t \in Threads :
          /\ DOMAIN threads[t].out = DOMAIN threads[t].batch
          /\ ~At(t, "idle") => threads[t].batch # <<>>
          /\ InDedup(t) => threads[t].i \in DOMAIN threads[t].batch
    /\ window \in Seq(Entry)
    /\ index \subseteq Texts
    /\ now \in Nat
    /\ added \subseteq Entry
    /\ overlapped \in BOOLEAN
    /\ submitted \in Nat /\ faults \in Nat

Verdict(t, k) == threads[t].out[k].duplicate

(* A verdict of check_dedup is always about an event that was submitted: when *)
(* an event becomes a duplicate, a similar one has entered the window before, *)
(* however the threads that rebuild the index interleave.                     *)
DuplicatesAreJustified ==
    [][\A t \in Threads : \A k \in DOMAIN threads[t].out :
          (threads[t].pc = "search" /\ ~Verdict(t, k) /\ Verdict(t, k)')
             => \E entry \in added : Similar(entry.text, TextOf(threads[t]))]_vars

(* As long as no two calls have met in the deduplication, the index holds     *)
(* every entry of the window whenever no call is in it: a search finds every  *)
(* recent event, also after calls that failed half way.                       *)
IndexCoversWindow ==
    (~overlapped /\ \A t \in Threads : ~InDedup(t)) => TextsOf(window) \subseteq index

(* The fallback is all or nothing: when any tier-3 stage has raised, no event *)
(* of the batch keeps evidence of a stage that had succeeded before (but for  *)
(* its novelty, which the fallback leaves alone), and all of them say that    *)
(* their score is degraded.                                                   *)
FailureIsUniform ==
    \A t \in Threads : (At(t, "done") /\ threads[t].failed) =>
       \A k \in DOMAIN threads[t].out :
          LET s == threads[t].out[k]
          IN  /\ s.degraded
              /\ ~s.duplicate /\ ~s.entityBoost /\ s.crossEncoder = 0

(* Whatever fails and whatever is a duplicate of what, a sigma match is       *)
(* routed HIGH, and an event with an attack tool is never left at INFO: the   *)
(* floor of its classifier score alone reaches the lowest threshold.          *)
AlarmsAreForwarded ==
    \A t \in Threads : At(t, "done") =>
       \A k \in DOMAIN threads[t].out :
          LET e == threads[t].batch[k]
              s == threads[t].out[k]
          IN  /\ e.sigma => s.priority = "HIGH"
              /\ e.attackTool => s.priority # "INFO"

(* score() and score_batch() return or raise: no stage waits for another      *)
(* thread, and the pruning loop ends although other threads pop and append.   *)
Finishes == \A t \in Threads : (~At(t, "idle")) ~> (At(t, "done") \/ At(t, "idle"))

(* scorer.py:492 says of score() that it is thread-safe: without a model that *)
(* raises, no call in another thread degrades the score of an event.          *)
ThreadSafe ==
    faults = 0 => \A t \in Threads : ~threads[t].failed

(* biencoder.py:237 says that check_dedup compares with recent events, after  *)
(* pruning the stale ones: an event becomes a duplicate only when a similar   *)
(* one entered the window at most DedupWindow ago.                            *)
DuplicatesAreRecent ==
    [][\A t \in Threads : \A k \in DOMAIN threads[t].out :
          (threads[t].pc = "search" /\ ~Verdict(t, k) /\ Verdict(t, k)')
             => \E entry \in added :
                   /\ Similar(entry.text, TextOf(threads[t]))
                   /\ entry.at >= threads[t].cutoff]_vars
=============================================================================
