---------------------------- MODULE Scorer_proofs ----------------------------
(***************************************************************************)
(* For every set of threads, events and batches: the scorer's variables    *)
(* keep their types, a duplicate is a duplicate of something submitted, a  *)
(* tier-3 failure degrades the whole batch, and calls that do not overlap  *)
(* leave an index that covers the window.                                  *)
(***************************************************************************)
EXTENDS Scorer, TLAPS
-----------------------------------------------------------------------------
(* What TypeOK says of one call. *)
Typed(r) ==
    /\ r \in Call
    /\ DOMAIN r.out = DOMAIN r.batch
    /\ r.pc # "idle" => r.batch # <<>>
    /\ r.pc \in DedupStages => r.i \in DOMAIN r.batch

SharedTyped ==
    /\ window \in Seq(Entry)
    /\ index \subseteq Texts
    /\ now \in Nat
    /\ added \subseteq Entry
    /\ overlapped \in BOOLEAN
    /\ submitted \in Nat /\ faults \in Nat

AllTyped == threads \in [Threads -> Call] /\ \A t \in Threads : Typed(threads[t])

\* TypeOK, cut into the calls and the rest.
LEMMA TypeOKParts == TypeOK <=> AllTyped /\ SharedTyped
BY DEF TypeOK, AllTyped, SharedTyped, Typed, InDedup, At

LEMMA TypeOKPartsNext == TypeOK' <=> AllTyped' /\ SharedTyped'
BY DEF TypeOK, AllTyped, SharedTyped, Typed, InDedup, At

\* A call that is replaced by a typed one leaves all of them typed.
LEMMA BecomesTyped ==
    ASSUME AllTyped, NEW t \in Threads, NEW r, Typed(r), Becomes(t, r)
    PROVE  AllTyped'
BY DEF AllTyped, Typed, Becomes

\* The same when the other threads at a stage are disturbed.
LEMMA DisturbingTyped ==
    ASSUME AllTyped, NEW t \in Threads, NEW stage, NEW r, Typed(r),
           Disturbing(t, stage, r)
    PROVE  AllTyped'
<1>1. \A u \in Threads : Typed([threads[u] EXCEPT !.disturbed = TRUE])
  BY DEF AllTyped, Typed, Call
<1>2. \A u \in Threads : threads'[u] \in Call /\ Typed(threads'[u])
  BY <1>1 DEF AllTyped, Typed, Disturbing
<1>3. QED
  BY <1>2 DEF AllTyped, Disturbing

\* The events of a batch are events, and a batch has as many results as events.
LEMMA BatchTyped ==
    ASSUME NEW r, Typed(r), NEW k \in DOMAIN r.batch
    PROVE  /\ r.batch[k] \in Events
           /\ r.out[k] \in Scored
           /\ r.out \in Seq(Scored)
BY ScorerAssumption DEF Typed, Call

\* Rewriting every result of a call keeps it typed.
LEMMA OutTyped ==
    ASSUME NEW r, Typed(r), r.pc # "idle", NEW stage \in Stages \ DedupStages, NEW out,
           DOMAIN out = DOMAIN r.out,
           out = [k \in DOMAIN r.out |-> out[k]],
           \A k \in DOMAIN r.out : out[k] \in Scored
    PROVE  Typed([r EXCEPT !.pc = stage, !.out = out])
<1>1. r.out \in Seq(Scored)
  BY DEF Typed, Call
<1>2. out \in Seq(Scored)
  BY <1>1
<1>3. QED
  BY <1>2 DEF Typed, Call

\* The neutral form of a result is a result.
LEMMA NeutralTyped ==
    ASSUME NEW s \in Scored
    PROVE  Neutral(s) \in Scored
<1>1. [s EXCEPT !.duplicate = FALSE, !.candidates = FALSE,
                !.entityBoost = FALSE, !.degraded = TRUE] \in Scored
  BY DEF Scored
<1>2. ASSUME NEW u \in Scored, NEW p \in Percent
      PROVE  [u EXCEPT !.crossEncoder = p] \in Scored
  BY DEF Scored
<1>3. 0 \in Percent
  BY DEF Percent
<1>4. Neutral(s) =
         [[s EXCEPT !.duplicate = FALSE, !.candidates = FALSE,
                    !.entityBoost = FALSE, !.degraded = TRUE] EXCEPT !.crossEncoder = 0]
  BY DEF Neutral, Scored
<1>5. QED
  BY <1>1, <1>2, <1>3, <1>4

\* The fallback keeps a call typed.
LEMMA FallbackTyped ==
    ASSUME AllTyped, NEW t \in Threads, ~At(t, "idle"), Fallback(t)
    PROVE  AllTyped'
<1> DEFINE r == threads[t]
           out == [k \in DOMAIN r.out |-> Neutral(r.out[k])]
<1>1. Typed(r) /\ r.pc # "idle"
  BY DEF AllTyped, At
<1>2. \A k \in DOMAIN r.out : out[k] \in Scored
  BY <1>1, NeutralTyped DEF Typed, Call
<1>3. Typed([r EXCEPT !.pc = "final", !.out = out])
  BY <1>1, <1>2, OutTyped DEF Stages, DedupStages
<1>4. Typed([r EXCEPT !.pc = "final", !.failed = TRUE, !.out = out])
  BY <1>1, <1>3 DEF Typed, Call
<1>5. QED
  BY <1>4, BecomesTyped DEF Fallback

\* Tier 1 and tier 2 give percentages.
LEMMA ClassifierScoreTyped ==
    ASSUME NEW e \in Events, NEW raised1 \in BOOLEAN, NEW raised2 \in BOOLEAN
    PROVE  ClassifierScore(e, raised1, raised2) \in Percent
BY ScorerAssumption DEF ClassifierScore, ShouldEscalate, Percent

\* A label is one of the four priorities.
LEMMA LabelTyped ==
    ASSUME NEW e, NEW s
    PROVE  RoutingLabel(e, s) \in Priorities
BY DEF RoutingLabel, Priorities

\* A new call is typed.
LEMMA NewCallTyped ==
    ASSUME NEW b \in Batches \cup {<<>>}, NEW stage \in Stages \ DedupStages,
           b = <<>> => stage = "idle"
    PROVE  Typed(NewCall(stage, b))
<1> DEFINE out == [k \in DOMAIN b |-> Fresh(b[k])]
<1>1. b \in Seq(Events)
  <2>1. Batches \subseteq Seq(Events)
    BY ScorerAssumption
  <2>2. <<>> \in Seq(Events)
    OBVIOUS
  <2>3. QED
    BY <2>1, <2>2
<1>2. \A k \in DOMAIN b : Fresh(b[k]) \in Scored
  <2> SUFFICES ASSUME NEW k \in DOMAIN b
               PROVE  Fresh(b[k]) \in Scored
    OBVIOUS
  <2>1. b[k].sigma \in BOOLEAN
    BY <1>1, ScorerAssumption
  <2>2. 0 \in Percent /\ "none" \in Priorities
    BY DEF Percent, Priorities
  <2>3. QED
    BY <2>1, <2>2 DEF Fresh, Scored
<1>3. out \in Seq(Scored) /\ DOMAIN out = DOMAIN b
  BY <1>1, <1>2
<1>4. NewCall(stage, b) =
         [pc |-> stage, batch |-> b, i |-> 0, cutoff |-> 0, snap |-> {}, base |-> {},
          disturbed |-> FALSE, failed |-> FALSE, out |-> out]
  BY DEF NewCall
<1>5. stage \in Stages /\ stage \notin DedupStages
  OBVIOUS
<1> DEFINE r == [pc |-> stage, batch |-> b, i |-> 0, cutoff |-> 0, snap |-> {},
                 base |-> {}, disturbed |-> FALSE, failed |-> FALSE, out |-> out]
<1>6. r \in Call
  <2> HIDE DEF out
  <2>1. QED
    BY <1>3, <1>5 DEF Call
<1>7. DOMAIN r.out = DOMAIN r.batch /\ r.pc \notin DedupStages
  <2> HIDE DEF out
  <2>1. QED
    BY <1>3, <1>5
<1>8. r.pc # "idle" => r.batch # <<>>
  OBVIOUS
<1>9. QED
  BY <1>4, <1>6, <1>7, <1>8 DEF Typed

\* A call is submitted.
LEMMA SubmitTyped ==
    ASSUME AllTyped, SharedTyped, NEW t \in Threads, Submit(t)
    PROVE  AllTyped' /\ SharedTyped'
<1>1. PICK b \in Batches :
         submitted' = submitted + Len(b) /\ Becomes(t, NewCall("classify", b))
  BY DEF Submit
<1>2. Typed(NewCall("classify", b))
  <2>1. b # <<>>
    BY ScorerAssumption
  <2>2. QED
    BY <2>1, NewCallTyped DEF Stages, DedupStages
<1>3. AllTyped'
  BY <1>1, <1>2, BecomesTyped
<1>4. b \in Seq(Events)
  BY ScorerAssumption
<1>5. SharedTyped'
  BY <1>1, <1>4 DEF Submit, SharedTyped, shared
<1>6. QED
  BY <1>3, <1>5

\* Classification rewrites the results.
LEMMA ClassifyTyped ==
    ASSUME AllTyped, SharedTyped, NEW t \in Threads, Classify(t)
    PROVE  AllTyped' /\ SharedTyped'
<1> DEFINE r == threads[t]
<1>1. PICK raised1 \in BOOLEAN, raised2 \in BOOLEAN :
         /\ faults' = faults + (IF raised1 THEN 1 ELSE 0) + (IF raised2 THEN 1 ELSE 0)
         /\ Becomes(t, [r EXCEPT !.pc = "encode",
               !.out = [k \in DOMAIN r.out |->
                  [r.out[k] EXCEPT
                     !.classifier = ClassifierScore(r.batch[k], raised1, raised2),
                     !.degraded = raised1]]])
  BY DEF Classify
<1> DEFINE out == [k \in DOMAIN r.out |->
                     [r.out[k] EXCEPT
                        !.classifier = ClassifierScore(r.batch[k], raised1, raised2),
                        !.degraded = raised1]]
<1>2. Typed(r) /\ r.pc # "idle"
  BY DEF AllTyped, Classify, At
<1>3. ASSUME NEW s \in Scored, NEW p \in Percent
      PROVE  [s EXCEPT !.classifier = p, !.degraded = raised1] \in Scored
  BY DEF Scored
<1>4. \A k \in DOMAIN r.out : out[k] \in Scored
  <2> SUFFICES ASSUME NEW k \in DOMAIN r.out
               PROVE  out[k] \in Scored
    OBVIOUS
  <2>1. r.batch[k] \in Events /\ r.out[k] \in Scored
    BY <1>2, BatchTyped DEF Typed
  <2>2. QED
    BY <2>1, <1>3, ClassifierScoreTyped
<1>5. Typed([r EXCEPT !.pc = "encode", !.out = out])
  BY <1>2, <1>4, OutTyped DEF Stages, DedupStages
<1>6. AllTyped'
  BY <1>1, <1>5, BecomesTyped
<1>7. SharedTyped'
  BY <1>1 DEF Classify, SharedTyped, shared
<1>8. QED
  BY <1>6, <1>7

\* The text of the event a call is at, and the texts in the window, are texts.
LEMMA TextTyped ==
    ASSUME NEW r, Typed(r), r.pc \in DedupStages
    PROVE  TextOf(r) \in Texts
<1>1. r.i \in DOMAIN r.batch
  BY DEF Typed
<1>2. r.batch[r.i] \in Events
  BY <1>1, BatchTyped
<1>3. QED
  BY <1>2 DEF TextOf, Texts

LEMMA WindowTexts ==
    ASSUME NEW w \in Seq(Entry)
    PROVE  TextsOf(w) \subseteq Texts
<1>1. \A k \in DOMAIN w : w[k] \in Entry
  OBVIOUS
<1>2. \A k \in DOMAIN w : w[k].text \in Texts
  BY <1>1 DEF Entry
<1>3. QED
  BY <1>2 DEF TextsOf

\* Moving a call between the stages of the deduplication.
LEMMA StageTyped ==
    ASSUME NEW r, Typed(r), r.pc \in DedupStages, NEW stage \in DedupStages
    PROVE  Typed([r EXCEPT !.pc = stage])
BY DEF Typed, Call, Stages

\* A call leaves the deduplication, or clears what it kept for it.
LEMMA LeavesDedup ==
    ASSUME NEW r, Typed(r), r.pc # "idle", NEW stage \in Stages \ DedupStages,
           NEW n \in Nat, NEW c \in Int
    PROVE  Typed([r EXCEPT !.pc = stage, !.i = n, !.cutoff = c])
BY DEF Typed, Call

LEMMA Cleared ==
    ASSUME NEW r, Typed(r), NEW snap \in SUBSET Texts, NEW base \in SUBSET Texts,
           NEW d \in BOOLEAN
    PROVE  Typed([r EXCEPT !.snap = snap, !.base = base, !.disturbed = d])
BY DEF Typed, Call

\* One result of a call is rewritten.
LEMMA ResultTyped ==
    ASSUME NEW r, Typed(r), r.pc \in DedupStages, NEW s \in Scored
    PROVE  Typed([r EXCEPT !.out[r.i] = s])
<1>1. r.out \in Seq(Scored) /\ r.i \in DOMAIN r.out
  BY DEF Typed, Call
<1>2. [r.out EXCEPT ![r.i] = s] \in Seq(Scored)
  BY <1>1
<1>3. DOMAIN [r.out EXCEPT ![r.i] = s] = DOMAIN r.out
  OBVIOUS
<1>4. QED
  BY <1>2, <1>3 DEF Typed, Call

\* Encoding the batch.
LEMMA EncodeTyped ==
    ASSUME AllTyped, SharedTyped, NEW t \in Threads, Encode(t)
    PROVE  AllTyped' /\ SharedTyped'
<1> DEFINE r == threads[t]
<1>1. Typed(r) /\ r.pc = "encode"
  BY DEF AllTyped, Encode, At
<1>2. now - DedupWindow \in Int
  BY ScorerAssumption DEF SharedTyped
<1>3. PICK c \in Int : Becomes(t, [r EXCEPT !.pc = "prune", !.i = 1, !.cutoff = c])
  BY <1>2 DEF Encode
<1>4. 1 \in DOMAIN r.batch
  BY <1>1, ScorerAssumption DEF Typed, Call
<1>5. Typed([r EXCEPT !.pc = "prune", !.i = 1, !.cutoff = c])
  BY <1>1, <1>4 DEF Typed, Call, Stages, DedupStages
<1>6. AllTyped'
  BY <1>3, <1>5, BecomesTyped
<1>7. SharedTyped'
  BY DEF Encode, SharedTyped, shared
<1>8. QED
  BY <1>6, <1>7

\* The steps of check_dedup that do not raise.
LEMMA CheckDedupTyped ==
    ASSUME AllTyped, SharedTyped, NEW t \in Threads, CheckDedup(t)
    PROVE  AllTyped' /\ SharedTyped'
<1> DEFINE r == threads[t]
<1> USE DEF SharedTyped, shared
<1>1. Typed(r)
  BY DEF AllTyped
<1>2. CASE Prune(t)
  <2>1. r.pc \in DedupStages
    BY <1>2 DEF Prune, At, DedupStages
  <2>2. PICK stage \in DedupStages : Becomes(t, [r EXCEPT !.pc = stage])
    BY <1>2 DEF Prune, Goto, DedupStages
  <2>3. QED
    BY <1>1, <1>2, <2>1, <2>2, StageTyped, BecomesTyped DEF Prune
<1>3. CASE Pop(t)
  <2>1. r.pc \in DedupStages
    BY <1>3 DEF Pop, At, DedupStages
  <2>2. Typed([r EXCEPT !.pc = "prune"])
    BY <1>1, <2>1, StageTyped DEF DedupStages
  <2>3. window' \in Seq(Entry)
    BY <1>3 DEF Pop
  <2>4. QED
    BY <1>3, <2>2, <2>3, DisturbingTyped DEF Pop
<1>4. CASE PopRaises(t) \/ CollectRaises(t)
  BY <1>4, FallbackTyped DEF PopRaises, CollectRaises, At
<1>5. CASE Search(t)
  <2>1. r.pc \in DedupStages
    BY <1>5 DEF Search, At, DedupStages
  <2> DEFINE d == IsDuplicate(TextOf(r))
             s == [r.out[r.i] EXCEPT !.duplicate = d]
  <2>2. d \in BOOLEAN
    BY DEF IsDuplicate
  <2>3. r.out[r.i] \in Scored
    BY <1>1, <2>1 DEF Typed, Call
  <2>4. s \in Scored
    BY <2>2, <2>3 DEF Scored
  <2>5. Typed([r EXCEPT !.out[r.i] = s])
    BY <1>1, <2>1, <2>4, ResultTyped
  <2> HIDE DEF s
  <2>6. Typed([[r EXCEPT !.out[r.i] = s] EXCEPT !.pc = "append"])
    BY <1>1, <2>1, <2>5, StageTyped DEF DedupStages, Typed, Call
  <2>7. [r EXCEPT !.pc = "append", !.out[r.i].duplicate = d]
           = [[r EXCEPT !.out[r.i] = s] EXCEPT !.pc = "append"]
    BY <1>1, <2>1 DEF s, Typed, Call
  <2>8. QED
    BY <1>5, <2>6, <2>7, BecomesTyped DEF Search
<1>6. CASE AddToWindow(t)
  <2>1. r.pc \in DedupStages
    BY <1>6 DEF AddToWindow, At, DedupStages
  <2>2. Typed([r EXCEPT !.pc = "rebuild"])
    BY <1>1, <2>1, StageTyped DEF DedupStages
  <2>3. [text |-> TextOf(r), at |-> now] \in Entry
    BY <1>1, <2>1, TextTyped DEF Entry
  <2>4. window' \in Seq(Entry) /\ added' \subseteq Entry
    BY <1>6, <2>3 DEF AddToWindow
  <2>5. QED
    BY <1>6, <2>2, <2>4, DisturbingTyped DEF AddToWindow
<1>7. CASE Rebuild(t)
  <2>1. Typed([r EXCEPT !.pc = "collect", !.disturbed = FALSE])
    BY <1>1, <1>7 DEF Rebuild, At, Typed, Call, Stages, DedupStages
  <2>2. QED
    BY <1>7, <2>1, DisturbingTyped DEF Rebuild
<1>8. CASE Collect(t)
  <2>1. TextsOf(window) \in SUBSET Texts
    BY WindowTexts
  <2>2. Typed([r EXCEPT !.pc = "add", !.snap = TextsOf(window)])
    BY <1>1, <1>8, <2>1 DEF Collect, At, Typed, Call, Stages, DedupStages
  <2>3. QED
    BY <1>8, <2>2, BecomesTyped DEF Collect
<1>9. CASE AddReads(t)
  <2>1. Typed([r EXCEPT !.pc = "write", !.base = index, !.disturbed = FALSE])
    BY <1>1, <1>9 DEF AddReads, At, Typed, Call, Stages, DedupStages
  <2>2. QED
    BY <1>9, <2>1, BecomesTyped DEF AddReads
<1>10. CASE AddWrites(t)
  <2>1. Typed([r EXCEPT !.pc = "retrieve", !.snap = {}, !.base = {}, !.disturbed = FALSE])
    BY <1>1, <1>10 DEF AddWrites, At, Typed, Call, Stages, DedupStages
  <2>2. index' \subseteq Texts
    BY <1>1, <1>10 DEF AddWrites, Typed, Call
  <2>3. QED
    BY <1>10, <2>1, <2>2, BecomesTyped DEF AddWrites
<1>11. QED
  BY <1>2, <1>3, <1>4, <1>5, <1>6, <1>7, <1>8, <1>9, <1>10 DEF CheckDedup

\* The technique search and the step to the next event.
LEMMA RetrieveTyped ==
    ASSUME AllTyped, SharedTyped, NEW t \in Threads, Retrieve(t)
    PROVE  AllTyped' /\ SharedTyped'
<1> DEFINE r == threads[t]
           c == ~r.out[r.i].duplicate /\ r.batch[r.i].candidates
           s == [r.out[r.i] EXCEPT !.candidates = c]
           q == [r EXCEPT !.out[r.i] = s]
<1>1. Typed(r) /\ r.pc \in DedupStages
  BY DEF AllTyped, Retrieve, At, DedupStages
<1>2. r.out[r.i] \in Scored /\ c \in BOOLEAN
  BY <1>1 DEF Typed, Call
<1>3. s \in Scored
  BY <1>2 DEF Scored
<1>4. Typed(q)
  BY <1>1, <1>3, ResultTyped
<1>5. q = [r EXCEPT !.out[r.i].candidates = c]
  BY <1>1 DEF Typed, Call
<1>6. q.pc = r.pc /\ q.i = r.i /\ q.batch = r.batch
  BY <1>1 DEF Typed, Call
<1> HIDE DEF q
<1>7. CASE r.i < Len(r.batch)
  <2>1. now - DedupWindow \in Int
    BY ScorerAssumption DEF SharedTyped
  <2>2. PICK n \in Int : Becomes(t, [q EXCEPT !.pc = "prune", !.i = r.i + 1, !.cutoff = n])
    BY <1>5, <1>7, <2>1 DEF Retrieve
  <2>3. r.i + 1 \in DOMAIN q.batch /\ r.i + 1 \in Nat
    BY <1>1, <1>6, <1>7, ScorerAssumption DEF Typed, Call
  <2>4. Typed([q EXCEPT !.pc = "prune", !.i = r.i + 1, !.cutoff = n])
    BY <1>1, <1>4, <1>6, <2>3 DEF Typed, Call, Stages, DedupStages
  <2>5. QED
    BY <2>2, <2>4, BecomesTyped DEF Retrieve, SharedTyped, shared
<1>8. CASE ~(r.i < Len(r.batch))
  <2>1. Becomes(t, [q EXCEPT !.pc = "novelty", !.i = 0, !.cutoff = 0])
    BY <1>5, <1>8 DEF Retrieve
  <2>2. Typed([q EXCEPT !.pc = "novelty", !.i = 0, !.cutoff = 0])
    <3>1. "novelty" \in Stages \ DedupStages /\ 0 \in Nat /\ 0 \in Int
      BY DEF Stages, DedupStages
    <3>2. q.pc # "idle"
      BY <1>1, <1>6 DEF DedupStages
    <3>3. QED
      BY <1>4, <3>1, <3>2, LeavesDedup
  <2>3. QED
    BY <2>1, <2>2, BecomesTyped DEF Retrieve, SharedTyped, shared
<1>9. QED
  BY <1>7, <1>8

\* Novelty, NER, cross encoder and the final score rewrite the results.
LEMMA TierThreeTyped ==
    ASSUME AllTyped, SharedTyped, NEW t \in Threads,
           Novelty(t) \/ NER(t) \/ CrossEncoder(t)
    PROVE  AllTyped' /\ SharedTyped'
<1> DEFINE r == threads[t]
<1>1. Typed(r)
  BY DEF AllTyped
<1>2. \A k \in DOMAIN r.out : r.batch[k] \in Events /\ r.out[k] \in Scored
  BY <1>1, BatchTyped DEF Typed
<1>3. CASE Novelty(t)
  <2>1. PICK score \in [DOMAIN r.out -> NoveltyScores] :
           Becomes(t, [r EXCEPT
              !.pc = IF \A k \in DOMAIN r.out : r.out[k].duplicate THEN "final" ELSE "ner",
              !.out = [k \in DOMAIN r.out |-> [r.out[k] EXCEPT !.novelty = score[k]]]])
    BY <1>3 DEF Novelty
  <2> DEFINE out == [k \in DOMAIN r.out |-> [r.out[k] EXCEPT !.novelty = score[k]]]
             stage == IF \A k \in DOMAIN r.out : r.out[k].duplicate THEN "final" ELSE "ner"
  <2>2. ASSUME NEW s \in Scored, NEW p \in Percent
        PROVE  [s EXCEPT !.novelty = p] \in Scored
    BY DEF Scored
  <2>3. \A k \in DOMAIN r.out : score[k] \in Percent
    BY ScorerAssumption
  <2>4. \A k \in DOMAIN r.out : out[k] \in Scored
    BY <1>2, <2>2, <2>3
  <2>5. stage \in Stages \ DedupStages
    BY DEF Stages, DedupStages
  <2>6. r.pc # "idle"
    BY <1>3 DEF Novelty, At
  <2> HIDE DEF stage
  <2>7. Typed([r EXCEPT !.pc = stage, !.out = out])
    BY <1>1, <2>4, <2>5, <2>6, OutTyped
  <2>8. AllTyped'
    BY <2>1, <2>7, BecomesTyped DEF stage
  <2>9. QED
    BY <1>3, <2>8 DEF Novelty, SharedTyped, shared
<1>4. CASE NER(t)
  <2> DEFINE boost(k) == ~r.out[k].duplicate /\ r.batch[k].entities
             out == [k \in DOMAIN r.out |-> [r.out[k] EXCEPT !.entityBoost = boost(k)]]
  <2>1. ASSUME NEW s \in Scored, NEW p \in BOOLEAN
        PROVE  [s EXCEPT !.entityBoost = p] \in Scored
    BY DEF Scored
  <2>2. \A k \in DOMAIN r.out : boost(k) \in BOOLEAN
    OBVIOUS
  <2>3. \A k \in DOMAIN r.out : out[k] \in Scored
    <3> HIDE DEF boost
    <3>1. QED
      BY <1>2, <2>1, <2>2
  <2>4. Typed([r EXCEPT !.pc = "crossEncoder", !.out = out])
    BY <1>1, <1>4, <2>3, OutTyped DEF NER, At, Stages, DedupStages
  <2>5. AllTyped'
    BY <1>4, <2>4, BecomesTyped DEF NER
  <2>6. QED
    BY <1>4, <2>5 DEF NER, SharedTyped, shared
<1>5. CASE CrossEncoder(t)
  <2> DEFINE ce(k) == IF r.out[k].candidates THEN r.batch[k].crossEncoder ELSE 0
             out == [k \in DOMAIN r.out |-> [r.out[k] EXCEPT !.crossEncoder = ce(k)]]
  <2>1. ASSUME NEW s \in Scored, NEW p \in Percent
        PROVE  [s EXCEPT !.crossEncoder = p] \in Scored
    BY DEF Scored
  <2>2. \A k \in DOMAIN r.out : ce(k) \in Percent
    <3>1. 0 \in Percent
      BY DEF Percent
    <3>2. \A e \in Events : e.crossEncoder \in Percent
      BY ScorerAssumption
    <3>3. QED
      BY <1>2, <3>1, <3>2
  <2>3. \A k \in DOMAIN r.out : out[k] \in Scored
    <3> HIDE DEF ce
    <3>1. QED
      BY <1>2, <2>1, <2>2
  <2>4. Typed([r EXCEPT !.pc = "final", !.out = out])
    BY <1>1, <1>5, <2>3, OutTyped DEF CrossEncoder, At, Stages, DedupStages
  <2>5. AllTyped'
    BY <1>5, <2>4, BecomesTyped DEF CrossEncoder
  <2>6. QED
    BY <1>5, <2>5 DEF CrossEncoder, SharedTyped, shared
<1>6. QED
  BY <1>3, <1>4, <1>5

\* The final score, and the return to the caller.
LEMMA EndTyped ==
    ASSUME AllTyped, SharedTyped, NEW t \in Threads, Final(t) \/ Return(t) \/ ScoringRaises(t)
    PROVE  AllTyped' /\ SharedTyped'
<1> DEFINE r == threads[t]
<1>1. Typed(r)
  BY DEF AllTyped
<1>2. CASE Final(t)
  <2> DEFINE label(k) == RoutingLabel(r.batch[k], r.out[k])
             out == [k \in DOMAIN r.out |-> [r.out[k] EXCEPT !.priority = label(k)]]
  <2>1. ASSUME NEW s \in Scored, NEW p \in Priorities
        PROVE  [s EXCEPT !.priority = p] \in Scored
    BY DEF Scored
  <2>2. \A k \in DOMAIN r.out : label(k) \in Priorities
    BY LabelTyped
  <2>3. \A k \in DOMAIN r.out : out[k] \in Scored
    <3>1. \A k \in DOMAIN r.out : r.out[k] \in Scored
      BY <1>1 DEF Typed, Call
    <3> HIDE DEF label
    <3>2. QED
      BY <2>1, <2>2, <3>1
  <2>4. Typed([r EXCEPT !.pc = "done", !.out = out])
    BY <1>1, <1>2, <2>3, OutTyped DEF Final, At, Stages, DedupStages
  <2> DEFINE q == [r EXCEPT !.pc = "done", !.snap = {}, !.base = {}, !.i = 0,
                            !.cutoff = 0, !.disturbed = FALSE, !.out = out]
  <2>5. Typed(q)
    <3> DEFINE q1 == [r EXCEPT !.pc = "done", !.out = out]
               q2 == [q1 EXCEPT !.snap = {}, !.base = {}, !.disturbed = FALSE]
    <3>1. {} \in SUBSET Texts /\ FALSE \in BOOLEAN /\ 0 \in Nat /\ 0 \in Int
      OBVIOUS
    <3>2. "done" \in Stages \ DedupStages
      BY DEF Stages, DedupStages
    <3> HIDE DEF out
    <3>3. Typed(q1) /\ q1.pc = "done"
      BY <1>1, <2>4 DEF Typed, Call
    <3>4. q2.pc = "done"
      BY <3>3 DEF Typed, Call
    <3>5. q = [q2 EXCEPT !.pc = "done", !.i = 0, !.cutoff = 0]
      BY <1>1 DEF Typed, Call
    <3> HIDE DEF q1, q
    <3>6. Typed(q2)
      BY <3>1, <3>3, Cleared
    <3> HIDE DEF q2
    <3>7. QED
      BY <3>1, <3>2, <3>4, <3>5, <3>6, LeavesDedup
  <2>6. AllTyped'
    BY <1>2, <2>5, BecomesTyped DEF Final
  <2>7. QED
    BY <1>2, <2>6 DEF Final, SharedTyped, shared
<1>3. CASE Return(t)
  <2>1. Typed(Idle)
    BY NewCallTyped DEF Idle, Stages, DedupStages
  <2>2. QED
    BY <1>3, <2>1, BecomesTyped DEF Return, SharedTyped, shared
<1>4. CASE ScoringRaises(t)
  <2>1. Typed(Idle)
    BY NewCallTyped DEF Idle, Stages, DedupStages
  <2>2. QED
    BY <1>4, <2>1, BecomesTyped DEF ScoringRaises, Raise, SharedTyped, shared
<1>5. QED
  BY <1>2, <1>3, <1>4

\* Every step keeps the types.
LEMMA NextTyped ==
    ASSUME TypeOK, [Next]_vars
    PROVE  TypeOK'
<1>1. AllTyped /\ SharedTyped
  BY TypeOKParts
<1> SUFFICES AllTyped' /\ SharedTyped'
  BY TypeOKPartsNext
<1>2. CASE UNCHANGED vars
  BY <1>1, <1>2 DEF AllTyped, SharedTyped, vars, shared
<1>3. CASE Tick
  BY <1>1, <1>3 DEF Tick, AllTyped, SharedTyped, shared
<1>4. CASE Quiet
  BY <1>2, <1>4 DEF Quiet
<1>5. ASSUME NEW t \in Threads, Submit(t) \/ ScoreBatch(t) \/ Return(t)
      PROVE  AllTyped' /\ SharedTyped'
  <2>1. CASE Submit(t)
    BY <1>1, <2>1, SubmitTyped
  <2>2. CASE Classify(t)
    BY <1>1, <2>2, ClassifyTyped
  <2>3. CASE Encode(t)
    BY <1>1, <2>3, EncodeTyped
  <2>4. CASE CheckDedup(t)
    BY <1>1, <2>4, CheckDedupTyped
  <2>5. CASE Retrieve(t)
    BY <1>1, <2>5, RetrieveTyped
  <2>6. CASE ModelRaises(t)
    BY <1>1, <2>6, FallbackTyped DEF ModelRaises, At, Raise, SharedTyped, shared
  <2>7. CASE Novelty(t) \/ NER(t) \/ CrossEncoder(t)
    BY <1>1, <2>7, TierThreeTyped
  <2>8. CASE Final(t) \/ Return(t) \/ ScoringRaises(t)
    BY <1>1, <2>8, EndTyped
  <2>9. QED
    BY <1>5, <2>1, <2>2, <2>3, <2>4, <2>5, <2>6, <2>7, <2>8 DEF ScoreBatch
<1>6. QED
  BY <1>2, <1>3, <1>4, <1>5 DEF Next

(* The type invariant holds in every execution, for every set of threads,     *)
(* events and batches.                                                        *)
THEOREM ScorerTypeCorrect == Spec => []TypeOK
<1>1. Init => TypeOK
  <2> SUFFICES ASSUME Init
               PROVE  AllTyped /\ SharedTyped
    BY TypeOKParts
  <2>1. Typed(Idle)
    BY NewCallTyped DEF Idle, Stages, DedupStages
  <2>2. AllTyped
    BY <2>1 DEF AllTyped, Init, Typed
  <2>3. QED
    <3>1. <<>> \in Seq(Entry)
      OBVIOUS
    <3>2. SharedTyped
      BY <3>1 DEF Init, SharedTyped
    <3>3. QED
      BY <2>2, <3>2
<1>2. TypeOK /\ [Next]_vars => TypeOK'
  BY NextTyped
<1>3. QED
  BY <1>1, <1>2, PTL DEF Spec
-----------------------------------------------------------------------------
(* Duplicates: every text that a thread holds or the index holds was added to *)
(* the window once.                                                           *)
Known == {entry.text : entry \in added}

OnlyKnown ==
    /\ \A k \in DOMAIN window : window[k] \in added
    /\ index \subseteq Known
    /\ \A t \in Threads : threads[t].snap \subseteq Known /\ threads[t].base \subseteq Known

\* Steps that replace one call by another that holds no more texts.
LEMMA BecomesKnown ==
    ASSUME TypeOK, OnlyKnown, UNCHANGED <<window, index, added>>, NEW t \in Threads,
           NEW r, Becomes(t, r), r.snap \subseteq Known, r.base \subseteq Known
    PROVE  OnlyKnown'
BY DEF TypeOK, OnlyKnown, Known, Becomes

\* The fallback leaves what the call holds as it is.
LEMMA FallbackKnown ==
    ASSUME TypeOK, OnlyKnown, UNCHANGED <<window, index, added>>, NEW t \in Threads,
           Fallback(t)
    PROVE  OnlyKnown'
BY DEF TypeOK, Call, OnlyKnown, Known, Fallback, Becomes

\* Every step keeps OnlyKnown.
LEMMA NextKnown ==
    ASSUME TypeOK, OnlyKnown, [Next]_vars
    PROVE  OnlyKnown'
<1>1. CASE UNCHANGED vars \/ Tick \/ Quiet
  BY <1>1 DEF OnlyKnown, Known, vars, shared, Tick, Quiet
<1>2. ASSUME NEW t \in Threads, Submit(t) \/ ScoreBatch(t) \/ Return(t)
      PROVE  OnlyKnown'
  <2> DEFINE r == threads[t]
  <2>1. r \in Call /\ threads \in [Threads -> Call]
    BY DEF TypeOK
  <2>2. r.snap \subseteq Known /\ r.base \subseteq Known
    BY DEF OnlyKnown
  <2>3. CASE Submit(t) \/ ScoringRaises(t) \/ Return(t)
    BY <2>3, BecomesKnown DEF Submit, ScoringRaises, Return, Idle, NewCall, shared
  <2>4. CASE ModelRaises(t) \/ PopRaises(t) \/ CollectRaises(t)
    BY <2>4, FallbackKnown DEF ModelRaises, PopRaises, CollectRaises, shared
  <2>5. CASE Classify(t)
    BY <2>1, <2>2, <2>5, BecomesKnown DEF Classify, shared, Call
  <2>6. CASE Encode(t) \/ Prune(t) \/ Retrieve(t)
    BY <2>1, <2>2, <2>6, BecomesKnown DEF Encode, Prune, Retrieve, Goto, shared, Call
  <2>7. CASE Search(t)
    BY <2>1, <2>2, <2>7, BecomesKnown DEF Search, shared, Call
  <2>8. CASE Novelty(t) \/ NER(t) \/ CrossEncoder(t) \/ Final(t)
    BY <2>1, <2>2, <2>8, BecomesKnown DEF Novelty, NER, CrossEncoder, Final, shared, Call
  <2>9. CASE Pop(t)
    BY <2>1, <2>9 DEF Pop, Disturbing, OnlyKnown, Known, TypeOK, Call
  <2>10. CASE AddToWindow(t)
    BY <2>1, <2>10 DEF AddToWindow, Disturbing, OnlyKnown, Known, TypeOK, Call
  <2>11. CASE Rebuild(t)
    BY <2>1, <2>11 DEF Rebuild, Disturbing, OnlyKnown, Known, TypeOK, Call
  <2>12. CASE Collect(t)
    <3>1. TextsOf(window) \subseteq Known
      BY DEF TextsOf, OnlyKnown, Known
    <3>2. QED
      BY <2>1, <2>2, <2>12, <3>1, BecomesKnown DEF Collect, shared, Call
  <2>13. CASE AddReads(t)
    BY <2>1, <2>2, <2>13, BecomesKnown DEF AddReads, shared, Call, OnlyKnown
  <2>14. CASE AddWrites(t)
    BY <2>1, <2>2, <2>14 DEF AddWrites, Becomes, OnlyKnown, Known, Call
  <2>15. QED
    BY <1>2, <2>3, <2>4, <2>5, <2>6, <2>7, <2>8, <2>9, <2>10, <2>11, <2>12, <2>13, <2>14
    DEF ScoreBatch, CheckDedup
<1>3. QED
  BY <1>1, <1>2 DEF Next

\* A verdict appears in a search, and the search found a text of the index.
LEMMA SearchJustified ==
    ASSUME TypeOK, OnlyKnown, [Next]_vars, NEW t \in Threads,
           NEW k \in DOMAIN threads[t].out,
           threads[t].pc = "search", ~Verdict(t, k), Verdict(t, k)'
    PROVE  \E entry \in added : Similar(entry.text, TextOf(threads[t]))
<1> DEFINE r == threads[t]
<1>1. r \in Call /\ threads \in [Threads -> Call]
  BY DEF TypeOK
<1>2. ASSUME threads'[t].out = r.out
      PROVE  FALSE
  BY <1>2 DEF Verdict
<1>3. ASSUME UNCHANGED vars \/ Tick \/ Quiet
      PROVE  FALSE
  BY <1>2, <1>3 DEF vars, Tick, Quiet
<1>4. ASSUME NEW u \in Threads, Submit(u) \/ ScoreBatch(u) \/ Return(u)
      PROVE  Search(t)
  <2>1. CASE u = t
    BY <1>4, <2>1 DEF Submit, ScoringRaises, Return, ScoreBatch, CheckDedup, Classify,
       Encode, Prune, Pop, PopRaises, AddToWindow, Rebuild, Collect, CollectRaises, AddReads,
       AddWrites, Retrieve, ModelRaises, Novelty, NER, CrossEncoder, Final, At
  <2>2. CASE u # t
    <3>1. ASSUME NEW q, Becomes(u, q)
          PROVE  threads'[t].out = r.out
      BY <1>1, <2>2, <3>1 DEF Becomes
    <3>2. ASSUME NEW q, NEW stage, Disturbing(u, stage, q)
          PROVE  threads'[t].out = r.out
      BY <1>1, <2>2, <3>2 DEF Disturbing, Call
    <3>3. threads'[t].out = r.out
      <4>1. CASE Submit(u) \/ ScoringRaises(u) \/ Return(u) \/ Classify(u)
        BY <3>1, <4>1 DEF Submit, ScoringRaises, Return, Classify
      <4>2. CASE Encode(u) \/ Prune(u) \/ PopRaises(u) \/ Search(u)
        BY <3>1, <4>2 DEF Encode, Prune, Goto, PopRaises, Fallback, Search
      <4>3. CASE Collect(u) \/ CollectRaises(u) \/ AddReads(u) \/ AddWrites(u)
        BY <3>1, <4>3 DEF Collect, CollectRaises, Fallback, AddReads, AddWrites
      <4>4. CASE Retrieve(u) \/ ModelRaises(u) \/ Novelty(u)
        BY <3>1, <4>4 DEF Retrieve, ModelRaises, Fallback, Novelty
      <4>5. CASE NER(u) \/ CrossEncoder(u) \/ Final(u)
        BY <3>1, <4>5 DEF NER, CrossEncoder, Final
      <4>6. CASE Pop(u) \/ AddToWindow(u) \/ Rebuild(u)
        BY <3>2, <4>6 DEF Pop, AddToWindow, Rebuild
      <4>7. QED
        BY <1>4, <4>1, <4>2, <4>3, <4>4, <4>5, <4>6 DEF ScoreBatch, CheckDedup
    <3>4. QED
      BY <1>2, <3>3
  <2>3. QED
    BY <2>1, <2>2
<1>5. Search(t)
  BY <1>3, <1>4 DEF Next
<1>6. IsDuplicate(TextOf(r))
  <2>1. r.out \in Seq(Scored)
    BY <1>1 DEF Call
  <2>2. threads'[t].out = [r.out EXCEPT ![r.i].duplicate = IsDuplicate(TextOf(r))]
    BY <1>1, <1>5 DEF Search, Becomes, Call
  <2>3. k = r.i
    BY <2>1, <2>2 DEF Verdict
  <2>4. r.out[r.i] \in Scored
    BY <2>1, <2>3
  <2>5. QED
    BY <2>1, <2>2, <2>3, <2>4 DEF Verdict, Scored
<1>7. QED
  BY <1>6 DEF IsDuplicate, OnlyKnown, Known

(* An event becomes a duplicate only of an event that was submitted before,   *)
(* however many threads rebuild the index at once.                            *)
THEOREM NoFalseDuplicates == Spec => DuplicatesAreJustified
<1>1. Init => OnlyKnown
  BY DEF Init, OnlyKnown, Known, Idle, NewCall
<1>2. TypeOK /\ OnlyKnown /\ [Next]_vars => OnlyKnown'
  BY NextKnown
<1>3. Spec => []OnlyKnown
  BY <1>1, <1>2, ScorerTypeCorrect, PTL DEF Spec
<1> DEFINE Justified ==
      \A t \in Threads : \A k \in DOMAIN threads[t].out :
          (threads[t].pc = "search" /\ ~Verdict(t, k) /\ Verdict(t, k)')
             => \E entry \in added : Similar(entry.text, TextOf(threads[t]))
<1>4. TypeOK /\ OnlyKnown /\ [Next]_vars => [Justified]_vars
  BY SearchJustified
<1>5. Spec => [][Justified]_vars
  BY <1>3, <1>4, ScorerTypeCorrect, PTL DEF Spec
<1>6. QED
  BY <1>5 DEF DuplicatesAreJustified
-----------------------------------------------------------------------------
(* Failures: a call that has failed is past the stages, and neutral.          *)
NeutralResult(s) ==
    s.degraded /\ ~s.duplicate /\ ~s.entityBoost /\ s.crossEncoder = 0

FailedNeutral(r) ==
    r.failed => /\ r.pc \in {"final", "done"}
                /\ \A k \in DOMAIN r.out : NeutralResult(r.out[k])

FailureInv == \A t \in Threads : FailedNeutral(threads[t])

\* Steps that replace one call.
LEMMA BecomesNeutral ==
    ASSUME TypeOK, FailureInv, NEW t \in Threads, NEW r, Becomes(t, r), FailedNeutral(r)
    PROVE  FailureInv'
BY DEF TypeOK, FailureInv, Becomes

LEMMA DisturbingNeutral ==
    ASSUME TypeOK, FailureInv, NEW t \in Threads, NEW stage, NEW r,
           Disturbing(t, stage, r), FailedNeutral(r)
    PROVE  FailureInv'
<1>1. ASSUME NEW u \in Threads
      PROVE  FailedNeutral([threads[u] EXCEPT !.disturbed = TRUE])
  BY DEF TypeOK, Call, FailureInv, FailedNeutral
<1>2. QED
  BY <1>1 DEF TypeOK, FailureInv, Disturbing

\* The fallback leaves no evidence in any result.
LEMMA FallbackNeutral ==
    ASSUME TypeOK, FailureInv, NEW t \in Threads, Fallback(t)
    PROVE  FailureInv'
<1> DEFINE r == threads[t]
           out == [k \in DOMAIN r.out |-> Neutral(r.out[k])]
           q == [r EXCEPT !.pc = "final", !.failed = TRUE, !.out = out]
<1>1. r \in Call
  BY DEF TypeOK
<1>2. ASSUME NEW s \in Scored
      PROVE  NeutralResult(Neutral(s))
  BY DEF Scored, Neutral, NeutralResult
<1>3. \A k \in DOMAIN r.out : r.out[k] \in Scored
  BY <1>1 DEF Call
<1>4. \A k \in DOMAIN out : NeutralResult(out[k])
  BY <1>2, <1>3
<1>5. q.pc = "final" /\ q.out = out
  BY <1>1 DEF Call
<1> HIDE DEF out
<1>6. FailedNeutral(q)
  BY <1>4, <1>5 DEF FailedNeutral
<1>7. QED
  BY <1>6, BecomesNeutral DEF Fallback, out

\* Every step keeps the invariant.
LEMMA NextNeutral ==
    ASSUME TypeOK, FailureInv, [Next]_vars
    PROVE  FailureInv'
<1>1. CASE UNCHANGED vars \/ Tick \/ Quiet
  BY <1>1 DEF FailureInv, vars, Tick, Quiet
<1>2. ASSUME NEW t \in Threads, Submit(t) \/ ScoreBatch(t) \/ Return(t)
      PROVE  FailureInv'
  <2> DEFINE r == threads[t]
  <2>1. r \in Call
    BY DEF TypeOK
  <2>2. FailedNeutral(r)
    BY DEF FailureInv
  <2>3. CASE Submit(t) \/ ScoringRaises(t) \/ Return(t)
    BY <2>3, BecomesNeutral DEF Submit, ScoringRaises, Return, Idle, NewCall, FailedNeutral
  <2>4. CASE ModelRaises(t) \/ PopRaises(t) \/ CollectRaises(t)
    BY <2>4, FallbackNeutral DEF ModelRaises, PopRaises, CollectRaises
  <2>5. CASE Classify(t) \/ Encode(t) \/ Prune(t) \/ Search(t)
    <3>1. ~r.failed
      BY <2>2, <2>5 DEF Classify, Encode, Prune, Search, At, FailedNeutral
    <3>2. QED
      BY <2>1, <2>5, <3>1, BecomesNeutral
      DEF Classify, Encode, Prune, Goto, Search, FailedNeutral, Call
  <2>6. CASE Collect(t) \/ AddReads(t) \/ AddWrites(t) \/ Retrieve(t)
    <3>1. ~r.failed
      BY <2>2, <2>6 DEF Collect, AddReads, AddWrites, Retrieve, At, FailedNeutral
    <3>2. QED
      BY <2>1, <2>6, <3>1, BecomesNeutral
      DEF Collect, AddReads, AddWrites, Retrieve, FailedNeutral, Call
  <2>7. CASE Novelty(t) \/ NER(t) \/ CrossEncoder(t)
    <3>1. ~r.failed
      BY <2>2, <2>7 DEF Novelty, NER, CrossEncoder, At, FailedNeutral
    <3>2. QED
      BY <2>1, <2>7, <3>1, BecomesNeutral
      DEF Novelty, NER, CrossEncoder, FailedNeutral, Call
  <2>8. CASE Pop(t) \/ AddToWindow(t) \/ Rebuild(t)
    <3>1. ~r.failed
      BY <2>2, <2>8 DEF Pop, AddToWindow, Rebuild, At, FailedNeutral
    <3>2. QED
      BY <2>1, <2>8, <3>1, DisturbingNeutral
      DEF Pop, AddToWindow, Rebuild, FailedNeutral, Call
  <2>9. CASE Final(t)
    <3> DEFINE label(k) == RoutingLabel(r.batch[k], r.out[k])
               out == [k \in DOMAIN r.out |-> [r.out[k] EXCEPT !.priority = label(k)]]
               q == [r EXCEPT !.pc = "done", !.snap = {}, !.base = {}, !.i = 0,
                              !.cutoff = 0, !.disturbed = FALSE, !.out = out]
    <3>1. ASSUME NEW s \in Scored, NEW p, NeutralResult(s)
          PROVE  NeutralResult([s EXCEPT !.priority = p])
      BY <3>1 DEF Scored, NeutralResult
    <3>2. \A k \in DOMAIN r.out : r.out[k] \in Scored
      BY <2>1 DEF Call
    <3>3. r.failed => \A k \in DOMAIN out : NeutralResult(out[k])
      <4> HIDE DEF label
      <4>1. QED
        BY <2>2, <3>1, <3>2 DEF FailedNeutral
    <3> HIDE DEF out
    <3>4. q.failed = r.failed /\ q.pc = "done" /\ q.out = out
      BY <2>1 DEF Call
    <3>5. FailedNeutral(q)
      BY <3>3, <3>4 DEF FailedNeutral
    <3>6. QED
      BY <2>9, <3>5, BecomesNeutral DEF Final, out
  <2>10. QED
    BY <1>2, <2>3, <2>4, <2>5, <2>6, <2>7, <2>8, <2>9 DEF ScoreBatch, CheckDedup
<1>3. QED
  BY <1>1, <1>2 DEF Next

(* A failure of any tier-3 stage leaves the whole batch neutral and degraded, *)
(* whichever stage failed and whatever the other threads did meanwhile.       *)
THEOREM FallbackIsUniform == Spec => []FailureIsUniform
<1>1. Init => FailureInv
  BY DEF Init, FailureInv, FailedNeutral, Idle, NewCall
<1>2. TypeOK /\ FailureInv /\ [Next]_vars => FailureInv'
  BY NextNeutral
<1>3. FailureInv => FailureIsUniform
  BY DEF FailureInv, FailedNeutral, NeutralResult, FailureIsUniform, At
<1>4. QED
  BY <1>1, <1>2, <1>3, ScorerTypeCorrect, PTL DEF Spec
-----------------------------------------------------------------------------
(* Calls that do not overlap: the index may lack an entry of the window only  *)
(* while the one call in the deduplication is about to write it.              *)
Building(t) == threads[t].pc \in {"rebuild", "collect", "add", "write"}
Complete(t) == threads[t].pc \in {"add", "write"} => TextsOf(window) \subseteq threads[t].snap

Undisturbed == \A t \in Threads : ~threads[t].disturbed
OneAtATime == \A t, u \in Threads : InDedup(t) /\ InDedup(u) => t = u
Covered == TextsOf(window) \subseteq index \/ \E t \in Threads : Building(t)
AllComplete == \A t \in Threads : Complete(t)

IndexInv == ~overlapped => Undisturbed /\ OneAtATime /\ Covered /\ AllComplete

\* Popping the head adds no text.
LEMMA TailTexts ==
    ASSUME NEW w \in Seq(Entry), w # <<>>
    PROVE  TextsOf(Tail(w)) \subseteq TextsOf(w)
<1> SUFFICES ASSUME NEW k \in DOMAIN Tail(w)
             PROVE  Tail(w)[k].text \in TextsOf(w)
  BY DEF TextsOf
<1>1. k + 1 \in DOMAIN w /\ Tail(w)[k] = w[k + 1]
  OBVIOUS
<1>2. QED
  BY <1>1 DEF TextsOf

\* A call outside the deduplication that stays outside, or leaves it having
\* nothing to write, keeps the invariant.
LEMMA OutsideKeepsIndex ==
    ASSUME TypeOK, IndexInv, UNCHANGED <<window, index, overlapped>>, NEW t \in Threads,
           ~Building(t) \/ TextsOf(window) \subseteq index,
           NEW r, Becomes(t, r), r.disturbed = FALSE \/ r.disturbed = threads[t].disturbed,
           r.pc \in DedupStages => InDedup(t), r.pc \notin {"add", "write"}
    PROVE  IndexInv'
<1> SUFFICES ASSUME ~overlapped
             PROVE  (Undisturbed /\ OneAtATime /\ Covered /\ AllComplete)'
  BY DEF IndexInv
<1>1. Undisturbed /\ OneAtATime /\ Covered /\ AllComplete /\ threads \in [Threads -> Call]
  BY DEF IndexInv, TypeOK
<1>2. threads'[t] = r /\ \A u \in Threads : u # t => threads'[u] = threads[u]
  BY <1>1 DEF Becomes
<1>3. Undisturbed'
  BY <1>1, <1>2 DEF Undisturbed
<1>4. OneAtATime'
  BY <1>1, <1>2 DEF OneAtATime, InDedup
<1>5. Covered'
  <2>1. CASE TextsOf(window) \subseteq index
    BY <2>1 DEF Covered, TextsOf
  <2>2. CASE \E u \in Threads : u # t /\ Building(u)
    BY <1>2, <2>2 DEF Covered, Building, TextsOf
  <2>3. QED
    BY <1>1, <2>1, <2>2 DEF Covered
<1>6. AllComplete'
  BY <1>1, <1>2 DEF AllComplete, Complete, TextsOf
<1>7. QED
  BY <1>3, <1>4, <1>5, <1>6

\* The one call in the deduplication moves on within it.
LEMMA InsideKeepsIndex ==
    ASSUME TypeOK, IndexInv, UNCHANGED overlapped, NEW t \in Threads, InDedup(t),
           ~overlapped =>
              /\ threads' = [threads EXCEPT ![t] = threads'[t]]
              /\ threads'[t].pc \in DedupStages
              /\ ~threads'[t].disturbed
              /\ (TextsOf(window) \subseteq index)' \/ Building(t)'
              /\ Complete(t)'
    PROVE  IndexInv'
<1> SUFFICES ASSUME ~overlapped
             PROVE  (Undisturbed /\ OneAtATime /\ Covered /\ AllComplete)'
  BY DEF IndexInv
<1>1. Undisturbed /\ OneAtATime /\ threads \in [Threads -> Call]
  BY DEF IndexInv, TypeOK
<1>2. \A u \in Threads : u # t => threads'[u] = threads[u]
  BY <1>1
<1>3. Undisturbed'
  BY <1>1, <1>2 DEF Undisturbed
<1>4. OneAtATime'
  BY <1>1, <1>2 DEF OneAtATime, InDedup
<1>5. AllComplete'
  BY <1>1, <1>2 DEF AllComplete, Complete, OneAtATime, InDedup, DedupStages
<1>6. QED
  BY <1>3, <1>4, <1>5 DEF Covered

\* Nothing is disturbed by the one call in the deduplication.
LEMMA DisturbsNobody ==
    ASSUME TypeOK, OneAtATime, NEW t \in Threads, InDedup(t),
           NEW stage \in DedupStages, NEW r, Disturbing(t, stage, r)
    PROVE  threads' = [threads EXCEPT ![t] = r]
<1>1. threads \in [Threads -> Call]
  BY DEF TypeOK
<1>2. \A u \in Threads : u # t => threads[u].pc # stage
  BY DEF OneAtATime, InDedup
<1>3. QED
  BY <1>1, <1>2 DEF Disturbing

\* Every step keeps the invariant.
LEMMA NextIndex ==
    ASSUME TypeOK, IndexInv, [Next]_vars
    PROVE  IndexInv'
<1>1. CASE UNCHANGED vars \/ Tick \/ Quiet
  BY <1>1 DEF IndexInv, Undisturbed, OneAtATime, Covered, AllComplete, Complete, Building,
     InDedup, TextsOf, vars, shared, Tick, Quiet
<1>2. ASSUME NEW t \in Threads, Submit(t) \/ ScoreBatch(t) \/ Return(t)
      PROVE  IndexInv'
  <2> DEFINE r == threads[t]
  <2>1. r \in Call /\ threads \in [Threads -> Call] /\ window \in Seq(Entry)
    BY DEF TypeOK
  <2>2. ~overlapped => ~r.disturbed
    BY DEF IndexInv, Undisturbed
  <2>3. CASE Submit(t) \/ ScoringRaises(t) \/ Return(t)
    BY <2>3, OutsideKeepsIndex
    DEF Submit, ScoringRaises, Return, Idle, NewCall, shared, Building, At, DedupStages
  <2>4. CASE ModelRaises(t) \/ PopRaises(t)
    <3>1. ~Building(t)
      BY <2>4 DEF ModelRaises, PopRaises, At, Building
    <3>2. QED
      BY <2>1, <2>4, <3>1, OutsideKeepsIndex
      DEF ModelRaises, PopRaises, Fallback, shared, Call, DedupStages
  <2>5. CASE CollectRaises(t)
    BY <2>2, <2>5 DEF CollectRaises, IndexInv
  <2>6. CASE Classify(t)
    BY <2>1, <2>6, OutsideKeepsIndex DEF Classify, shared, Building, At, Call, DedupStages
  <2>7. CASE Encode(t)
    <3> SUFFICES ASSUME ~overlapped'
                 PROVE  (Undisturbed /\ OneAtATime /\ Covered /\ AllComplete)'
      BY DEF IndexInv
    <3>1. ~overlapped /\ \A u \in Threads : ~InDedup(u)
      BY <2>7 DEF Encode, TypeOK
    <3>2. Undisturbed /\ TextsOf(window) \subseteq index
      BY <3>1 DEF IndexInv, Covered, Building, InDedup, DedupStages
    <3>3. \A u \in Threads : u # t => threads'[u] = threads[u]
      BY <2>1, <2>7 DEF Encode, Becomes
    <3>4. threads'[t].disturbed = r.disturbed
      BY <2>1, <2>7 DEF Encode, Becomes, Call
    <3>5. Undisturbed' /\ OneAtATime'
      BY <3>1, <3>2, <3>3, <3>4 DEF Undisturbed, OneAtATime, InDedup
    <3>6. Covered'
      BY <2>7, <3>2 DEF Encode, shared, Covered, TextsOf
    <3>7. AllComplete'
      BY <2>1, <2>7, <3>1, <3>3
      DEF Encode, Becomes, AllComplete, Complete, InDedup, DedupStages, Call
    <3>8. QED
      BY <3>5, <3>6, <3>7
  <2>8. CASE Prune(t) \/ Search(t) \/ Retrieve(t)
    <3>1. InDedup(t) /\ ~Building(t)
      BY <2>8 DEF Prune, Search, Retrieve, At, InDedup, DedupStages, Building
    <3>2. QED
      BY <2>1, <2>8, <3>1, OutsideKeepsIndex
      DEF Prune, Goto, Search, Retrieve, shared, Call
  <2>9. CASE Novelty(t) \/ NER(t) \/ CrossEncoder(t) \/ Final(t)
    BY <2>1, <2>9, OutsideKeepsIndex
    DEF Novelty, NER, CrossEncoder, Final, shared, Building, At, Call, DedupStages
  <2>10. CASE Pop(t)
    <3>1. InDedup(t) /\ ~Building(t)
      BY <2>10 DEF Pop, At, InDedup, DedupStages, Building
    <3>2. ASSUME ~overlapped
          PROVE  /\ threads' = [threads EXCEPT ![t] = [r EXCEPT !.pc = "prune"]]
                 /\ TextsOf(window) \subseteq index
      <4>1. OneAtATime /\ Covered
        BY <3>2 DEF IndexInv
      <4>2. \A u \in Threads : ~Building(u)
        BY <3>1, <4>1 DEF OneAtATime, InDedup, Building, DedupStages
      <4>3. QED
        BY <2>10, <3>1, <4>1, <4>2, DisturbsNobody DEF Pop, Covered, DedupStages
    <3>3. TextsOf(window') \subseteq TextsOf(window)
      BY <2>1, <2>10, TailTexts DEF Pop
    <3>4. QED
      BY <2>1, <2>2, <2>10, <3>1, <3>2, <3>3, InsideKeepsIndex
      DEF Pop, Call, DedupStages, TextsOf, Complete
  <2>11. CASE AddToWindow(t)
    <3>1. InDedup(t)
      BY <2>11 DEF AddToWindow, At, InDedup, DedupStages
    <3>2. ASSUME ~overlapped
          PROVE  threads' = [threads EXCEPT ![t] = [r EXCEPT !.pc = "rebuild"]]
      BY <2>11, <3>1, <3>2, DisturbsNobody DEF AddToWindow, IndexInv, DedupStages
    <3>3. QED
      BY <2>1, <2>2, <2>11, <3>1, <3>2, InsideKeepsIndex
      DEF AddToWindow, Call, DedupStages, Building, Complete
  <2>12. CASE Rebuild(t)
    <3>1. InDedup(t)
      BY <2>12 DEF Rebuild, At, InDedup, DedupStages
    <3>2. ASSUME ~overlapped
          PROVE  threads' = [threads EXCEPT ![t] =
                                [r EXCEPT !.pc = "collect", !.disturbed = FALSE]]
      BY <2>12, <3>1, <3>2, DisturbsNobody DEF Rebuild, IndexInv, DedupStages
    <3>3. QED
      BY <2>1, <2>12, <3>1, <3>2, InsideKeepsIndex
      DEF Rebuild, Call, DedupStages, Building, Complete
  <2>13. CASE Collect(t)
    BY <2>1, <2>2, <2>13, InsideKeepsIndex
    DEF Collect, Becomes, shared, At, InDedup, Call, DedupStages, Building, Complete, TextsOf
  <2>14. CASE AddReads(t)
    <3>1. InDedup(t)
      BY <2>14 DEF AddReads, At, InDedup, DedupStages
    <3>2. ASSUME ~overlapped
          PROVE  TextsOf(window) \subseteq r.snap
      BY <2>14, <3>2 DEF IndexInv, AllComplete, Complete, AddReads, At
    <3>3. /\ threads' = [threads EXCEPT ![t] = threads'[t]]
          /\ threads'[t].pc = "write"
          /\ threads'[t].snap = r.snap
          /\ ~threads'[t].disturbed
      BY <2>1, <2>14 DEF AddReads, Becomes, Call
    <3>4. UNCHANGED <<window, overlapped>>
      BY <2>14 DEF AddReads, shared
    <3>5. ~overlapped => Complete(t)'
      BY <3>2, <3>3, <3>4 DEF TextsOf, Complete
    <3>6. threads'[t].pc \in DedupStages /\ Building(t)'
      BY <3>3 DEF DedupStages, Building
    <3>7. QED
      BY <3>1, <3>3, <3>4, <3>5, <3>6, InsideKeepsIndex
  <2>15. CASE AddWrites(t)
    <3>1. InDedup(t)
      BY <2>15 DEF AddWrites, At, InDedup, DedupStages
    <3>2. ASSUME ~overlapped
          PROVE  TextsOf(window) \subseteq index'
      <4>1. TextsOf(window) \subseteq r.snap
        BY <2>15, <3>2 DEF IndexInv, AllComplete, Complete, AddWrites, At
      <4>2. index' = r.base \cup r.snap
        BY <2>2, <2>15, <3>2 DEF AddWrites
      <4>3. QED
        BY <4>1, <4>2
    <3>3. QED
      BY <2>1, <2>15, <3>1, <3>2, InsideKeepsIndex
      DEF AddWrites, Becomes, Call, DedupStages, Complete, TextsOf
  <2>16. QED
    BY <1>2, <2>3, <2>4, <2>5, <2>6, <2>7, <2>8, <2>9, <2>10, <2>11, <2>12, <2>13,
       <2>14, <2>15
    DEF ScoreBatch, CheckDedup
<1>3. QED
  BY <1>1, <1>2 DEF Next

(* While calls do not overlap, whichever fail, and whenever no call is in the *)
(* deduplication, the index holds every entry of the window.                  *)
THEOREM IndexIsComplete == Spec => []IndexCoversWindow
<1>1. Init => IndexInv
  BY DEF Init, IndexInv, Undisturbed, OneAtATime, Covered, AllComplete, Complete,
     InDedup, DedupStages, TextsOf, Idle, NewCall
<1>2. TypeOK /\ IndexInv /\ [Next]_vars => IndexInv'
  BY NextIndex
<1>3. IndexInv => IndexCoversWindow
  BY DEF IndexInv, Covered, Building, IndexCoversWindow, InDedup, DedupStages
<1>4. QED
  BY <1>1, <1>2, <1>3, ScorerTypeCorrect, PTL DEF Spec
-----------------------------------------------------------------------------
(* Alarms: the label of an event that carries one.                            *)
Forwarded(e, s) == (e.sigma => s.priority = "HIGH") /\ (e.attackTool => s.priority # "INFO")

AlarmCall(r) ==
    \A k \in DOMAIN r.out : /\ r.out[k].sigma = r.batch[k].sigma
                            /\ r.pc = "done" => Forwarded(r.batch[k], r.out[k])

AlarmInv == \A t \in Threads : AlarmCall(threads[t])

LEMMA FloorSum ==
    ASSUME NEW f \in Int, f >= 60, NEW b \in Nat, NEW c \in Nat, NEW n \in Nat
    PROVE  /\ 35 * f + b + 40 * c + 15 * n - 0 \in Int
           /\ 35 * f + b + 40 * c + 15 * n - 0 >= 35 * 60
OBVIOUS

\* Whatever the other tiers say, the label honours the alarm.
LEMMA LabelForwards ==
    ASSUME NEW e \in Events, NEW s \in Scored, s.sigma = e.sigma
    PROVE  /\ e.sigma => RoutingLabel(e, s) = "HIGH"
           /\ e.attackTool => RoutingLabel(e, s) # "INFO"
<1>1. e.sigma => RoutingLabel(e, s) = "HIGH"
  BY DEF RoutingLabel
<1>2. ASSUME e.attackTool
      PROVE  RoutingLabel(e, s) # "INFO"
  <2>1. s.classifier \in 0..100 /\ s.crossEncoder \in 0..100 /\ s.novelty \in 0..100
    BY DEF Scored, Percent
  <2>2. Floored(e, s) \in Int /\ Floored(e, s) >= 60
    BY <1>2, <2>1 DEF Floored, Larger
  <2>3. Penalty(e, s) = 0
    BY <1>2 DEF Penalty
  <2>4. ComputeScore(e, s) \in Int /\ ComputeScore(e, s) >= 35 * 60
    <3> DEFINE boost == IF s.entityBoost THEN 25 * 20 ELSE 0
               sum == 35 * Floored(e, s) + boost + 40 * s.crossEncoder
                         + 15 * s.novelty - Penalty(e, s)
    <3>1. boost \in Nat
      OBVIOUS
    <3> HIDE DEF boost
    <3>2. sum \in Int /\ sum >= 35 * 60
      <4>1. s.crossEncoder \in Nat /\ s.novelty \in Nat
        BY <2>1
      <4>2. QED
        BY <2>2, <2>3, <3>1, <4>1, FloorSum
    <3>3. ComputeScore(e, s) = IF sum < 0 THEN 0 ELSE IF sum > 10000 THEN 10000 ELSE sum
      BY DEF ComputeScore, boost
    <3> HIDE DEF sum
    <3>4. QED
      BY <3>2, <3>3
  <2>5. ComputeScore(e, s) >= ThresholdLow
    BY <2>4, FloorAssumption, ScorerAssumption
  <2>6. QED
    BY <2>5 DEF RoutingLabel
<1>3. QED
  BY <1>1, <1>2

LEMMA BecomesAlarm ==
    ASSUME TypeOK, AlarmInv, NEW t \in Threads, NEW r, Becomes(t, r), AlarmCall(r)
    PROVE  AlarmInv'
BY DEF TypeOK, AlarmInv, Becomes

LEMMA DisturbingAlarm ==
    ASSUME TypeOK, AlarmInv, NEW t \in Threads, NEW stage, NEW r,
           Disturbing(t, stage, r), AlarmCall(r)
    PROVE  AlarmInv'
<1>1. ASSUME NEW u \in Threads
      PROVE  AlarmCall([threads[u] EXCEPT !.disturbed = TRUE])
  BY DEF TypeOK, Call, AlarmInv, AlarmCall
<1>2. QED
  BY <1>1 DEF TypeOK, AlarmInv, Disturbing

\* No stage but the last changes what the alarm rests on.
LEMMA NextAlarm ==
    ASSUME TypeOK, AlarmInv, [Next]_vars
    PROVE  AlarmInv'
<1>1. CASE UNCHANGED vars \/ Tick \/ Quiet
  BY <1>1 DEF AlarmInv, vars, Tick, Quiet
<1>2. ASSUME NEW t \in Threads, Submit(t) \/ ScoreBatch(t) \/ Return(t)
      PROVE  AlarmInv'
  <2> DEFINE r == threads[t]
  <2>1. r \in Call /\ Typed(r)
    BY TypeOKParts DEF TypeOK, AllTyped
  <2>2. AlarmCall(r)
    BY DEF AlarmInv
  <2>3. \A k \in DOMAIN r.out : r.out[k] \in Scored /\ r.batch[k] \in Events
    BY <2>1, BatchTyped DEF Typed
  <2>4. CASE Submit(t) \/ ScoringRaises(t) \/ Return(t)
    BY <2>4, BecomesAlarm DEF Submit, ScoringRaises, Return, Idle, NewCall, AlarmCall, Fresh
  <2>5. CASE ModelRaises(t) \/ PopRaises(t) \/ CollectRaises(t)
    BY <2>1, <2>2, <2>3, <2>5, BecomesAlarm
    DEF ModelRaises, PopRaises, CollectRaises, Fallback, Neutral, AlarmCall, Call, Scored
  <2>6. CASE Classify(t)
    BY <2>1, <2>2, <2>3, <2>6, BecomesAlarm DEF Classify, AlarmCall, Call, Scored
  <2>7. CASE Encode(t) \/ Prune(t) \/ Collect(t) \/ AddReads(t) \/ AddWrites(t)
    BY <2>1, <2>2, <2>7, BecomesAlarm
    DEF Encode, Prune, Goto, Collect, AddReads, AddWrites, AlarmCall, Call
  <2>8. CASE Pop(t) \/ AddToWindow(t) \/ Rebuild(t)
    BY <2>1, <2>2, <2>8, DisturbingAlarm DEF Pop, AddToWindow, Rebuild, AlarmCall, Call
  <2>9. CASE Search(t)
    <3> DEFINE d == IsDuplicate(TextOf(r))
               q == [r EXCEPT !.pc = "append", !.out[r.i].duplicate = d]
    <3>1. q.batch = r.batch /\ q.out = [r.out EXCEPT ![r.i].duplicate = d] /\ q.pc = "append"
      BY <2>1 DEF Call
    <3>2. \A k \in DOMAIN r.out : q.out[k].sigma = r.out[k].sigma
      BY <2>3, <3>1 DEF Scored
    <3>3. AlarmCall(q)
      BY <2>2, <3>1, <3>2 DEF AlarmCall
    <3>4. QED
      BY <2>9, <3>3, BecomesAlarm DEF Search
  <2>10. CASE Retrieve(t)
    <3>1. /\ threads'[t].batch = r.batch /\ threads'[t].pc # "done"
          /\ \E c : threads'[t].out = [r.out EXCEPT ![r.i].candidates = c]
      BY <2>1, <2>10 DEF Retrieve, Becomes, TypeOK, Call
    <3>2. /\ DOMAIN threads'[t].out = DOMAIN r.out
          /\ \A k \in DOMAIN r.out : threads'[t].out[k].sigma = r.out[k].sigma
      BY <2>3, <3>1 DEF Scored
    <3>3. AlarmCall(threads'[t])
      BY <2>2, <3>1, <3>2 DEF AlarmCall
    <3>4. PICK q : Becomes(t, q)
      BY <2>10 DEF Retrieve
    <3>5. q = threads'[t]
      BY <3>4 DEF Becomes, TypeOK
    <3>6. QED
      BY <3>3, <3>4, <3>5, BecomesAlarm
  <2>11. CASE Novelty(t) \/ NER(t) \/ CrossEncoder(t)
    BY <2>1, <2>2, <2>3, <2>11, BecomesAlarm
    DEF Novelty, NER, CrossEncoder, AlarmCall, Call, Scored
  <2>12. CASE Final(t)
    <3> DEFINE label(k) == RoutingLabel(r.batch[k], r.out[k])
               out == [k \in DOMAIN r.out |-> [r.out[k] EXCEPT !.priority = label(k)]]
               q == [r EXCEPT !.pc = "done", !.snap = {}, !.base = {}, !.i = 0,
                              !.cutoff = 0, !.disturbed = FALSE, !.out = out]
    <3>1. ASSUME NEW k \in DOMAIN r.out
          PROVE  out[k].sigma = r.batch[k].sigma /\ Forwarded(r.batch[k], out[k])
      <4>1. r.out[k].sigma = r.batch[k].sigma
        BY <2>2 DEF AlarmCall
      <4>2. /\ r.batch[k].sigma => label(k) = "HIGH"
            /\ r.batch[k].attackTool => label(k) # "INFO"
        BY <2>3, <4>1, LabelForwards
      <4>3. out[k].priority = label(k) /\ out[k].sigma = r.out[k].sigma
        <5> HIDE DEF label
        <5>1. QED
          BY <2>3 DEF Scored
      <4>4. QED
        BY <4>1, <4>2, <4>3 DEF Forwarded
    <3>2. DOMAIN out = DOMAIN r.out
      OBVIOUS
    <3> HIDE DEF out
    <3>3. q.batch = r.batch /\ q.out = out
      BY <2>1 DEF Call
    <3>4. AlarmCall(q)
      BY <3>1, <3>2, <3>3 DEF AlarmCall
    <3>5. QED
      BY <2>12, <3>4, BecomesAlarm DEF Final, out
  <2>13. QED
    BY <1>2, <2>4, <2>5, <2>6, <2>7, <2>8, <2>9, <2>10, <2>11, <2>12
    DEF ScoreBatch, CheckDedup
<1>3. QED
  BY <1>1, <1>2 DEF Next

(* A sigma match is routed HIGH and an attack tool never stays at INFO, for   *)
(* all events, models, failures and interleavings, if the floor of 0.60       *)
(* reaches the lowest threshold.                                              *)
THEOREM AlarmsGoOut == Spec => []AlarmsAreForwarded
<1>1. Init => AlarmInv
  BY DEF Init, AlarmInv, AlarmCall, Idle, NewCall
<1>2. TypeOK /\ AlarmInv /\ [Next]_vars => AlarmInv'
  BY NextAlarm
<1>3. TypeOK /\ AlarmInv => AlarmsAreForwarded
  BY DEF TypeOK, AlarmInv, AlarmCall, Forwarded, AlarmsAreForwarded, At
<1>4. QED
  BY <1>1, <1>2, <1>3, ScorerTypeCorrect, PTL DEF Spec
=============================================================================
