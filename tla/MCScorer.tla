---- MODULE MCScorer ----
(* Bounded instances of Scorer for TLC: a harmless event, an attack that the   *)
(* models recognise, an attack tool that they do not, and a sigma match.       *)
EXTENDS Scorer

CONSTANTS t1, t2

Event(text, syslog, tier1, tier2, evidence) ==
    [text |-> text, syslog |-> syslog, tier1 |-> tier1, tier2 |-> tier2,
     crossEncoder |-> evidence, candidates |-> evidence > 0, entities |-> evidence > 0,
     sigma |-> text = "rule", attackTool |-> text = "tool"]

attack == Event("attack", FALSE, 50, 95, 90)
tool   == Event("tool", TRUE, 5, 5, 0)
rule   == Event("rule", FALSE, 5, 5, 60)

MCThreads == {t1, t2}
MCEvents == {attack, tool, rule}
MCBatches == {<<attack>>, <<tool, rule>>}
(* The tool's message and the attack's are near-duplicates of each other. *)
NearDuplicates(x, y) == x = y \/ {x, y} = {"attack", "tool"}
MCNovelty == {0}
=============================================================================
