------------------------- MODULE CheckpointSummary --------------------------
(***************************************************************************)
(* The note of one checked behaviour that is written to the run's event    *)
(* stream (generation/review-checkpoint.ts).  Its references are put in    *)
(* first; the texts follow in a fixed order, each cut to what it may take  *)
(* and to what is left of the limit, a value that does not fit is left     *)
(* out, and whatever is missing is marked.                                 *)
(***************************************************************************)
EXTENDS Naturals, Sequences, Functions

CONSTANTS MaxSummary,    \* MAX_SUMMARY_BYTES, in units of text
          MaxDetails,    \* MAX_OBSERVATION_DETAILS
          References,    \* sizes of what is written without its texts
          Lengths, Steps, Events,
          Frame          \* what a step takes besides its text

VARIABLES item, events,        \* what is summarised: lengths of texts, observations
          base,                \* the size of its references
          phase, index,
          bytes,               \* of the summary so far
          truncated,           \* detailsTruncated
          outcome
summary == <<item, events, base, phase, index, bytes, truncated, outcome>>
Keep == UNCHANGED <<item, events, base>>

Init ==
    /\ item \in [actual : Lengths, expected : Lengths, key : Lengths,
                 steps : UNION {[1..n -> Lengths] : n \in 0..Steps}]
    /\ events \in UNION {[1..n -> [action : Lengths, batch : Lengths]] : n \in 0..Events}
    /\ base \in References /\ bytes = base /\ phase = "actual" /\ index = 0
    /\ truncated = FALSE /\ outcome = "none"

\* addText: the binary search ends at the longest prefix that fits; none if the
\* references alone are too long.
Least(S) == CHOOSE n \in S : \A m \in S : n <= m
Left == IF bytes > MaxSummary THEN 0 ELSE MaxSummary - bytes
addText(value, cap) ==
    LET fits == Least({value, cap, Left})
    IN  bytes' = bytes + fits /\ truncated' = (truncated \/ fits < value)

Actual ==
    /\ phase = "actual" /\ addText(item.actual, 3) /\ phase' = "expected"
    /\ Keep /\ UNCHANGED <<index, outcome>>
Expected ==
    /\ phase = "expected" /\ addText(item.expected, 2) /\ phase' = "steps" /\ index' = 1
    /\ Keep /\ UNCHANGED outcome

\* A step for which even the empty text does not fit ends the list.
ReproStep ==
    /\ phase = "steps"
    /\ \/ index > Len(item.steps) /\ phase' = "events" /\ index' = 1 /\ UNCHANGED <<bytes, truncated>>
       \/ /\ index <= Len(item.steps) /\ Left < Frame
          /\ phase' = "events" /\ index' = 1 /\ truncated' = TRUE /\ UNCHANGED bytes
       \/ /\ index <= Len(item.steps) /\ Left >= Frame
          /\ LET fits == Least({item.steps[index], 2, Left - Frame})
             IN  bytes' = bytes + Frame + fits /\ truncated' = (truncated \/ fits < item.steps[index])
          /\ index' = index + 1 /\ UNCHANGED phase
    /\ Keep /\ UNCHANGED outcome

\* An observation's texts, and its batch, which is written whole or not at all.
Observation ==
    /\ phase = "events" /\ UNCHANGED index
    /\ \/ index > Len(events) /\ phase' = "keys" /\ UNCHANGED <<bytes, truncated>>
       \/ /\ index <= Len(events) /\ index > MaxDetails
          /\ phase' = "keys" /\ truncated' = TRUE /\ UNCHANGED bytes
       \/ /\ index <= Len(events) /\ index <= MaxDetails
          /\ phase' = "batch" /\ addText(events[index].action, 2)
    /\ Keep /\ UNCHANGED outcome
addValue ==
    /\ phase = "batch" /\ phase' = "events" /\ index' = index + 1
    /\ IF events[index].batch <= Left
       THEN bytes' = bytes + events[index].batch /\ UNCHANGED truncated
       ELSE truncated' = TRUE /\ UNCHANGED bytes
    /\ Keep /\ UNCHANGED outcome
ArtifactKeys ==
    /\ phase = "keys" /\ addText(item.key, 2) /\ phase' = "end"
    /\ Keep /\ UNCHANGED <<index, outcome>>

\* References that are too long by themselves are refused, not shortened.
Return ==
    /\ phase = "end" /\ outcome = "none"
    /\ outcome' = IF bytes > MaxSummary THEN "refused" ELSE "written"
    /\ Keep /\ UNCHANGED <<phase, index, bytes, truncated>>

Next == Actual \/ Expected \/ ReproStep \/ Observation \/ addValue \/ ArtifactKeys \/ Return

-----------------------------------------------------------------------------
SummaryTypeOK ==
    /\ phase \in {"actual", "expected", "steps", "events", "batch", "keys", "end"}
    /\ truncated \in BOOLEAN /\ outcome \in {"none", "written", "refused"}

\* What the whole note would take.
Plus(a, b) == a + b
Whole ==
    base + item.actual + item.expected + item.key
      + FoldFunction(Plus, 0, [i \in DOMAIN item.steps |-> Frame + item.steps[i]])
      + FoldFunction(Plus, 0, [i \in DOMAIN events |-> events[i].action + events[i].batch])

\* The note is evidence that people read: only references that are too long refuse it,
\* a written one stays within the limit, and it is marked whenever anything of the
\* checkpoint is missing from it, wherever it was cut.
SummaryIsMarked ==
    /\ outcome = "refused" => base > MaxSummary
    /\ outcome = "written" => bytes <= MaxSummary /\ (bytes = Whole \/ truncated)
=============================================================================
