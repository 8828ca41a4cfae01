---------------------------- MODULE ProviderStream ----------------------------
(***************************************************************************)
(* providers/cli.py: parse_jsonl_output, what one call reports of the      *)
(* events its agent CLI wrote to standard output.                          *)
(*                                                                         *)
(* A line that is no JSON object, and an event that says nothing of these, *)
(* is skipped and does not appear.  An event is its kind, the id of its    *)
(* part, and the tokens and cost it reports, each of which may be missing; *)
(* the five token counters of TokenUsage are one sum, as in UsageLedger.   *)
(***************************************************************************)
EXTENDS Naturals, FiniteSetsExt, SequencesExt

CONSTANTS
  StepIds,  \* ids of the parts of step_finish events
  Tokens,   \* token counts and costs an event may report
  None      \* Python's None

ASSUME StreamAssumption == /\ Tokens \subseteq Nat
                           /\ None \notin Nat \cup StepIds

Bare(kind) == [kind |-> kind, id |-> None, tokens |-> None, cost |-> None]

(* "text" is a message, "blank" a message of white space only, "failure"   *)
(* an error or turn.failed event, "invalid" a usage event with a negative  *)
(* or non-numeric figure, "uncounted" a step_finish event with a cost but  *)
(* no token object, whose id plays no part.                                *)
Event ==
  {Bare(kind) : kind \in {"text", "blank", "failure", "invalid"}}
    \cup [kind : {"turn"}, id : {None}, tokens : Tokens \cup {None}, cost : {None}]
    \cup [kind : {"step"}, id : StepIds \cup {None}, tokens : Tokens \cup {None},
          cost : Tokens \cup {None}]
    \cup [kind : {"uncounted"}, id : {None}, tokens : {None}, cost : Tokens]

MaybeNat == Nat \cup {None}
Usage == [tokens : MaybeNat, cost : MaybeNat]
Unknown == [tokens |-> None, cost |-> None]

(* _usage_from_event: nothing is reported without a token object, the cost *)
(* included.                                                               *)
ReportsUsage(e) == e.kind \in {"turn", "step"} /\ (e.tokens # None \/ e.cost # None)

Unscanned == [text |-> FALSE, failed |-> FALSE, invalid |-> FALSE,
              seen |-> {}, usages |-> <<>>]

(* The last message is what counts; text: it is not blank. *)
SaysText(text, e) == e.kind = "text" \/ (text /\ e.kind # "blank")

(* One turn of parse_jsonl_output's loop; an invalid figure raises out of  *)
(* it.  A step_finish part that repeats is counted the first time.         *)
ScanRepeated(s, e) ==
  IF s.invalid THEN s
  ELSE [text    |-> SaysText(s.text, e),
        failed  |-> s.failed \/ e.kind = "failure",
        invalid |-> e.kind = "invalid",
        seen    |-> s.seen,
        usages  |-> IF ReportsUsage(e) THEN Append(s.usages, e) ELSE s.usages]

Scan(s, e) ==
  LET repeated == e.kind = "step" /\ e.id \in s.seen
  IN IF s.invalid THEN s
     ELSE [text    |-> SaysText(s.text, e),
           failed  |-> s.failed \/ e.kind = "failure",
           invalid |-> e.kind = "invalid",
           seen    |-> IF ReportsUsage(e) /\ e.kind = "step" /\ e.id # None
                       THEN s.seen \cup {e.id} ELSE s.seen,
           usages  |-> IF ReportsUsage(e) /\ ~repeated
                       THEN Append(s.usages, e) ELSE s.usages]

(* The loop: Scanned(events)[n] is what it knows after n events. *)
Scanned(events) ==
  LET scanned[n \in 0 .. Len(events)] ==
        IF n = 0 THEN Unscanned ELSE Scan(scanned[n - 1], events[n])
  IN scanned

(* sum_known: the sum of what is known, None when nothing is. *)
SumKnown(values) ==
  LET known == {i \in DOMAIN values : values[i] # None}
  IN IF known = {} THEN None ELSE SumFunctionOnSet(values, known)

Aggregate(usages) ==
  [tokens |-> SumKnown([i \in DOMAIN usages |-> usages[i].tokens]),
   cost   |-> SumKnown([i \in DOMAIN usages |-> usages[i].cost])]

(* What the stream says, and the usage that goes with it: a reported       *)
(* failure's ProviderError carries one, an invalid figure's does not.  A   *)
(* stream whose last message is blank, or that has none, is silent.        *)
Parse(events) ==
  LET s == Scanned(events)[Len(events)]
  IN [verdict |-> IF s.failed \/ s.invalid THEN "failure"
                  ELSE IF s.text THEN "output" ELSE "silent",
      usage   |-> IF s.invalid THEN Unknown ELSE Aggregate(s.usages)]

-------------------------------------------------------------------------------
(* What a stream reports, said of the whole of it: whatever holds a        *)
(* figure, an identified step at its first report only.                    *)
Figures(e) == {figure \in {"tokens", "cost"} : e[figure] # None}

Units(events) ==
  {i \in DOMAIN events :
     /\ Figures(events[i]) # {}
     /\ events[i].id # None =>
          \A j \in 1 .. i - 1 : events[j].id = events[i].id => Figures(events[j]) = {}}

Total(events, units, figure) ==
  LET known == {i \in units : events[i][figure] # None}
  IN IF known = {} THEN None ELSE SumFunction([i \in known |-> events[i][figure]])

UsageOf(events, units) ==
  [tokens |-> Total(events, units, "tokens"), cost |-> Total(events, units, "cost")]

OfKind(events, kind) == {i \in DOMAIN events : events[i].kind = kind}
===============================================================================
