-------------------------- MODULE MCWorkflowRunner --------------------------
(***************************************************************************)
(* Small workflows for WorkflowRunner: a flat one and one with nested      *)
(* conditional steps.  Step ids follow the examples of the repository.     *)
(***************************************************************************)
EXTENDS WorkflowRunner, TLC

\* Starts are alike, and so are decisions.
Alike == Permutations(Calls) \cup Permutations(Decisions)

AnyVerdict == {"allow", "deny", "ask"}

\* reserve and credit have a compensation, review is a human approval with a
\* window, notify is a skill whose tool may fail for good.  Without the review
\* (auto) a run is parked only when the policy asks for an approval.
FlatSteps       == {"reserve", "credit", "review", "notify"}
FlatBlocks      == {"main", "auto"}
FlatBody        == [b \in FlatBlocks |->
                     IF b = "auto" THEN <<"reserve", "credit", "notify">>
                                   ELSE <<"reserve", "credit", "review", "notify">>]
FlatKind        == [x \in FlatSteps |->
                     CASE x = "review" -> "human_approval"
                       [] x = "notify" -> "skill"
                       [] OTHER        -> "tool"]
FlatUndoable    == {"reserve", "credit"}
FlatTimed       == {"reserve", "credit", "review", "notify"}
FlatMaxAttempts == [x \in FlatSteps |-> IF x = "notify" THEN 1 ELSE 2]
FlatRetryOn     == [x \in FlatSteps |-> IF x = "credit" THEN "any" ELSE "tool_error"]
FlatArm         == [x \in FlatSteps |-> [holds \in BOOLEAN |-> "main"]]
FlatVerdicts    == [x \in FlatSteps |->
                     IF x = "reserve" THEN {"allow"} ELSE AnyVerdict]

\* A branch inside a branch; the arms end in an approval, at once, or in a tool
\* that is never tried (maxAttempts 0).
NestSteps       == {"reserve", "risk", "credit", "gate", "review", "void", "notify"}
NestBlocks      == {"main", "high", "low", "off", "none"}
NestBody        == [b \in NestBlocks |->
                     CASE b = "main" -> <<"reserve", "risk", "notify">>
                       [] b = "high" -> <<"credit", "gate">>
                       [] b = "low"  -> <<"review">>
                       [] b = "off"  -> <<"void">>
                       [] b = "none" -> <<>>]
NestKind        == [x \in NestSteps |->
                     CASE x \in {"risk", "gate"} -> "conditional"
                       [] x = "review"           -> "human_approval"
                       [] x = "notify"           -> "skill"
                       [] OTHER                  -> "tool"]
NestUndoable    == {"reserve", "credit"}
NestTimed       == {}
NestMaxAttempts == [x \in NestSteps |-> IF x = "void" THEN 0 ELSE 1]
NestRetryOn     == [x \in NestSteps |-> "tool_error"]
NestArm         == [x \in NestSteps |-> [holds \in BOOLEAN |->
                     CASE x = "risk" -> IF holds THEN "high" ELSE "off"
                       [] x = "gate" /\ holds -> "low"
                       [] OTHER               -> "none"]]
NestVerdicts    == [x \in NestSteps |-> {"allow"}]

\* Both workflows are numbered in document order: risk spans its arms, and so
\* does gate inside it.
FirstPlace == [x \in Steps |->
  CASE x = "reserve" -> 1 [] x = "risk" -> 2 [] x \in {"credit", "void"} -> 3
    [] x = "gate" -> 4 [] x = "review" -> 5 [] x = "notify" -> 6]
LastPlace == [x \in Steps |-> IF x \in {"risk", "gate"} THEN 5 ELSE FirstPlace[x]]

ASSUME InDocumentOrder == DocumentOrder(FirstPlace, LastPlace)
=============================================================================
