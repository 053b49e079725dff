----------------------- MODULE AssistantGraphsProofs -----------------------
(* What a run of an assistant promises, for all limits of AssistantGraphs. *)
EXTENDS AssistantGraphs, TLAPS

-----------------------------------------------------------------------------
(* The limits *)

\* How far a run has come when it reaches a node: nothing is asked before the
\* admission, nothing is decided before the main agent, and the explanation is last.
Early == {"load_context", "admittance", "extract_order", "save_extraction", "generate_plan"}
Deciding == {"main_agent", "tools", "compose_response", "explain_workbench"}
Node == Early \cup Deciding \cup
        {"explain_scope", "queue_ack", "request_image", "draft_ready", "END"}

Counted ==
  /\ node \in Node
  /\ spent \in [Stage -> Nat]
  /\ steps \in Nat /\ tools \in Nat /\ attempt \in {0, 1}
  /\ spent["ADMITTANCE"] <= 1 /\ spent["EXTRACTING"] <= 2 /\ spent["EXPLAINING"] <= 1
  /\ spent["DECIDING"] = steps /\ steps <= MaxMain
  /\ tools <= MaxTools
  /\ node \in {"load_context", "admittance"} =>
       spent["ADMITTANCE"] = 0 /\ spent["EXTRACTING"] = 0 /\ attempt = 0
  /\ node = "extract_order" => spent["EXTRACTING"] = attempt
  /\ node \in Early => steps = 0 /\ tools = 0
  /\ node \in {"main_agent", "tools"} => steps < MaxMain
  /\ node # "END" => spent["EXPLAINING"] = 0

\* The limits of the stages leave enough of MAX_MODEL_CALLS for the next node.
LEMMA CountedWithinBudget == Counted => WithinBudget
BY Budgets DEF Counted, WithinBudget, Asking, Models, Stage, Node, Early, Deciding

\* A tool is counted below the limit only.
LEMMA OneMoreTool ==
  ASSUME NEW key, NEW name, NEW r, GenerateDraft(key, r) \/ OtherTool(key, name)
  PROVE  tools' = tools \/ (tools' = tools + 1 /\ ~(tools >= MaxTools))
BY DEF GenerateDraft, OtherTool, Receive, Admitted, ledger

LEMMA CountedInit == Init => Counted
BY Budgets DEF Init, Counted, Stage, Node, Early, Deciding

LEMMA CountedStep == Counted /\ [Next]_vars => Counted'
<1> SUFFICES ASSUME Counted, [Next]_vars PROVE Counted'
  OBVIOUS
<1> USE DEF Counted, Node, Early, Deciding, Stage
<1>1. CASE LoadContext
  BY <1>1 DEF LoadContext, Go, dialogue, ledger
<1>2. CASE Admittance
  <2>1. Route(admission') \in {"queue_ack", "request_image", "extract_order", "main_agent",
                               "generate_plan", "explain_scope"}
    BY DEF Route
  <2>2. node' = Route(admission')
    BY <1>2 DEF Admittance, Go
  <2> QED BY <1>2, <2>1, <2>2, Budgets DEF Admittance, Count, dialogue, ledger
<1>3. CASE Template
  BY <1>3 DEF Template, Finish, dialogue, ledger
<1>4. CASE MainAgent
  <2>1. node' = "compose_response" \/ (node' = "tools" /\ steps + 1 < MaxMain)
    BY <1>4 DEF MainAgent, AfterDecision, Go
  <2> QED BY <1>4, <2>1, Budgets DEF MainAgent, Count, ledger
<1>5. CASE Tools
  <2>1. tools' = tools \/ (tools' = tools + 1 /\ ~(tools >= MaxTools))
    BY <1>5, OneMoreTool DEF Tools
  <2> QED BY <1>5, <2>1, Budgets DEF Tools
<1>6. CASE BackToMain
  BY <1>6 DEF BackToMain, Go, dialogue, ledger
<1>7. CASE ComposeResponse
  BY <1>7 DEF ComposeResponse, Count, Finish, dialogue, ledger
<1>8. CASE ExtractOrder
  BY <1>8 DEF ExtractOrder, Count, Finish, Go, dialogue, ledger
<1>9. CASE SaveExtraction
  BY <1>9, Budgets DEF SaveExtraction, Receive, Finish, Go, dialogue
<1>10. CASE GeneratePlan
  <2>1. tools' = tools \/ (tools' = tools + 1 /\ ~(tools >= MaxTools))
    BY <1>10, OneMoreTool DEF GeneratePlan
  <2>2. node' \in {"END", "explain_workbench", "main_agent"}
    BY <1>10 DEF GeneratePlan, Finish, Go
  <2> QED BY <1>10, <2>1, <2>2, Budgets DEF GeneratePlan, dialogue
<1>11. CASE ExplainWorkbench
  BY <1>11 DEF ExplainWorkbench, Count, Finish, dialogue, ledger
<1>12. CASE Break
  BY <1>12 DEF Break, dialogue, ledger
<1>13. CASE UNCHANGED vars
  BY <1>13 DEF vars
<1> QED BY <1>1, <1>2, <1>3, <1>4, <1>5, <1>6, <1>7, <1>8, <1>9, <1>10, <1>11, <1>12, <1>13 DEF Next

\* However often the model asks for tools, a run keeps the limits of limits.py and
\* meta/PRD.md line 136, and no node of it finds the limit of all model calls used up.
THEOREM RunsStayWithinBudget == Spec => []WithinBudget
<1>1. Init => Counted
  BY CountedInit
<1>2. Counted /\ [Next]_vars => Counted'
  BY CountedStep
<1>3. Counted => WithinBudget
  BY CountedWithinBudget
<1> QED BY <1>1, <1>2, <1>3, PTL DEF Spec

-----------------------------------------------------------------------------
(* The draft of the scheduling assistant *)

\* A tool that is not generate_draft leaves the plan alone, and generate_draft makes
\* one only for those who may, where no draft is in its way.
LEMMA WhoGenerates ==
  ASSUME NEW key, NEW r, GenerateDraft(key, r), plan' # plan
  PROVE  /\ MayGenerate /\ Draft = "FREE"
         /\ plan' = "NEW" /\ r \in Generated
BY DEF GenerateDraft, ledger

\* Only a run that was asked for a draft prepares one, and a draft is replaced only by
\* the run that the user started for it, whatever the model calls.
THEOREM DraftsAreAuthorised == Spec => GenerationAuthorised
<1>1. ASSUME [Next]_vars, plan' # plan
      PROVE  /\ loaded.workbench \/ loaded.automatic \/ admission.operation = "GENERATE"
             /\ plan = "OLD" => loaded.automatic
  <2>1. PICK key, r : GenerateDraft(key, r)
    BY <1>1 DEF Next, LoadContext, Admittance, Template, MainAgent, Tools, OtherTool, BackToMain,
                ComposeResponse, ExtractOrder, SaveExtraction, GeneratePlan, ExplainWorkbench,
                Break, ledger, vars
  <2>2. MayGenerate /\ Draft = "FREE"
    BY <1>1, <2>1, WhoGenerates
  <2>3. loaded.workbench \/ admission.operation = "GENERATE"
    BY <2>2 DEF MayGenerate
  <2>4. plan = "OLD" => loaded.automatic
    BY <2>2 DEF Draft
  <2> QED BY <2>3, <2>4
<1> QED BY <1>1, PTL DEF Spec, GenerationAuthorised

-----------------------------------------------------------------------------
(* What the result says of the draft *)

\* In the scheduling graph outcome follows the plan: it says that there is a draft
\* when the run made one.  The tools of the main agent, which leave outcome alone,
\* make none: who may generate has been to generate_plan before.
OutcomeFollowsPlan ==
  /\ node \notin {"extract_order", "save_extraction", "queue_ack", "request_image", "draft_ready"}
  /\ node \in {"load_context", "admittance", "generate_plan"} =>
       receipt["generate_draft"] = None /\ outcome = "ANSWERED"
  /\ node = "admittance" => ~loaded.workbench
  /\ node = "explain_scope" => outcome = "ANSWERED"
  /\ outcome \in Generated \cup {"ANSWERED"}
  /\ outcome = "ANSWERED" <=> plan # "NEW"
  /\ node \in {"main_agent", "tools"} /\ outcome = "ANSWERED" => ~MayGenerate
  /\ node = "explain_workbench" => outcome # "ANSWERED"
  /\ node # "END" => result = None

OutcomeInv == graph = "SCHEDULING" => OutcomeFollowsPlan /\ OutcomeTellsTheDraft

LEMMA OutcomeInit == Init => OutcomeInv
BY NoneIsNoResult DEF Init, OutcomeInv, OutcomeFollowsPlan, OutcomeTellsTheDraft, Key, Generated, Answers

LEMMA InputKept == [Next]_vars => UNCHANGED input
<1>1. ASSUME LoadContext \/ Admittance \/ Template \/ BackToMain PROVE UNCHANGED input
  BY <1>1 DEF LoadContext, Admittance, Template, BackToMain
<1>2. ASSUME MainAgent \/ Tools \/ ComposeResponse PROVE UNCHANGED input
  BY <1>2 DEF MainAgent, Tools, ComposeResponse
<1>3. ASSUME ExtractOrder \/ SaveExtraction \/ GeneratePlan \/ ExplainWorkbench \/ Break
      PROVE  UNCHANGED input
  BY <1>3 DEF ExtractOrder, SaveExtraction, GeneratePlan, ExplainWorkbench, Break
<1>4. ASSUME UNCHANGED vars PROVE UNCHANGED input
  BY <1>4 DEF vars, input
<1> QED BY <1>1, <1>2, <1>3, <1>4 DEF Next

LEMMA OutcomeStep == OutcomeInv /\ [Next]_vars => OutcomeInv'
<1> SUFFICES ASSUME OutcomeInv, [Next]_vars PROVE OutcomeInv'
  OBVIOUS
<1>a. graph' = graph
  BY InputKept DEF input
<1> SUFFICES ASSUME graph = "SCHEDULING"
             PROVE  (OutcomeFollowsPlan /\ OutcomeTellsTheDraft)'
  BY <1>a DEF OutcomeInv
<1> OutcomeFollowsPlan /\ OutcomeTellsTheDraft
  BY DEF OutcomeInv
<1> USE NoneIsNoResult DEF OutcomeFollowsPlan, OutcomeTellsTheDraft, Generated, Answers
<1>1. CASE LoadContext
  <2>1. node' = IF loaded.workbench THEN "generate_plan" ELSE "admittance"
    BY <1>1 DEF LoadContext, Go
  <2> QED BY <1>1, <2>1 DEF LoadContext, Go, dialogue, ledger, input
<1>2. CASE Admittance
  <2>1. /\ Route(admission') \in {"main_agent", "generate_plan", "explain_scope"}
        /\ Route(admission') = "main_agent" => admission'.operation # "GENERATE"
    BY DEF Route
  <2>2. node' = Route(admission') /\ UNCHANGED <<loaded, plan, outcome, result, receipt>> /\ ~loaded.workbench
    BY <1>2 DEF Admittance, Go, ledger, input
  <2>3. node' = "main_agent" => ~MayGenerate'
    BY <2>1, <2>2 DEF MayGenerate
  <2> QED BY <1>2, <2>1, <2>2, <2>3 DEF Admittance
<1>3. CASE Template
  <2>1. node = "explain_scope" /\ node' = "END" /\ result' \in {"OUT_OF_SCOPE", "NEEDS_INPUT"}
    BY <1>3 DEF Template, Finish
  <2> QED BY <1>3, <2>1 DEF Template, dialogue, ledger, input
<1>4. CASE MainAgent
  <2>1. node' \in {"compose_response", "tools"}
    BY <1>4 DEF MainAgent, AfterDecision, Go
  <2> QED BY <1>4, <2>1 DEF MainAgent, Go, ledger, input, MayGenerate
<1>5. CASE Tools
  <2>1. UNCHANGED <<node, loaded, admission, outcome, result>>
    BY <1>5 DEF Tools, input
  <2>2. plan' = plan \/ (plan' = "NEW" /\ MayGenerate /\ Draft = "FREE")
    BY <1>5, WhoGenerates DEF Tools, OtherTool
  <2>3. node = "tools"
    BY <1>5 DEF Tools
  <2>4. plan' = "NEW" <=> plan = "NEW"
    BY <2>2, <2>3 DEF Draft
  <2> QED BY <2>1, <2>3, <2>4 DEF MayGenerate
<1>6. CASE BackToMain
  BY <1>6 DEF BackToMain, Go, dialogue, ledger, input, MayGenerate
<1>7. CASE ComposeResponse
  BY <1>7 DEF ComposeResponse, Finish, dialogue, ledger, input
<1>8. CASE ExtractOrder \/ SaveExtraction
  BY <1>8 DEF ExtractOrder, SaveExtraction
<1>9. CASE GeneratePlan
  <2>1. PICK r \in Answers :
          /\ GenerateDraft("generate_draft", r)
          /\ IF AfterGeneration(r) # None
               THEN Finish(AfterGeneration(r)) /\ UNCHANGED outcome
               ELSE /\ outcome' = IF r = "NO_FEASIBLE" THEN r ELSE "DRAFT_READY"
                    /\ Go(IF loaded.workbench THEN "explain_workbench" ELSE "main_agent")
    BY <1>9 DEF GeneratePlan
  <2>2. node = "generate_plan" /\ UNCHANGED loaded /\ plan # "NEW" /\ result = None
    BY <1>9 DEF GeneratePlan, input
  <2>3. Draft # "GENERATED"
    BY <2>2 DEF Draft
  <2>4. \/ r \in Generated /\ plan' = "NEW"
        \/ r \notin Generated /\ plan' = plan
    BY <2>1, <2>2, <2>3 DEF GenerateDraft, Admitted, ledger
  <2>5. CASE r \in Generated
    <3>1. AfterGeneration(r) = None
      BY <2>5 DEF AfterGeneration
    <3> QED BY <2>1, <2>2, <2>4, <2>5, <3>1 DEF Go
  <2>6. CASE r \notin Generated
    <3>1. AfterGeneration(r) \in {"NEEDS_INPUT", "NO_PENDING"}
      BY <2>6 DEF AfterGeneration
    <3> QED BY <2>1, <2>2, <2>4, <2>6, <3>1 DEF Finish
  <2> QED BY <2>5, <2>6
<1>10. CASE ExplainWorkbench
  BY <1>10 DEF ExplainWorkbench, Finish, dialogue, ledger, input
<1>11. CASE Break
  BY <1>11 DEF Break, dialogue, ledger, input
<1>12. CASE UNCHANGED vars
  BY <1>12 DEF vars, MayGenerate
<1> QED BY <1>1, <1>2, <1>3, <1>4, <1>5, <1>6, <1>7, <1>8, <1>9, <1>10, <1>11, <1>12 DEF Next

\* A run that reports a draft has left one, and one that reports none has left none.
THEOREM ReportsAreTrue == Spec => []OutcomeTellsTheDraft
<1>1. Init => OutcomeInv
  BY OutcomeInit
<1>2. OutcomeInv /\ [Next]_vars => OutcomeInv'
  BY OutcomeStep
<1>3. OutcomeInv => OutcomeTellsTheDraft
  BY DEF OutcomeInv, OutcomeTellsTheDraft
<1> QED BY <1>1, <1>2, <1>3, PTL DEF Spec
=============================================================================
