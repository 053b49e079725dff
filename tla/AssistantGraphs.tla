-------------------------- MODULE AssistantGraphs --------------------------
(***************************************************************************)
(* One run of an assistant, from the context it loads to its result: the   *)
(* graph of the order assistant and the graph of the scheduling assistant, *)
(* with the calls of the model and of the tools they make.  The model      *)
(* answers as it likes: it admits anything, asks for any tools, several at *)
(* once, with identifiers it used before, and never stops asking by itself.*)
(*                                                                         *)
(* A run breaks off when a model call fails or is one too many, an         *)
(* exception is raised, its lease is lost or its time is up.               *)
(***************************************************************************)
EXTENDS Naturals, Sequences

CONSTANTS
  MaxMain,     \* MAX_MAIN_CALLS
  MaxModel,    \* MAX_MODEL_CALLS
  MaxTools,    \* MAX_TOOL_CALLS
  CallId,      \* identifiers of the tool calls of the model
  MaxCalls,    \* bound on the tool calls of one reply: the code has none
  None

\* One admission, two attempts to recognise, the decisions, one explanation.
ASSUME Budgets ==
  /\ MaxMain \in Nat \ {0} /\ MaxModel \in Nat /\ MaxTools \in Nat \ {0} /\ MaxCalls \in Nat
  /\ MaxModel >= MaxMain + 4

\* None is no result of a run.
ASSUME NoneIsNoResult ==
  None \notin {"DRAFT_READY", "NO_FEASIBLE", "NO_PENDING", "REPLACEMENT_REQUIRED", "ERROR",
               "ANSWERED", "NEEDS_INPUT", "OUT_OF_SCOPE"}

OrderTools == {"read_current_draft", "patch_current_draft", "unknown"}
SchedulingTools == {"read_board", "generate_draft", "unknown"}

VARIABLES
  graph,      \* "ORDER" or "SCHEDULING"
  loaded,     \* what load reads: workbench, queued_only, item, automatic
  node,       \* the node to run next, "END" behind the last
  admission,  \* [decision, operation], or None
  steps,      \* decisions of the main agent
  calls,      \* tool calls of the last reply that are not performed yet
  asked,      \* the last reply asked for tools
  attempt,    \* attempts to recognise that failed
  spent,      \* model calls of each stage
  tools,      \* tool_call_count
  receipt,    \* of each call key: [name, status], or None
  plan,       \* the active plan of the session: "NONE", "OLD", or "NEW" of this run
  outcome,    \* state["outcome"]
  result      \* RunOutcome, "FAILED", or None

vars == <<graph, loaded, node, admission, steps, calls, asked, attempt, spent, tools,
          receipt, plan, outcome, result>>
input == <<graph, loaded>>
dialogue == <<steps, calls, asked>>
ledger == <<tools, receipt, plan>>

Key == CallId \cup {"extract_order", "generate_draft"}
Stage == {"ADMITTANCE", "EXTRACTING", "DECIDING", "EXPLAINING"}
Models == spent["ADMITTANCE"] + spent["EXTRACTING"] + spent["DECIDING"] + spent["EXPLAINING"]

Loaded == [workbench : BOOLEAN, queued_only : BOOLEAN, automatic : BOOLEAN,
           item : {"NONE", "UNREAD", "READ"}]

\* An automatic run of the order assistant recognises an order, one of the scheduling
\* assistant replaces a plan (retry_intent), which nobody decides while a run is open.
\* A run that is retried may find the plan that the first one generated.
Init ==
  /\ graph \in {"ORDER", "SCHEDULING"}
  /\ loaded \in Loaded /\ plan \in {"NONE", "OLD"}
  /\ graph = "ORDER" => /\ loaded.workbench \/ loaded.automatic => loaded.item # "NONE"
                        /\ loaded.queued_only => ~loaded.automatic
                        /\ loaded.queued_only /\ ~loaded.workbench => loaded.item = "NONE"
                        /\ plan = "NONE"
  /\ graph = "SCHEDULING" => /\ ~loaded.queued_only /\ loaded.item = "NONE"
                             /\ loaded.automatic => plan = "OLD"
  /\ node = "load_context" /\ admission = None
  /\ steps = 0 /\ calls = <<>> /\ asked = FALSE
  /\ attempt = 0
  /\ spent = [s \in Stage |-> 0]
  /\ tools = 0 /\ receipt = [k \in Key |-> None]
  /\ outcome = "ANSWERED" /\ result = None

-----------------------------------------------------------------------------
(* Model calls *)

\* count_model: the call is counted before it is made; the one too many raises,
\* and the run breaks off.
Count(stage) ==
  /\ Models < MaxModel
  /\ spent' = [spent EXCEPT ![stage] = @ + 1]

Break ==
  /\ node # "END"
  /\ node' = "END" /\ result' = "FAILED"
  /\ UNCHANGED <<input, admission, dialogue, attempt, spent, ledger, outcome>>

Finish(r) ==
  /\ node' = "END" /\ result' = r

Go(n) == node' = n /\ UNCHANGED result

-----------------------------------------------------------------------------
(* perform_tool *)

\* What a call key may do: "NEW" tools run, a receipt is answered again, and an
\* error is reported to the graph.
Admitted(key, name) ==
  IF receipt[key] # None
    THEN IF receipt[key] = [name |-> name, status |-> "SUCCEEDED"] THEN "REPEATED" ELSE "ERROR"
    ELSE IF tools >= MaxTools THEN "ERROR" ELSE "NEW"

Receive(key, name, status) ==
  /\ tools' = tools + 1
  /\ receipt' = [receipt EXCEPT ![key] = [name |-> name, status |-> status]]

\* Mutation of Draft: the draft of the session is replaced by any generation.
DraftReplaced == IF plan = "NEW" THEN "GENERATED" ELSE "FREE"
\* plans.generate: what stands in the way of a new draft.
Draft ==
  CASE plan = "NEW" -> "GENERATED"
    [] plan = "OLD" /\ ~loaded.automatic -> "REPLACEMENT_REQUIRED"
    [] OTHER -> "FREE"

\* Mutation of MayGenerate: the tool trusts the model.
MayGenerateAsked == TRUE
\* generation_allowed.
MayGenerate ==
  \/ loaded.workbench
  \/ admission # None /\ admission = [decision |-> "ALLOW", operation |-> "GENERATE"]

\* The tool generate_draft under a key, and its answer r.  Without pending orders
\* there is no draft, and the orders asked for may have changed.
Generated == {"DRAFT_READY", "NO_FEASIBLE"}
Answers == Generated \cup {"NO_PENDING", "REPLACEMENT_REQUIRED", "ERROR"}
GenerateDraft(key, r) ==
  LET how == IF MayGenerate THEN Admitted(key, "generate_draft") ELSE "ERROR"
  IN  \/ how = "ERROR" /\ r = "ERROR" /\ UNCHANGED ledger
      \/ how = "REPEATED" /\ r # "ERROR" /\ UNCHANGED ledger
      \/ /\ how = "NEW" /\ Draft = "FREE" /\ r \in Generated
         /\ plan' = "NEW" /\ Receive(key, "generate_draft", "SUCCEEDED")
      \/ /\ how = "NEW" /\ UNCHANGED plan
         /\ \/ Draft = "FREE" /\ r \in {"NO_PENDING", "ERROR"}
            \/ Draft = "GENERATED" /\ r = "DRAFT_READY"
            \/ Draft = "REPLACEMENT_REQUIRED" /\ r = Draft
         /\ Receive(key, "generate_draft", IF r = "ERROR" THEN "FAILED" ELSE "SUCCEEDED")

\* Any other tool: it reads, or patches the draft of the order if it is current.
OtherTool(key, name) ==
  /\ UNCHANGED plan
  /\ IF name = "unknown" \/ Admitted(key, name) # "NEW"
       THEN UNCHANGED <<tools, receipt>>
       ELSE \E status \in {"SUCCEEDED", "FAILED"} :
              /\ status = "FAILED" => name = "patch_current_draft"
              /\ Receive(key, name, status)

-----------------------------------------------------------------------------
(* Nodes of both graphs *)

LoadContext ==
  /\ node = "load_context"
  /\ Go(CASE graph = "ORDER" /\ loaded.workbench ->
               IF loaded.item = "UNREAD" THEN "extract_order" ELSE "draft_ready"
          [] graph = "SCHEDULING" /\ loaded.workbench -> "generate_plan"
          [] OTHER -> "admittance")
  /\ UNCHANGED <<input, admission, dialogue, attempt, spent, ledger, outcome>>

Decision == {"ALLOW", "CLARIFY", "OUT_OF_SCOPE"}
\* EXPLAIN_DRAFT is routed as QUERY, ADJUST_REQUEST as EXECUTE_REQUEST.
Operation == {"QUERY", "GENERATE", "EXECUTE_REQUEST"}

Route(a) ==
  CASE graph = "ORDER" /\ a.decision = "ALLOW" /\ loaded.queued_only -> "queue_ack"
    [] graph = "ORDER" /\ a.decision = "ALLOW" /\ ~loaded.queued_only ->
         IF loaded.item = "NONE" THEN "request_image"
         ELSE IF loaded.item = "UNREAD" THEN "extract_order" ELSE "main_agent"
    [] graph = "SCHEDULING" /\ a.decision = "ALLOW" /\ a.operation # "EXECUTE_REQUEST" ->
         IF a.operation = "GENERATE" THEN "generate_plan" ELSE "main_agent"
    [] OTHER -> "explain_scope"

\* admit asks the model, unless the run continues a recognition or replaces a plan.
Admittance ==
  /\ node = "admittance"
  /\ IF loaded.automatic
       THEN /\ admission' = [decision |-> "ALLOW",
                             operation |-> IF graph = "ORDER" THEN "QUERY" ELSE "GENERATE"]
            /\ UNCHANGED spent
       ELSE /\ Count("ADMITTANCE")
            /\ admission' \in [decision : Decision, operation : Operation]
            /\ graph = "ORDER" => admission'.operation = "QUERY"
  /\ Go(Route(admission'))
  /\ UNCHANGED <<input, dialogue, attempt, ledger, outcome>>

\* explain_scope, queue_ack, request_image and draft_ready answer from templates.
Template ==
  /\ node \in {"explain_scope", "queue_ack", "request_image", "draft_ready"}
  /\ Finish(CASE node = "queue_ack" -> "QUEUED_ONLY"
              [] node = "draft_ready" -> "DRAFT_READY"
              [] node = "explain_scope" /\ admission.decision = "OUT_OF_SCOPE" -> "OUT_OF_SCOPE"
              [] OTHER -> "NEEDS_INPUT")
  /\ UNCHANGED <<input, admission, dialogue, attempt, spent, ledger, outcome>>

ToolCall == [id : CallId, name : IF graph = "ORDER" THEN OrderTools ELSE SchedulingTools]
Replies == UNION {[1..n -> ToolCall] : n \in 0..MaxCalls}

\* Mutation of AfterDecision: the number of decisions is not limited.
AfterDecisionUnlimited(n, tooling) == IF tooling THEN "tools" ELSE "compose_response"
AfterDecision(n, tooling) ==
  IF tooling /\ n < MaxMain THEN "tools" ELSE "compose_response"

MainAgent ==
  /\ node = "main_agent"
  /\ Count("DECIDING")
  /\ steps' = steps + 1
  /\ calls' \in Replies /\ asked' = (calls' # <<>>)
  /\ Go(AfterDecision(steps + 1, asked'))
  /\ UNCHANGED <<input, admission, attempt, ledger, outcome>>

\* The calls of a reply are performed one after the other.
Tools ==
  /\ node = "tools" /\ calls # <<>>
  /\ IF Head(calls).name = "generate_draft"
       THEN \E r \in Answers : GenerateDraft(Head(calls).id, r)
       ELSE OtherTool(Head(calls).id, Head(calls).name)
  /\ calls' = Tail(calls)
  /\ UNCHANGED <<input, node, admission, steps, asked, attempt, spent, outcome, result>>

BackToMain ==
  /\ node = "tools" /\ calls = <<>>
  /\ Go("main_agent")
  /\ UNCHANGED <<input, admission, dialogue, attempt, spent, ledger, outcome>>

ComposeResponse ==
  /\ node = "compose_response"
  /\ Count("EXPLAINING")
  /\ Finish(IF steps >= MaxMain /\ asked THEN "LIMIT_REACHED"
            ELSE IF graph = "ORDER" THEN "DRAFT_READY" ELSE outcome)
  /\ UNCHANGED <<input, admission, dialogue, attempt, ledger, outcome>>

-----------------------------------------------------------------------------
(* Recognition *)

\* An attempt whose answer does not fit the schema is repeated once; the second
\* time the bad choices alone may be stripped.  Other failures end the run.
ExtractOrder ==
  /\ node = "extract_order"
  /\ Count("EXTRACTING")
  /\ \/ Go("save_extraction") /\ UNCHANGED attempt
     \/ attempt = 0 /\ attempt' = 1 /\ UNCHANGED <<node, result>>
     \/ Finish("FAILED") /\ UNCHANGED attempt
  /\ UNCHANGED <<input, admission, dialogue, ledger, outcome>>

\* The user may have edited the draft since the run loaded it: the workbench gives
\* up, the conversation goes on with the draft as it is.
SaveExtraction ==
  /\ node = "save_extraction"
  /\ \/ /\ Receive("extract_order", "extract_order", "SUCCEEDED")
        /\ Go(IF loaded.workbench THEN "draft_ready" ELSE "main_agent")
     \/ /\ Receive("extract_order", "extract_order", "FAILED")
        /\ \/ Finish("FAILED")
           \/ ~loaded.workbench /\ Go("main_agent")
  /\ UNCHANGED <<input, admission, dialogue, attempt, spent, plan, outcome>>

-----------------------------------------------------------------------------
(* Generation *)

\* Mutation of AfterGeneration: a draft that has to be replaced first counts as ready.
AfterGenerationReady(r) ==
  CASE r = "ERROR" -> "NEEDS_INPUT"
    [] r = "NO_PENDING" -> "NO_PENDING"
    [] OTHER -> None
\* The result of generate_plan, if the run ends with it.
AfterGeneration(r) ==
  CASE r \in {"ERROR", "REPLACEMENT_REQUIRED"} -> "NEEDS_INPUT"
    [] r = "NO_PENDING" -> "NO_PENDING"
    [] OTHER -> None

GeneratePlan ==
  /\ node = "generate_plan"
  /\ \E r \in Answers :
       /\ GenerateDraft("generate_draft", r)
       /\ IF AfterGeneration(r) # None
            THEN Finish(AfterGeneration(r)) /\ UNCHANGED outcome
            ELSE /\ outcome' = IF r = "NO_FEASIBLE" THEN r ELSE "DRAFT_READY"
                 /\ Go(IF loaded.workbench THEN "explain_workbench" ELSE "main_agent")
  /\ UNCHANGED <<input, admission, dialogue, attempt, spent>>

\* A standard text takes the place of an explanation that fails or is one too many.
ExplainWorkbench ==
  /\ node = "explain_workbench"
  /\ Count("EXPLAINING") \/ UNCHANGED spent
  /\ Finish(outcome)
  /\ UNCHANGED <<input, admission, dialogue, attempt, ledger, outcome>>

-----------------------------------------------------------------------------
Next ==
  \/ LoadContext \/ Admittance \/ Template
  \/ MainAgent \/ Tools \/ BackToMain \/ ComposeResponse
  \/ ExtractOrder \/ SaveExtraction
  \/ GeneratePlan \/ ExplainWorkbench
  \/ Break

Spec == Init /\ [][Next]_vars

-----------------------------------------------------------------------------
(* What a run promises *)

\* The nodes that call the model.
Asking ==
  \/ node \in {"main_agent", "compose_response", "extract_order", "explain_workbench"}
  \/ node = "admittance" /\ ~loaded.automatic

\* However often the model asks for tools, a run keeps the limits of meta/PRD.md
\* line 136, and they leave the limit of all model calls (MAX_MODEL_CALLS) enough
\* for every call the graph still makes: no run fails for it in its last node.
WithinBudget ==
  /\ spent["ADMITTANCE"] <= 1 /\ spent["EXTRACTING"] <= 2
  /\ spent["DECIDING"] <= MaxMain /\ spent["EXPLAINING"] <= 1
  /\ tools <= MaxTools
  /\ Asking => Models < MaxModel

\* A run prepares a draft only if the user asked for one, and takes the place of a
\* draft only if the user asked to replace that one, whatever the model calls
\* (meta/agent-design/architecture.md line 199 and scheduling_capabilities.py 151).
GenerationAuthorised ==
  [][plan' # plan =>
       /\ loaded.workbench \/ loaded.automatic \/ admission.operation = "GENERATE"
       /\ plan = "OLD" => loaded.automatic]_vars

\* What the result says of a draft is true: a run that ends with DRAFT_READY or
\* NO_FEASIBLE has left its draft, and one that answers, needs input or finds
\* nothing pending has left none.
OutcomeTellsTheDraft ==
  graph = "SCHEDULING" =>
    /\ result \in {"DRAFT_READY", "NO_FEASIBLE"} => plan = "NEW"
    /\ result \in {"ANSWERED", "NEEDS_INPUT", "NO_PENDING", "OUT_OF_SCOPE"} => plan # "NEW"
=============================================================================
