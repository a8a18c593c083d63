--------------------------- MODULE WorkflowChains ---------------------------
(***************************************************************************)
(* Workflow chains: the executor (lib/workflowChains/chainExecutor.ts),    *)
(* the list of chains in localStorage (chainStore.ts) and the page         *)
(* (pages/WorkflowChains.tsx) that edits a chain while it runs.            *)
(*                                                                         *)
(* JavaScript is single-threaded: the executor's loop lets the page's      *)
(* handlers in only where a step awaits.  An output is who produced it     *)
(* and, for a request, its status; what a transformation or a signature    *)
(* computes is left out.                                                   *)
(***************************************************************************)
EXTENDS Naturals, Sequences, SequencesExt

CONSTANTS
  PrebuiltTemplates,  \* PREBUILT_TEMPLATES: a sequence of chains
  NewIds,             \* the ids a chain or a step is created with
  AddedTypes,         \* the types of the steps the user adds
  Null,               \* JavaScript's null; nothing stored, nothing running
  MaxSteps,           \* bound on the steps of a chain
  MaxChains,          \* bound on the chains
  MaxRuns,            \* bound on the runs started
  MaxEdits            \* bound on the edits made

StepType == {"HTTP_REQUEST", "JSON_EXTRACT", "TRANSFORM", "CRYPTO_SIGN", "WEBHOOK_DISPATCH",
             "DELAY", "ASSERT"}
ChainId == NewIds \cup UNION {{c.id} \cup {s.id : s \in Range(c.steps)} :
                                 c \in Range(PrebuiltTemplates)}
ChainStep == [id : ChainId, type : StepType, enabled : BOOLEAN]
WorkflowChain == [id : ChainId, steps : Seq(ChainStep)]

ASSUME ChainsAssumption ==
  /\ PrebuiltTemplates \in Seq(WorkflowChain) /\ PrebuiltTemplates # <<>>
  /\ AddedTypes \subseteq StepType
  /\ Null # "failed"

VARIABLES
  storedChains,       \* localStorage: a sequence of chains, or Null
  chains, activeChainId, isRunning, executionReport, activeStepResults,  \* the page
  run,                \* the call of executeChain in progress
  runs, edits

chainPage == <<chains, activeChainId, executionReport, activeStepResults>>
chainVars == <<storedChains, chainPage, isRunning, run, runs, edits>>

-----------------------------------------------------------------------------
(* ChainStore. *)

(* getChains: an empty list counts as a first launch. *)
GetChains(s) == IF s \in {Null, <<>>} THEN PrebuiltTemplates ELSE s

(* saveChain *)
WithChain(s, chain) ==
  LET list == GetChains(s)
      at == {i \in DOMAIN list : list[i].id = chain.id}
  IN  IF at = {} THEN <<chain>> \o list
      ELSE [i \in DOMAIN list |-> IF i \in at THEN chain ELSE list[i]]

(* saveChains: a write that fails is not reported. *)
Write(list) == storedChains' = list \/ storedChains' = GetChains(storedChains)

ActiveChain ==
  LET same == {i \in DOMAIN chains : chains[i].id = activeChainId}
  IN  IF same = {} THEN chains[1] ELSE chains[CHOOSE i \in same : TRUE]

UsedIds == UNION {{c.id} \cup {s.id : s \in Range(c.steps)} :
                    c \in Range(chains) \cup Range(GetChains(storedChains))}
FreshIds == NewIds \ UsedIds

-----------------------------------------------------------------------------
(* The page's handlers.  The event loop runs one when the executor awaits. *)
Free == IF run = Null THEN TRUE ELSE run.at = "await"

EditMade == edits < MaxEdits /\ edits' = edits + 1

Select(id) ==
  /\ Free /\ EditMade
  /\ \E c \in Range(chains) : c.id = id
  /\ activeChainId' = id /\ executionReport' = Null /\ activeStepResults' = {}
  /\ UNCHANGED <<storedChains, chains, isRunning, run, runs>>

(* handleCreateNew *)
CreateNew(id, step) ==
  /\ Free /\ EditMade
  /\ Len(chains) < MaxChains
  /\ Write(WithChain(storedChains, [id |-> id,
                          steps |-> <<[id |-> step, type |-> "TRANSFORM", enabled |-> TRUE]>>]))
  /\ chains' = GetChains(storedChains') /\ activeChainId' = id
  /\ UNCHANGED <<isRunning, executionReport, activeStepResults, run, runs>>

(* handleResetTemplates: the page shows the templates also when they could
   not be written. *)
ResetTemplates ==
  /\ Free /\ EditMade
  /\ Write(PrebuiltTemplates)
  /\ chains' = PrebuiltTemplates /\ activeChainId' = PrebuiltTemplates[1].id
  /\ executionReport' = Null /\ activeStepResults' = {}
  /\ UNCHANGED <<isRunning, run, runs>>

(* handleToggleStep, handleDeleteStep and handleAddStep *)
NewSteps(steps) ==
  {[steps EXCEPT ![i].enabled = ~@] : i \in DOMAIN steps}
  \cup {RemoveAt(steps, i) : i \in DOMAIN steps}
  \cup {Append(steps, step) : step \in [id : FreshIds, type : AddedTypes, enabled : {TRUE}]}

EditSteps(steps) ==
  /\ Free /\ EditMade /\ Len(steps) <= MaxSteps
  /\ Write(WithChain(storedChains, [ActiveChain EXCEPT !.steps = steps]))
  /\ chains' = GetChains(storedChains')
  /\ UNCHANGED <<activeChainId, isRunning, executionReport, activeStepResults, run, runs>>

(* handleRunChain: the executor gets the chain object the page shows. *)
RunChain ==
  /\ ~isRunning
  /\ runs < MaxRuns /\ runs' = runs + 1
  /\ isRunning' = TRUE /\ executionReport' = Null /\ activeStepResults' = {}
  /\ run' = [at |-> "loop", chain |-> ActiveChain, results |-> <<>>,
             lastOutput |-> Null, outcome |-> Null]
  /\ UNCHANGED <<storedChains, chains, activeChainId, edits>>

-----------------------------------------------------------------------------
(* executeChain. *)

(* Mutant: the steps are looked up in the list for every round of the loop. *)
StepsLeftInStore(r) ==
  LET now == {c \in Range(chains) : c.id = r.chain.id}
      steps == IF now = {} THEN <<>> ELSE (CHOOSE c \in now : TRUE).steps
  IN  SubSeq(steps, Len(r.results) + 1, Len(steps))

(* The steps of the object the loop iterates over: an edit makes a new one. *)
StepsLeft(r) == SubSeq(r.chain.steps, Len(r.results) + 1, Len(r.chain.steps))

Awaits(step) == step.type \in {"HTTP_REQUEST", "CRYPTO_SIGN", "DELAY"}

(* What a step may end with: its output's kind, or "failed".  A request that
   fails becomes a mock response of status 200. *)
Outcomes(step, last) ==
  CASE step.type = "HTTP_REQUEST" -> {"status 200", "other status"}
    [] step.type = "ASSERT" ->
         IF last = Null THEN {"value", "failed"}
         ELSE CASE last.kind = "status 200"   -> {"value"}
                [] last.kind = "other status" -> {"failed"}
                [] OTHER                      -> {"value", "failed"}
    [] step.type = "TRANSFORM" -> {"value", "failed"}
    [] OTHER -> {"value"}

(* The result is recorded and shown by its step's id; a failure ends the loop. *)
Recorded(r, result, last, outcome) ==
  /\ run' = [r EXCEPT !.at = "loop", !.results = Append(@, result), !.lastOutput = last,
                      !.outcome = outcome]
  /\ activeStepResults' = {x \in activeStepResults : x.stepId # result.stepId} \cup {result}

Looping(step) ==
  /\ run # Null /\ run.outcome # "failed"
  /\ StepsLeft(run) # <<>> /\ step = Head(StepsLeft(run))

SkipStep(step) ==
  /\ Looping(step) /\ run.at = "loop" /\ ~step.enabled
  /\ Recorded(run, [stepId |-> step.id, status |-> "skipped", input |-> run.lastOutput,
                    output |-> Null], run.lastOutput, run.outcome)
  /\ UNCHANGED <<storedChains, chains, activeChainId, isRunning, executionReport, runs, edits>>

AwaitStep(step) ==
  /\ Looping(step) /\ run.at = "loop" /\ step.enabled /\ Awaits(step)
  /\ run' = [run EXCEPT !.at = "await"]
  /\ UNCHANGED <<storedChains, chainPage, isRunning, runs, edits>>

EndStep(step) ==
  /\ Looping(step) /\ step.enabled
  /\ run.at = IF Awaits(step) THEN "await" ELSE "loop"
  /\ \E kind \in Outcomes(step, run.lastOutput) :
       LET failed == kind = "failed"
           output == IF failed THEN Null ELSE [by |-> step.id, kind |-> kind]
       IN  Recorded(run, [stepId |-> step.id, status |-> IF failed THEN "failed" ELSE "success",
                          input |-> run.lastOutput, output |-> output],
                    output, IF failed THEN "failed" ELSE run.outcome)
  /\ UNCHANGED <<storedChains, chains, activeChainId, isRunning, executionReport, runs, edits>>

(* The report, shown under whichever chain is selected by then. *)
Finish ==
  /\ run # Null /\ run.at = "loop"
  /\ IF run.outcome = "failed" THEN TRUE ELSE StepsLeft(run) = <<>>
  /\ executionReport' = [chainId |-> run.chain.id, stepResults |-> run.results,
                         status |-> IF run.outcome = "failed" THEN "failed" ELSE "success",
                         pressed |-> run.chain.steps]
  /\ isRunning' = FALSE /\ run' = Null
  /\ UNCHANGED <<storedChains, chains, activeChainId, activeStepResults, runs, edits>>

-----------------------------------------------------------------------------
ChainsInit ==
  /\ storedChains \in {Null, PrebuiltTemplates} /\ chains = GetChains(storedChains)
  /\ activeChainId = PrebuiltTemplates[1].id
  /\ isRunning = FALSE /\ executionReport = Null /\ activeStepResults = {}
  /\ run = Null /\ runs = 0 /\ edits = 0

ChainsNext ==
  \/ \E c \in Range(chains) : Select(c.id)
  \/ \E id, step \in FreshIds : id # step /\ CreateNew(id, step)
  \/ \E steps \in NewSteps(ActiveChain.steps) : EditSteps(steps)
  \/ ResetTemplates \/ RunChain \/ Finish
  \/ \E step \in Range(IF run = Null THEN <<>> ELSE StepsLeft(run)) :
       SkipStep(step) \/ AwaitStep(step) \/ EndStep(step)

ChainsSpec == ChainsInit /\ [][ChainsNext]_chainVars

-----------------------------------------------------------------------------
(* The output of the last enabled step before the i-th. *)
OutputBefore(results, steps, i) ==
  LET before == {j \in 1..(i - 1) : steps[j].enabled}
  IN  IF before = {} THEN Null
      ELSE results[CHOOSE j \in before : \A k \in before : k <= j].output

(* A report is about the chain as it was when the run was started, whatever
   was edited, reset or deleted during its awaits: its results are those of
   the steps in order, up to the first failure or to the end; a disabled step
   is skipped; and every step got the output of the last enabled step before
   it. *)
FollowsChain(report) ==
  LET steps == report.pressed
      results == report.stepResults
      n == Len(results)
  IN  /\ n <= Len(steps)
      /\ report.status = "success" <=> \A i \in 1..n : results[i].status # "failed"
      /\ n = Len(steps) \/ (n > 0 /\ results[n].status = "failed")
      /\ \A i \in 1..n :
           /\ results[i].stepId = steps[i].id
           /\ results[i].status = "skipped" <=> ~steps[i].enabled
           /\ results[i].status = "failed" => i = n
           /\ results[i].input = OutputBefore(results, steps, i)

ReportsFollowTheChain == executionReport # Null => FollowsChain(executionReport)

=============================================================================
