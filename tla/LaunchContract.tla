--------------------------- MODULE LaunchContract ---------------------------
(* What a prepared run is bound to.  _prepare reads the prompt, the job,   *)
(* the pack, the evaluation and the worktree at different moments, writes  *)
(* copies and digests of them into the run directory, and seals them in    *)
(* the contract the runner starts from.  Others edit those sources all the *)
(* while.  A source is a version, a digest is what it is the digest of.    *)
EXTENDS Naturals, FiniteSets

CONSTANTS
    MaxEdit,     \* bound on the edits of the sources
    NoArtifact   \* also: not read, not given

VARIABLES
    given,       \* the request: what the run is prepared with
    sources,     \* the versions of the sources now
    edits,
    launchStep,
    held,        \* what the call keeps in its variables
    artifact,    \* the files of the run directory
    started      \* the prompt and the pack the executor was started on

launch == <<given, sources, edits, launchStep, held, artifact, started>>

Source == {"prompt", "job", "pack", "evaluation", "tree"}
File == {"job", "execution-binding", "job-binding", "prompt", "launch-prompt",
         "source-baseline", "completion", "provenance", "workflow-inputs",
         "evaluation-runtime", "scope-baseline", "contract", "status"}

Given(what) == what \in given
IfGiven(what, content) == IF Given(what) THEN content ELSE NoArtifact
At(step) == launchStep = step
Put(files) == artifact' = [f \in File |-> IF f \in DOMAIN files THEN files[f] ELSE artifact[f]]
GoOn(step) == launchStep' = step /\ UNCHANGED <<given, sources, edits, started>>

-----------------------------------------------------------------------------
(* The prompt is read once.                                                *)
ReadPrompt ==
    /\ At("prompt") /\ GoOn("job")
    /\ held' = [held EXCEPT !.prompt = sources["prompt"]]
    /\ UNCHANGED artifact

(* _resolve_job_reference: a native job is validated with its prompt, a    *)
(* task of the pack only names it.                                         *)
ResolveJob ==
    /\ At("job") /\ GoOn("snapshot")
    /\ held' = IF Given("job") THEN [held EXCEPT !.prompt = sources["prompt"],
                                                 !.job = sources["job"]]
               ELSE held
    /\ UNCHANGED artifact

TakeSnapshot ==
    /\ At("snapshot") /\ GoOn("binding")
    /\ held' = [held EXCEPT !.tree = IfGiven("git", sources["tree"])]
    /\ UNCHANGED artifact

(* _write_job_binding: the validated bytes and the receipt that binds them.*)
WriteJobBinding ==
    /\ At("binding") /\ GoOn("execution") /\ UNCHANGED held
    /\ IF Given("job")
       THEN Put([f \in {"job", "job-binding"} |->
                   IF f = "job" THEN held.job ELSE [job |-> held.job, execution |-> NoArtifact]])
       ELSE UNCHANGED artifact

(* The execution binding of a task chain is stored, and the receipt        *)
(* rewritten to carry its digest.                                          *)
BindExecution ==
    /\ At("execution") /\ GoOn("worker") /\ UNCHANGED held
    /\ IF Given("chain")
       THEN Put([f \in {"execution-binding", "job-binding"} |->
                   IF f = "execution-binding" THEN "plan"
                   ELSE [artifact[f] EXCEPT !.execution = "plan"]])
       ELSE UNCHANGED artifact

(* _prepare_worker: the command, resolved and probed; nothing is written.  *)
PrepareWorker ==
    /\ At("worker") /\ GoOn("copy") /\ UNCHANGED <<held, artifact>>

CopyPrompt ==
    /\ At("copy") /\ GoOn("launch-prompt") /\ UNCHANGED held
    /\ Put([f \in {"prompt"} |-> held.prompt])

(* _write_launch_prompt: the stored prompt below what the run is told; the *)
(* criteria come from the job or, read now, from the pack.                 *)
WriteLaunchPrompt ==
    /\ At("launch-prompt") /\ GoOn("baseline") /\ UNCHANGED held
    /\ Put([f \in {"launch-prompt"} |->
              [prompt |-> artifact["prompt"],
               criteria |-> IF Given("job") THEN held.job ELSE IfGiven("pack", sources["pack"])]])

(* A bug for comparison: the worktree is looked at once more.              *)
WriteSourceBaselineAfresh ==
    /\ At("baseline") /\ GoOn("completion") /\ UNCHANGED held
    /\ Put([f \in {"source-baseline"} |-> IfGiven("git", sources["tree"])])

(* _write_source_baseline: of the snapshot that preflight took.            *)
WriteSourceBaseline ==
    /\ At("baseline") /\ GoOn("completion") /\ UNCHANGED held
    /\ Put([f \in {"source-baseline"} |-> held.tree])

WriteCompletion ==
    /\ At("completion") /\ GoOn("provenance") /\ UNCHANGED held
    /\ Put([f \in {"completion"} |-> [base |-> held.tree]])

(* initial_provenance.                                                     *)
WriteProvenance ==
    /\ At("provenance") /\ GoOn("inputs") /\ UNCHANGED held
    /\ Put([f \in {"provenance"} |->
              [prompt |-> artifact["prompt"], launch |-> artifact["launch-prompt"],
               pack |-> IfGiven("pack", sources["pack"]), revision |-> held.tree,
               binding |-> artifact["job-binding"], inputs |-> NoArtifact,
               evaluation |-> NoArtifact]])

(* The inputs of a workflow node, added to the provenance.                 *)
BindInputs ==
    /\ At("inputs") /\ GoOn("evaluation") /\ UNCHANGED held
    /\ IF Given("workflow")
       THEN Put([f \in {"workflow-inputs", "provenance"} |->
                   IF f = "provenance" THEN [artifact[f] EXCEPT !.inputs = "inputs"]
                   ELSE "inputs"])
       ELSE UNCHANGED artifact

(* _prepare_evaluation: the plan, the commands of the job before those of  *)
(* the plan, and the baseline collected from the worktree as it is now.    *)
PrepareEvaluation ==
    LET plan == IfGiven("evaluation", sources["evaluation"])
        commands == IF Given("job") THEN held.job ELSE plan
    IN  /\ At("evaluation") /\ GoOn("contract")
        /\ IF Given("evaluation") \/ Given("job")
           THEN /\ held' = [held EXCEPT !.policy = [plan |-> plan, commands |-> commands]]
                /\ Put([f \in {"evaluation-runtime", "scope-baseline", "provenance"} |->
                      CASE f = "provenance" -> [artifact[f] EXCEPT !.evaluation = plan]
                        [] f = "scope-baseline" -> sources["tree"]
                        [] OTHER -> [plan |-> plan, commands |-> commands,
                                     binding |-> artifact["job-binding"]]])
           ELSE UNCHANGED <<held, artifact>>

(* _write_agent_run_contract: digests of what is stored; the pack and its  *)
(* result schema are hashed a second time.                                 *)
WriteContract ==
    /\ At("contract") /\ GoOn("publish") /\ UNCHANGED held
    /\ Put([f \in {"contract"} |->
              [prompt |-> artifact["prompt"], launch |-> artifact["launch-prompt"],
               baseline |-> artifact["source-baseline"], revision |-> held.tree,
               pack |-> IfGiven("pack", sources["pack"]),
               policy |-> held.policy]])

(* initial_status, published by initialize_execution.                      *)
PublishStatus ==
    /\ At("publish") /\ GoOn("prepared") /\ UNCHANGED held
    /\ Put([f \in {"status"} |->
              [prompt |-> artifact["prompt"], launch |-> artifact["launch-prompt"],
               binding |-> artifact["job-binding"], runner |-> TRUE]])

(* Any check or read on the way may raise: prepare rolls the directory     *)
(* back (module Preparation).                                              *)
PreparationRaises ==
    /\ launchStep \notin {"prepared", "running", "over"} /\ GoOn("over")
    /\ artifact' = [f \in File |-> NoArtifact] /\ UNCHANGED held

-----------------------------------------------------------------------------
(* read_agent_run_contract: the pack and its schema still as they were.    *)
ContractReadable ==
    /\ artifact["contract"] # NoArtifact
    /\ Given("pack") => artifact["contract"].pack = sources["pack"]

(* repair_status: from the contract, without what the contract lacks.      *)
RepairStatus ==
    /\ At("prepared") /\ ContractReadable
    /\ artifact["status"].runner
    /\ Put([f \in {"status"} |->
              [prompt |-> artifact["contract"].prompt, launch |-> artifact["contract"].launch,
               binding |-> NoArtifact, runner |-> FALSE]])
    /\ UNCHANGED <<given, sources, edits, launchStep, held, started>>

(* start and the checks of the runner: the contract, then the prompt.      *)
StartWorker ==
    /\ At("prepared") /\ artifact["status"].runner /\ ContractReadable
    /\ artifact["launch-prompt"] = artifact["contract"].launch
    /\ launchStep' = "running"
    /\ started' = [prompt |-> artifact["launch-prompt"],
                   pack |-> IfGiven("pack", sources["pack"])]
    /\ UNCHANGED <<given, sources, edits, held, artifact>>

(* Whoever edits a source.                                                 *)
EditSource(s) ==
    /\ launchStep # "over" /\ edits < MaxEdit
    /\ sources' = [sources EXCEPT ![s] = @ + 1] /\ edits' = edits + 1
    /\ UNCHANGED <<given, launchStep, held, artifact, started>>

-----------------------------------------------------------------------------
Request == {g \in SUBSET {"pack", "job", "chain", "evaluation", "git", "workflow"} :
               ("chain" \in g => "job" \in g) /\ ("job" \in g => "pack" \in g)}

LaunchInit ==
    /\ given \in Request
    /\ sources = [s \in Source |-> 0] /\ edits = 0 /\ launchStep = "prompt"
    /\ held = [prompt |-> NoArtifact, job |-> NoArtifact, tree |-> NoArtifact,
               policy |-> NoArtifact]
    /\ artifact = [f \in File |-> NoArtifact] /\ started = NoArtifact

PrepareLaunch ==
    \/ ReadPrompt \/ ResolveJob \/ TakeSnapshot \/ WriteJobBinding \/ BindExecution
    \/ PrepareWorker \/ CopyPrompt \/ WriteLaunchPrompt \/ WriteSourceBaseline
    \/ WriteCompletion \/ WriteProvenance \/ BindInputs \/ PrepareEvaluation
    \/ WriteContract \/ PublishStatus

LaunchNext ==
    \/ PrepareLaunch \/ PreparationRaises \/ RepairStatus \/ StartWorker
    \/ \E s \in Source : EditSource(s)

LaunchSpec == LaunchInit /\ [][LaunchNext]_launch

-----------------------------------------------------------------------------
(* Whatever is edited while a run is prepared, the artifacts of a prepared *)
(* run agree with each other: contract, provenance and runtime carry the   *)
(* digests of the files that are there, one worktree revision, and the     *)
(* commands of the job that was validated with the prompt.  Its worker     *)
(* starts on the prompt and the pack of the contract or not at all.        *)
ContractBindsTheRun ==
    launchStep \in {"prepared", "running"} =>
        LET c == artifact["contract"]
            p == artifact["provenance"]
        IN  /\ c.prompt = artifact["prompt"] /\ p.prompt = artifact["prompt"]
            /\ c.launch = artifact["launch-prompt"] /\ p.launch = c.launch
            /\ artifact["launch-prompt"].prompt = artifact["prompt"]
            /\ c.baseline = artifact["source-baseline"] /\ c.baseline = c.revision
            /\ p.revision = c.revision /\ artifact["completion"].base = c.revision
            /\ p.binding = artifact["job-binding"]
            /\ Given("job") =>
                  /\ artifact["job-binding"].job = artifact["job"]
                  /\ artifact["evaluation-runtime"].binding = artifact["job-binding"]
                  /\ artifact["evaluation-runtime"].commands = artifact["job"]
                  /\ c.policy.commands = artifact["job"]
            /\ Given("chain") =>
                  artifact["job-binding"].execution = artifact["execution-binding"]
            /\ started # NoArtifact => started = [prompt |-> c.launch, pack |-> c.pack]

-----------------------------------------------------------------------------
(* The inductive invariant behind ContractsBindTheRuns in ProvisionProofs: *)
(* what each step found written still agrees with what it writes.          *)

(* The steps from which on each artifact is there.                         *)
ContractWritten == {"publish", "prepared", "running"}
EvaluationWritten == {"contract"} \cup ContractWritten
ProvenanceWritten == {"inputs", "evaluation"} \cup EvaluationWritten
CompletionWritten == {"provenance"} \cup ProvenanceWritten
BaselineWritten == {"completion"} \cup CompletionWritten
LaunchPromptWritten == {"baseline"} \cup BaselineWritten
ExecutionBound == {"worker", "copy", "launch-prompt"} \cup LaunchPromptWritten
JobBound == {"execution"} \cup ExecutionBound
LaunchSteps == {"prompt", "job", "snapshot", "binding", "over"} \cup JobBound

LaunchShape ==
    /\ given \in Request /\ launchStep \in LaunchSteps
    /\ artifact = [f \in File |-> artifact[f]]
    /\ held = [prompt |-> held.prompt, job |-> held.job, tree |-> held.tree,
               policy |-> held.policy]

(* The job, its receipt and the execution it is bound to.                  *)
JobArtifacts ==
    LET receipt == artifact["job-binding"] IN
    /\ launchStep \in JobBound /\ Given("job") =>
          /\ receipt = [job |-> receipt.job, execution |-> receipt.execution]
          /\ receipt.job = held.job /\ artifact["job"] = held.job
    /\ launchStep \in ExecutionBound /\ Given("chain") =>
          receipt.execution = artifact["execution-binding"]

(* Prompt, baseline and completion.                                        *)
LaunchArtifacts ==
    /\ launchStep \in LaunchPromptWritten =>
          artifact["launch-prompt"].prompt = artifact["prompt"]
    /\ launchStep \in BaselineWritten => artifact["source-baseline"] = held.tree
    /\ launchStep \in CompletionWritten => artifact["completion"].base = held.tree

ProvenanceArtifact ==
    LET p == artifact["provenance"] IN
    launchStep \in ProvenanceWritten =>
        /\ p = [prompt |-> p.prompt, launch |-> p.launch, pack |-> p.pack,
                revision |-> p.revision, binding |-> p.binding, inputs |-> p.inputs,
                evaluation |-> p.evaluation]
        /\ p.prompt = artifact["prompt"] /\ p.launch = artifact["launch-prompt"]
        /\ p.revision = held.tree /\ p.binding = artifact["job-binding"]

EvaluationArtifact ==
    launchStep \in EvaluationWritten /\ Given("job") =>
        /\ artifact["evaluation-runtime"].binding = artifact["job-binding"]
        /\ artifact["evaluation-runtime"].commands = held.job
        /\ held.policy.commands = held.job

ContractArtifact ==
    LET c == artifact["contract"] IN
    /\ launchStep \in ContractWritten =>
          /\ c.prompt = artifact["prompt"] /\ c.launch = artifact["launch-prompt"]
          /\ c.baseline = artifact["source-baseline"] /\ c.revision = held.tree
          /\ c.policy = held.policy
          /\ ~Given("pack") => c.pack = NoArtifact
    /\ started # NoArtifact =>
          launchStep \in {"running"} /\ started = [prompt |-> c.launch, pack |-> c.pack]

LaunchInv ==
    /\ LaunchShape /\ JobArtifacts /\ LaunchArtifacts /\ ProvenanceArtifact
    /\ EvaluationArtifact /\ ContractArtifact
=============================================================================
