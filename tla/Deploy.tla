-------------------------------- MODULE Deploy --------------------------------
(***************************************************************************)
(* flyte.deploy (_deploy.py, app/_deploy.py): plan the deployment of the   *)
(* environments given and of those they depend on, then apply all plans    *)
(* at once: build the images (image_builder.py), bundle the code, register *)
(* every task and app.                                                     *)
(*                                                                         *)
(* The cached coroutines (alru_cache) are shared by all plans: a call      *)
(* joins the one that is running, a result is kept, an error is not.  What *)
(* an environment holds is one task, or an app.  A bundle is named by the  *)
(* app that includes it; Code is the one apply makes.                      *)
(***************************************************************************)
EXTENDS Naturals, Sequences, FiniteSets

CONSTANTS
  Env,        \* environments, the objects
  App,        \* those that are apps with files to include
  Image,
  Programs,   \* calls of deploy that are tried
  Code, Old,  \* the code bundle of this process, and of an earlier one
  MaxPlans,   \* arguments of a call
  MaxFaults   \* failed checks, builds, uploads and requests

Given   == "given"     \* an image that is a string, or set in the config
Unknown == "unknown"   \* the name of an image that the config does not have

ASSUME ConstantsAssumption ==
  /\ App \subseteq Env /\ Image \cap {Given, Unknown} = {} /\ Old \notin Env \cup {Code} /\ MaxFaults \in Nat /\ MaxPlans \in Nat
  /\ \A pr \in Programs : Len(pr.args) <= MaxPlans
  /\ Programs \subseteq
       [args    : Seq(Env),                \* the arguments of deploy
        deps    : [Env -> SUBSET Env],     \* depends_on
        name    : [Env -> STRING],
        image   : [Env -> Image \cup {Given, Unknown}],
        skip    : SUBSET Image,            \* images whose existence is not checked
        version : BOOLEAN,                 \* is a version given?
        copy    : BOOLEAN]                 \* is copy_style not "none"?

VARIABLES
  prog,        \* the program
  outcome,     \* of the call of deploy
  stage,       \* of each plan
  job,         \* the image of each environment of a plan
  engine,      \* the cached call of ImageBuildEngine.build for each image
  registry,    \* the images that exist
  builds, failures,  \* builds of each image, and those that failed
  assumed,     \* the images taken to exist: not checked, or no checker could tell
  bundle,      \* the cached call of build_code_bundle
  context,     \* code_bundle in the SerializationContext of each plan
  at, spec,    \* each environment of a plan: how far it is, its code bundle
  registered,  \* task and app identifiers on record, with their code bundle
  faults

imageVars  == <<job, engine, registry, builds, failures, assumed>>
deployVars == <<context, at, spec, registered>>
vars == <<prog, outcome, stage, imageVars, bundle, deployVars, faults>>

Plans == 1..Len(prog.args)

-----------------------------------------------------------------------------
(* The environments discovered from e (_recursive_discover): e, and those   *)
(* that a discovered one depends on.                                       *)
ClosedUnderDeps(S) == \A d \in S : prog.deps[d] \subseteq S
Discovered(e)      == {d \in Env : \A S \in SUBSET Env : e \in S /\ ClosedUnderDeps(S) => d \in S}

(* It never ends on a cycle, which is an error of the recursion, and two   *)
(* objects of one name are an error as well.                               *)
Cyclic(e) == \E d \in Discovered(e) : \E f \in prog.deps[d] : d \in Discovered(f)
Clash(e)  == \E d, f \in Discovered(e) : d # f /\ prog.name[d] = prog.name[f]

(* The names in the plans before the p-th.                                 *)
Visited(p) == {prog.name[e] : e \in UNION {Discovered(prog.args[q]) : q \in 1..(p - 1)}}

Planned(p) == Discovered(prog.args[p])

Init ==
  /\ prog \in Programs
  /\ outcome = "planning"
  /\ stage  = [p \in Plans |-> "none"]
  /\ job    = [p \in Plans |-> [e \in Env |-> "none"]]
  /\ engine = [i \in Image |-> "none"]
  /\ registry \in SUBSET Image
  /\ builds = [i \in Image |-> 0] /\ failures = [i \in Image |-> 0] /\ assumed = {}
  /\ bundle = "none"
  /\ context = [p \in Plans |-> Code]
  /\ at      = [p \in Plans |-> [e \in Env |-> "none"]]
  /\ spec    = [p \in Plans |-> [e \in Env |-> Code]]
  /\ registered \in {<<>>, [k \in (Env \ App) \X {0} |-> Old], [k \in App \X {0} |-> Old]}
  /\ faults = 0

Fault == faults < MaxFaults /\ faults' = faults + 1

plan_deploy ==
  /\ outcome = "planning"
  /\ IF \E p \in Plans : \/ prog.name[prog.args[p]] \in Visited(p)
                         \/ Cyclic(prog.args[p]) \/ Clash(prog.args[p])
     THEN outcome' = "raised" /\ UNCHANGED stage
     ELSE outcome' = "pending" /\ stage' = [p \in Plans |-> "images"]
  /\ UNCHANGED <<prog, imageVars, bundle, deployVars, faults>>

-----------------------------------------------------------------------------
(* _build_images: what is given is used, a name the config does not have   *)
(* is an error before anything is built, the rest is built at once.        *)
BuildImages(p) ==
  /\ stage[p] = "images"
  /\ IF \E e \in Planned(p) : prog.image[e] = Unknown
     THEN stage' = [stage EXCEPT ![p] = "failed"] /\ UNCHANGED job
     ELSE /\ stage' = [stage EXCEPT ![p] = "building"]
          /\ job' = [job EXCEPT ![p] = [e \in Env |->
                IF e \notin Planned(p) THEN "none"
                ELSE IF prog.image[e] = Given THEN "ready" ELSE "calling"]]
  /\ UNCHANGED <<prog, outcome, engine, registry, builds, failures, assumed, bundle, deployVars, faults>>

(* ImageBuildEngine.build is called: the first call starts it, one that    *)
(* comes while it runs joins, a later one has the result.                  *)
Restart(i) == FALSE
Joined(i)  == engine[i] # "none"

CallBuild(p, e) ==
  LET i == prog.image[e] IN
  /\ job[p][e] = "calling"
  /\ \/ ~Joined(i) /\ engine' = [engine EXCEPT ![i] = "checking"] /\ job' = [job EXCEPT ![p][e] = "waiting"]
     \/ Joined(i) /\ UNCHANGED engine
        /\ job' = [job EXCEPT ![p][e] = IF engine[i] = "built" THEN "ready" ELSE "waiting"]
  /\ UNCHANGED <<prog, outcome, stage, registry, builds, failures, assumed, bundle, deployVars, faults>>

Waiting(p, e, i) == job[p][e] = "waiting" /\ prog.image[e] = i
Serve(i, result) ==
  job' = [p \in Plans |-> [e \in Env |-> IF Waiting(p, e, i) THEN result ELSE job[p][e]]]

(* image_exists: an image tagged "latest", or without layers, and any that *)
(* the builder has no checkers for is taken to exist (skip).  Otherwise    *)
(* the first checker that answers decides, and if all fail the image is    *)
(* taken to exist.  A checker may miss an image that exists.               *)
Exists(i) ==
  /\ engine[i] = "checking"
  /\ \/ i \in prog.skip /\ assumed' = assumed \cup {i} /\ UNCHANGED faults
     \/ i \in registry \ prog.skip /\ UNCHANGED <<assumed, faults>>
     \/ i \notin prog.skip /\ assumed' = assumed \cup {i} /\ Fault
  /\ engine' = [engine EXCEPT ![i] = "built"] /\ Serve(i, "ready")
  /\ UNCHANGED <<prog, outcome, stage, registry, builds, failures, bundle, deployVars>>

Missing(i) ==
  /\ engine[i] = "checking" /\ i \notin prog.skip
  /\ engine' = [engine EXCEPT ![i] = "building"]
  /\ builds' = [builds EXCEPT ![i] = @ + 1]
  /\ UNCHANGED <<prog, outcome, stage, job, registry, failures, assumed, bundle, deployVars, faults>>

(* The image has no name, or the config names no builder there is.         *)
CheckRaises(i) ==
  /\ engine[i] = "checking" /\ Fault
  /\ engine' = [engine EXCEPT ![i] = "none"] /\ Serve(i, "failed")
  /\ UNCHANGED <<prog, outcome, stage, registry, builds, failures, assumed, bundle, deployVars>>

Built(i) ==
  /\ engine[i] = "building"
  /\ engine' = [engine EXCEPT ![i] = "built"] /\ Serve(i, "ready")
  /\ registry' = registry \cup {i}
  /\ UNCHANGED <<prog, outcome, stage, builds, failures, assumed, bundle, deployVars, faults>>

BuildFails(i) ==
  /\ engine[i] = "building" /\ Fault
  /\ engine' = [engine EXCEPT ![i] = "none"] /\ Serve(i, "failed")
  /\ failures' = [failures EXCEPT ![i] = @ + 1]
  /\ UNCHANGED <<prog, outcome, stage, registry, builds, assumed, bundle, deployVars>>

(* gather: all images, or the first error, which does not stop the others. *)
SomeReady(p) == \E e \in Planned(p) : job[p][e] = "ready"
AllReady(p)  == \A e \in Planned(p) : job[p][e] = "ready"
AllFailed(p) == \A e \in Planned(p) : job[p][e] = "failed"
AnyFailed(p) == \E e \in Planned(p) : job[p][e] = "failed"

ImagesDone(p) ==
  /\ stage[p] = "building"
  /\ \/ AllReady(p)
        /\ stage' = [stage EXCEPT ![p] = IF prog.copy \/ prog.version THEN "bundling" ELSE "failed"]
     \/ AnyFailed(p) /\ stage' = [stage EXCEPT ![p] = "failed"]
  /\ UNCHANGED <<prog, outcome, imageVars, bundle, deployVars, faults>>

(* build_code_bundle: list the files, upload the archive.                  *)
CallBundle(p) ==
  /\ stage[p] = "bundling"
  /\ \/ bundle = "built" /\ stage' = [stage EXCEPT ![p] = "deploying"] /\ UNCHANGED bundle
     \/ bundle # "built" /\ stage' = [stage EXCEPT ![p] = "uploading"] /\ bundle' = "uploading"
  /\ UNCHANGED <<prog, outcome, imageVars, deployVars, faults>>

Uploaded ==
  /\ bundle = "uploading"
  /\ \E ok \in BOOLEAN :
       /\ IF ok THEN UNCHANGED faults ELSE Fault
       /\ bundle' = IF ok THEN "built" ELSE "none"
       /\ stage' = [p \in Plans |-> IF stage[p] # "uploading" THEN stage[p]
                                    ELSE IF ok THEN "deploying" ELSE "failed"]
  /\ UNCHANGED <<prog, outcome, imageVars, deployVars>>

-----------------------------------------------------------------------------
(* _deploy_task converts the default inputs, which may suspend it, and     *)
(* then translates the task with the context of the plan.                  *)
Translate(p, e) ==
  /\ stage[p] \in {"deploying", "broken"}
  /\ e \in Planned(p) \ App /\ at[p][e] = "none"
  /\ spec' = [spec EXCEPT ![p][e] = context[p]]
  /\ at' = [at EXCEPT ![p][e] = "sending"]
  /\ UNCHANGED <<prog, outcome, stage, imageVars, bundle, context, registered, faults>>

(* _deploy_app bundles the files to include, and then puts that bundle     *)
(* into the context, which is the one of all environments of the plan.     *)
Include(p, e) ==
  /\ stage[p] \in {"deploying", "broken"}
  /\ e \in Planned(p) \cap App /\ at[p][e] = "none"
  /\ context' = [context EXCEPT ![p] = e]
  /\ spec' = [spec EXCEPT ![p][e] = e]
  /\ at' = [at EXCEPT ![p][e] = "sending"]
  /\ UNCHANGED <<prog, outcome, stage, imageVars, bundle, registered, faults>>

(* A task is known by its version, an app only by its name.                *)
Version(p) == IF prog.version THEN 0 ELSE p
Id(p, e)   == IF e \in App THEN <<e, 0>> ELSE <<e, Version(p)>>
Record(p, e) ==
  [k \in DOMAIN registered \cup {Id(p, e)} |-> IF k = Id(p, e) THEN spec[p][e] ELSE registered[k]]

(* DeployTask and Create: what exists already is good for a task, while an *)
(* app is read and updated.                                                *)
Register(p, e) ==
  /\ at[p][e] = "sending"
  /\ IF Id(p, e) \notin DOMAIN registered
     THEN registered' = Record(p, e) /\ at' = [at EXCEPT ![p][e] = "done"]
     ELSE UNCHANGED registered /\ at' = [at EXCEPT ![p][e] = IF e \in App THEN "updating" ELSE "done"]
  /\ UNCHANGED <<prog, outcome, stage, imageVars, bundle, context, spec, faults>>

Update(p, e) ==
  /\ at[p][e] = "updating"
  /\ registered' = Record(p, e) /\ at' = [at EXCEPT ![p][e] = "done"]
  /\ UNCHANGED <<prog, outcome, stage, imageVars, bundle, context, spec, faults>>

(* A request fails, or an upload that comes before it: of default inputs,  *)
(* or of the files to include.                                             *)
RequestFails(p, e) ==
  /\ \/ at[p][e] \in {"sending", "updating"}
     \/ e \in Planned(p) /\ at[p][e] = "none" /\ stage[p] \in {"deploying", "broken"}
  /\ Fault
  /\ at' = [at EXCEPT ![p][e] = "failed"]
  /\ UNCHANGED <<prog, outcome, stage, imageVars, bundle, context, spec, registered>>

(* gather again, of the environments of a plan and of the plans: the first *)
(* error is raised, and the other calls go on.                             *)
SomeDone(p) == \E e \in Planned(p) : at[p][e] = "done"
AllDone(p)  == \A e \in Planned(p) : at[p][e] = "done"

Applied(p) ==
  /\ stage[p] = "deploying"
  /\ \/ AllDone(p) /\ stage' = [stage EXCEPT ![p] = "returned"]
     \/ (\E e \in Env : at[p][e] = "failed") /\ stage' = [stage EXCEPT ![p] = "broken"]
  /\ UNCHANGED <<prog, outcome, imageVars, bundle, deployVars, faults>>

Return ==
  /\ outcome = "pending"
  /\ \/ (\A p \in Plans : stage[p] = "returned") /\ outcome' = "returned"
     \/ (\E p \in Plans : stage[p] \in {"failed", "broken"}) /\ outcome' = "raised"
  /\ UNCHANGED <<prog, stage, imageVars, bundle, deployVars, faults>>

EngineStep(i)   == Exists(i) \/ Missing(i) \/ CheckRaises(i) \/ Built(i) \/ BuildFails(i)
PlanStep(p)     == BuildImages(p) \/ ImagesDone(p) \/ CallBundle(p) \/ Applied(p)
EntityStep(p, e) ==
  Translate(p, e) \/ Include(p, e) \/ Register(p, e) \/ Update(p, e) \/ RequestFails(p, e)

Next ==
  \/ plan_deploy \/ Uploaded \/ Return
  \/ \E i \in Image : EngineStep(i)
  \/ \E p \in Plans : PlanStep(p) \/ \E e \in Planned(p) : CallBuild(p, e) \/ EntityStep(p, e)

Spec == Init /\ [][Next]_vars

(* The loop runs what is ready; the builders and the services answer.      *)
Fairness ==
  /\ WF_vars(plan_deploy) /\ WF_vars(Uploaded) /\ WF_vars(Return)
  /\ \A i \in Image : WF_vars(EngineStep(i))
  /\ \A p \in 1..MaxPlans : WF_vars(p \in Plans /\ PlanStep(p))
  /\ \A p \in 1..MaxPlans, e \in Env : WF_vars(p \in Plans /\ e \in Planned(p) /\ (CallBuild(p, e) \/ EntityStep(p, e)))
FairSpec == Spec /\ Fairness

-----------------------------------------------------------------------------
(* In one process an image is built once however many environments and     *)
(* plans need it, and once more for every build of it that failed.         *)
BuiltOnce == \A i \in Image : builds[i] <= 1 + failures[i]

(* What is registered has an image: no task or app of a plan is sent while *)
(* an image of the plan is missing, unless it was taken to exist: its      *)
(* existence is not checked, or no checker could tell.                     *)
ImagesFirst ==
  \A p \in Plans, e \in Env :
    at[p][e] # "none" =>
      \A d \in Planned(p) : prog.image[d] \in registry \cup assumed \cup {Given}

(* A deploy that returns has registered every environment that the given   *)
(* ones depend on, with what this process deploys, unless the version was  *)
(* given and is taken.                                                     *)
ReturnsDeployed ==
  outcome = "returned" =>
    \A p \in Plans : \A e \in Discovered(prog.args[p]) :
      /\ Id(p, e) \in DOMAIN registered
      /\ registered[Id(p, e)] = Old => prog.version /\ e \notin App

(* deploy returns or raises.                                               *)
DeployEnds == <>(outcome \in {"returned", "raised"})

(* "if this is an AppEnvironment.include, skip code bundling here and build *)
(* a code bundle at the app._deploy._deploy_app function" (apply): the     *)
(* bundle of an app is the app's, and that of apply everybody else's.      *)
OwnBundle ==
  \A p \in Plans, e \in Env :
    at[p][e] \in {"sending", "updating", "done"} => spec[p][e] = IF e \in App THEN e ELSE Code
=============================================================================
