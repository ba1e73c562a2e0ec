----------------------------- MODULE DeployProofs -----------------------------
(***************************************************************************)
(* Proofs about Deploy, for any environments, programs, images and faults, *)
(* and about AsyncLRUCache, where its bundles are kept, for any            *)
(* coroutines, loops, keys and sizes.                                      *)
(***************************************************************************)
EXTENDS Deploy, AsyncLRUCache, SequenceTheorems, FiniteSetTheorems, TLAPS

JobState    == {"none", "calling", "waiting", "ready", "failed"}
EngineState == {"none", "checking", "building", "built"}
AtState     == {"none", "sending", "updating", "done", "failed"}
StageState  == {"none", "images", "building", "bundling", "uploading", "deploying",
                "broken", "returned", "failed"}

Shape ==
  /\ prog \in Programs
  /\ stage \in [Plans -> StageState]
  /\ job \in [Plans -> [Env -> JobState]]
  /\ engine \in [Image -> EngineState]
  /\ registry \subseteq Image /\ assumed \subseteq Image
  /\ builds \in [Image -> Nat] /\ failures \in [Image -> Nat]
  /\ context \in [Plans -> Env \cup {Code}]
  /\ at \in [Plans -> [Env -> AtState]]
  /\ spec \in [Plans -> [Env -> Env \cup {Code}]]

(* A build that has not failed leads to an image that is kept.             *)
Counted ==
  \A i \in Image :
    /\ engine[i] \in {"none", "checking"} => builds[i] = failures[i]
    /\ engine[i] = "building" => builds[i] = 1 + failures[i]
    /\ builds[i] <= 1 + failures[i]

-----------------------------------------------------------------------------
LEMMA PlannedEnv == \A p : Planned(p) \subseteq Env
BY DEF Planned, Discovered

(* An entry of a table of tables is replaced.                              *)
Put(g, f, a, b, v) == g = [f EXCEPT ![a][b] = v]

LEMMA PutTyped ==
  ASSUME NEW A, NEW B, NEW S, NEW f \in [A -> [B -> S]], NEW a \in A, NEW b \in B, NEW v \in S,
         NEW g, Put(g, f, a, b, v)
  PROVE  g \in [A -> [B -> S]]
<1>1. [f[a] EXCEPT ![b] = v] \in [B -> S]
  OBVIOUS
<1> QED  BY <1>1 DEF Put

LEMMA InitShape == Init => Shape
<1> SUFFICES ASSUME Init PROVE Shape
  OBVIOUS
<1>1. registry \subseteq Image /\ assumed \subseteq Image /\ prog \in Programs
  BY DEF Init
<1>2. stage \in [Plans -> StageState] /\ job \in [Plans -> [Env -> JobState]]
  BY DEF Init, StageState, JobState
<1>3. engine \in [Image -> EngineState] /\ builds \in [Image -> Nat] /\ failures \in [Image -> Nat]
  BY DEF Init, EngineState
<1>4. /\ context \in [Plans -> Env \cup {Code}] /\ at \in [Plans -> [Env -> AtState]]
      /\ spec \in [Plans -> [Env -> Env \cup {Code}]]
  BY DEF Init, AtState
<1> QED  BY <1>1, <1>2, <1>3, <1>4 DEF Shape

(* What an engine does with those that wait for it.                        *)
LEMMA ServeTyped ==
  ASSUME Shape, NEW i, NEW result \in JobState, Serve(i, result)
  PROVE  /\ job' \in [Plans -> [Env -> JobState]]
         /\ \A p \in Plans, e \in Env :
              job'[p][e] = IF job[p][e] = "waiting" /\ prog.image[e] = i THEN result ELSE job[p][e]
BY DEF Shape, Serve, Waiting

PlanVars == <<context, at, spec, registered, outcome>>

LEMMA EngineShape ==
  ASSUME Shape, NEW i \in Image, EngineStep(i)
  PROVE  /\ Shape'
         /\ UNCHANGED <<prog, stage, bundle, PlanVars>>
         /\ registry \subseteq registry' /\ assumed \subseteq assumed'
<1>1. UNCHANGED <<prog, stage, bundle, PlanVars>>
  BY DEF EngineStep, Exists, Missing, CheckRaises, Built, BuildFails, deployVars, PlanVars
<1>2. registry' \subseteq Image /\ assumed' \subseteq Image /\ registry \subseteq registry' /\ assumed \subseteq assumed'
  BY DEF Shape, EngineStep, Exists, Missing, CheckRaises, Built, BuildFails
<1>3. job' \in [Plans -> [Env -> JobState]]
  <2>1. job' = job \/ Serve(i, "ready") \/ Serve(i, "failed")
    BY DEF EngineStep, Exists, Missing, CheckRaises, Built, BuildFails
  <2> QED  BY <2>1, ServeTyped DEF JobState, Shape
<1>4. engine' \in [Image -> EngineState]
  BY DEF Shape, EngineStep, Exists, Missing, CheckRaises, Built, BuildFails, EngineState
<1>5. builds' \in [Image -> Nat] /\ failures' \in [Image -> Nat]
  <2>1. /\ builds' = builds \/ builds' = [builds EXCEPT ![i] = @ + 1]
        /\ failures' = failures \/ failures' = [failures EXCEPT ![i] = @ + 1]
    BY DEF EngineStep, Exists, Missing, CheckRaises, Built, BuildFails
  <2>2. builds \in [Image -> Nat] /\ failures \in [Image -> Nat]
    BY DEF Shape
  <2>3. builds' \in [Image -> Nat]
    BY <2>1, <2>2
  <2>4. failures' \in [Image -> Nat]
    BY <2>1, <2>2
  <2> QED  BY <2>3, <2>4
<1>6. Plans' = Plans
  BY <1>1 DEF Plans
<1> QED  BY <1>1, <1>2, <1>3, <1>4, <1>5, <1>6 DEF Shape, PlanVars

LEMMA EngineCounted ==
  ASSUME Shape, Counted, NEW i \in Image, EngineStep(i)
  PROVE  Counted'
<1> USE DEF Shape, Counted
<1>1. CASE Exists(i)
  BY <1>1 DEF Exists
<1>2. CASE Missing(i)
  BY <1>2 DEF Missing
<1>3. CASE Built(i)
  BY <1>3 DEF Built
<1>4. CASE BuildFails(i)
  BY <1>4 DEF BuildFails
<1>5. CASE CheckRaises(i)
  BY <1>5 DEF CheckRaises
<1> QED  BY <1>1, <1>2, <1>3, <1>4, <1>5 DEF EngineStep

LEMMA CallBuildShape ==
  ASSUME Shape, NEW p \in Plans, NEW e \in Planned(p), CallBuild(p, e)
  PROVE  /\ Shape'
         /\ UNCHANGED <<prog, stage, bundle, registry, assumed, builds, failures, PlanVars>>
         /\ \A q \in Plans, d \in Env :
              \/ job'[q][d] = job[q][d]
              \/ q = p /\ d = e /\ job[p][e] = "calling" /\ job'[p][e] = "waiting"
              \/ /\ q = p /\ d = e /\ job[p][e] = "calling"
                 /\ engine[prog.image[e]] = "built" /\ job'[p][e] = "ready"
         /\ \A k \in Image : engine'[k] = engine[k] \/ (engine[k] = "none" /\ engine'[k] = "checking")
<1>0. e \in Env
  BY PlannedEnv
<1>1. UNCHANGED <<prog, stage, bundle, registry, assumed, builds, failures, PlanVars>>
  BY DEF CallBuild, deployVars, PlanVars
<1>2. engine' \in [Image -> EngineState]
      /\ \A k \in Image : engine'[k] = engine[k] \/ (engine[k] = "none" /\ engine'[k] = "checking")
  <2> DEFINE i == prog.image[e]
  <2>1. engine' = engine \/ (engine[i] = "none" /\ engine' = [engine EXCEPT ![i] = "checking"])
    BY DEF CallBuild, Joined
  <2>2. engine \in [Image -> EngineState]
    BY DEF Shape
  <2>3. "checking" \in EngineState
    BY DEF EngineState
  <2> HIDE DEF i
  <2>4. CASE engine' = engine
    BY <2>2, <2>4
  <2>5. CASE engine[i] = "none" /\ engine' = [engine EXCEPT ![i] = "checking"]
    <3>1. \A k \in Image : engine'[k] = IF k = i THEN "checking" ELSE engine[k]
      BY <2>2, <2>5
    <3> QED  BY <3>1, <2>2, <2>3, <2>5
  <2> QED  BY <2>1, <2>4, <2>5
<1>3. job[p][e] = "calling"
      /\ \/ Put(job', job, p, e, "waiting")
         \/ (Put(job', job, p, e, "ready") /\ engine[prog.image[e]] = "built")
  BY DEF CallBuild, Joined, Put
<1>4. job \in [Plans -> [Env -> JobState]] /\ "waiting" \in JobState /\ "ready" \in JobState
  <2>1. "waiting" \in JobState /\ "ready" \in JobState
    BY DEF JobState
  <2> QED  BY <2>1 DEF Shape
<1>5. job' \in [Plans -> [Env -> JobState]]
  BY <1>0, <1>3, <1>4, PutTyped
<1>6. \A q \in Plans, d \in Env :
        \/ job'[q][d] = job[q][d]
        \/ q = p /\ d = e /\ job[p][e] = "calling" /\ job'[p][e] = "waiting"
        \/ /\ q = p /\ d = e /\ job[p][e] = "calling"
           /\ engine[prog.image[e]] = "built" /\ job'[p][e] = "ready"
  <2>1. CASE Put(job', job, p, e, "waiting")
    <3>1. \A q \in Plans, d \in Env : job'[q][d] = IF q = p /\ d = e THEN "waiting" ELSE job[q][d]
      BY <1>0, <1>4, <2>1 DEF Put
    <3> QED  BY <1>0, <1>3, <3>1
  <2>2. CASE Put(job', job, p, e, "ready") /\ engine[prog.image[e]] = "built"
    <3>1. \A q \in Plans, d \in Env : job'[q][d] = IF q = p /\ d = e THEN "ready" ELSE job[q][d]
      BY <1>0, <1>4, <2>2 DEF Put
    <3> QED  BY <1>0, <1>3, <2>2, <3>1
  <2> QED  BY <1>3, <2>1, <2>2
<1>7. Plans' = Plans
  BY <1>1 DEF Plans
<1>8. Shape'
  BY <1>1, <1>2, <1>5, <1>7 DEF Shape, PlanVars
<1> QED  BY <1>1, <1>2, <1>6, <1>8

(* The steps of a plan as a whole, and of all that wait for the bundle.    *)
LEMMA PlanShape ==
  ASSUME Shape, plan_deploy \/ Uploaded \/ Return \/ (\E p \in Plans : PlanStep(p))
  PROVE  /\ Shape'
         /\ UNCHANGED <<prog, engine, registry, assumed, builds, failures, context, at, spec, registered>>
<1>1. UNCHANGED <<prog, engine, registry, assumed, builds, failures, context, at, spec, registered>>
  BY DEF plan_deploy, Uploaded, Return, PlanStep, BuildImages, ImagesDone, CallBundle, Applied,
         imageVars, deployVars
<1>2. Plans' = Plans
  BY <1>1 DEF Plans
<1>3. stage' \in [Plans -> StageState]
  <2>1. CASE plan_deploy \/ Uploaded \/ Return
    BY <2>1 DEF Shape, plan_deploy, Uploaded, Return, StageState
  <2>2. ASSUME NEW p \in Plans, PlanStep(p) PROVE stage' \in [Plans -> StageState]
    <3>1. \/ stage' = [stage EXCEPT ![p] = "failed"] \/ stage' = [stage EXCEPT ![p] = "building"]
          \/ stage' = [stage EXCEPT ![p] = "bundling"] \/ stage' = [stage EXCEPT ![p] = "uploading"]
          \/ stage' = [stage EXCEPT ![p] = "deploying"] \/ stage' = [stage EXCEPT ![p] = "broken"]
          \/ stage' = [stage EXCEPT ![p] = "returned"]
      BY <2>2 DEF PlanStep, BuildImages, ImagesDone, CallBundle, Applied
    <3> QED  BY <3>1 DEF Shape, StageState
  <2> QED  BY <2>1, <2>2
<1>4. job' \in [Plans -> [Env -> JobState]]
  <2>1. CASE job' = job
    BY <2>1 DEF Shape
  <2>2. ASSUME NEW p \in Plans, BuildImages(p) PROVE job' \in [Plans -> [Env -> JobState]]
    <3> DEFINE calls == [e \in Env |->
              IF e \notin Planned(p) THEN "none" ELSE IF prog.image[e] = Given THEN "ready" ELSE "calling"]
    <3>1. calls \in [Env -> JobState]
      BY DEF JobState
    <3>2. job' = job \/ job' = [job EXCEPT ![p] = calls]
      BY <2>2 DEF BuildImages
    <3>3. job \in [Plans -> [Env -> JobState]]
      BY DEF Shape
    <3> HIDE DEF calls
    <3> QED  BY <3>1, <3>2, <3>3
  <2>3. job' = job \/ \E p \in Plans : BuildImages(p)
    BY DEF plan_deploy, Uploaded, Return, PlanStep, ImagesDone, CallBundle, Applied, imageVars
  <2> QED  BY <2>1, <2>2, <2>3
<1> QED  BY <1>1, <1>2, <1>3, <1>4 DEF Shape

LEMMA EntityShape ==
  ASSUME Shape, NEW p \in Plans, NEW e \in Planned(p), EntityStep(p, e)
  PROVE  /\ Shape'
         /\ UNCHANGED <<prog, outcome, stage, imageVars, bundle>>
         /\ \A q \in Plans, d \in Env : (q = p /\ d = e) \/ (at'[q][d] = at[q][d] /\ spec'[q][d] = spec[q][d])
<1>0. e \in Env
  BY PlannedEnv
<1>1. UNCHANGED <<prog, outcome, stage, imageVars, bundle>>
  BY DEF EntityStep, Translate, Include, Register, Update, RequestFails
<1>2. Plans' = Plans
  BY <1>1 DEF Plans
<1>3. at \in [Plans -> [Env -> AtState]] /\ spec \in [Plans -> [Env -> Env \cup {Code}]]
      /\ context \in [Plans -> Env \cup {Code}]
  BY DEF Shape
<1>4. \E s \in AtState : Put(at', at, p, e, s)
  BY DEF EntityStep, Translate, Include, Register, Update, RequestFails, AtState, Put
<1>5. spec' = spec \/ \E s \in Env \cup {Code} : Put(spec', spec, p, e, s)
  BY <1>0, <1>3 DEF EntityStep, Translate, Include, Register, Update, RequestFails, Put
<1>6. context' \in [Plans -> Env \cup {Code}]
  BY <1>0, <1>3 DEF EntityStep, Translate, Include, Register, Update, RequestFails
<1>7. /\ at' \in [Plans -> [Env -> AtState]]
      /\ \A q \in Plans, d \in Env : (q = p /\ d = e) \/ at'[q][d] = at[q][d]
  <2>1. PICK s \in AtState : Put(at', at, p, e, s)
    BY <1>4
  <2>2. \A q \in Plans, d \in Env : at'[q][d] = IF q = p /\ d = e THEN s ELSE at[q][d]
    BY <1>0, <1>3, <2>1 DEF Put
  <2>3. at' \in [Plans -> [Env -> AtState]]
    BY <1>0, <1>3, <2>1, PutTyped
  <2> QED  BY <2>2, <2>3
<1>8. /\ spec' \in [Plans -> [Env -> Env \cup {Code}]]
      /\ \A q \in Plans, d \in Env : (q = p /\ d = e) \/ spec'[q][d] = spec[q][d]
  <2>1. CASE spec' = spec
    BY <1>3, <2>1
  <2>2. CASE \E s \in Env \cup {Code} : Put(spec', spec, p, e, s)
    <3>1. PICK s \in Env \cup {Code} : Put(spec', spec, p, e, s)
      BY <2>2
    <3>2. \A q \in Plans, d \in Env : spec'[q][d] = IF q = p /\ d = e THEN s ELSE spec[q][d]
      BY <1>0, <1>3, <3>1 DEF Put
    <3>3. spec' \in [Plans -> [Env -> Env \cup {Code}]]
      BY <1>0, <1>3, <3>1, PutTyped
    <3> QED  BY <3>2, <3>3
  <2> QED  BY <1>5, <2>1, <2>2
<1>9. Shape'
  BY <1>1, <1>2, <1>6, <1>7, <1>8 DEF Shape, imageVars
<1> QED  BY <1>1, <1>7, <1>8, <1>9

LEMMA StutterShape ==
  ASSUME Shape, UNCHANGED vars
  PROVE  Shape' /\ UNCHANGED <<prog, outcome, stage, job, engine, registry, builds, failures, assumed,
                               bundle, context, at, spec, registered>>
<1>1. UNCHANGED <<prog, outcome, stage, job, engine, registry, builds, failures, assumed,
                  bundle, context, at, spec, registered>>
  BY DEF vars, imageVars, deployVars
<1>2. Plans' = Plans
  BY <1>1 DEF Plans
<1> QED  BY <1>1, <1>2 DEF Shape

LEMMA NextShape ==
  ASSUME Shape, [Next]_vars
  PROVE  Shape' /\ prog' = prog
<1>1. CASE plan_deploy \/ Uploaded \/ Return \/ (\E p \in Plans : PlanStep(p))
  BY <1>1, PlanShape
<1>2. CASE \E i \in Image : EngineStep(i)
  BY <1>2, EngineShape
<1>3. CASE \E p \in Plans : \E e \in Planned(p) : CallBuild(p, e)
  BY <1>3, CallBuildShape
<1>4. CASE \E p \in Plans : \E e \in Planned(p) : EntityStep(p, e)
  BY <1>4, EntityShape
<1>5. CASE UNCHANGED vars
  BY <1>5, StutterShape
<1> QED  BY <1>1, <1>2, <1>3, <1>4, <1>5 DEF Next

-----------------------------------------------------------------------------
LEMMA NextCounted ==
  ASSUME Shape, Counted, [Next]_vars
  PROVE  Counted'
<1>1. CASE plan_deploy \/ Uploaded \/ Return \/ (\E p \in Plans : PlanStep(p))
  BY <1>1, PlanShape DEF Counted
<1>2. CASE \E i \in Image : EngineStep(i)
  BY <1>2, EngineCounted
<1>3. CASE \E p \in Plans : \E e \in Planned(p) : CallBuild(p, e)
  <2>1. UNCHANGED <<builds, failures>>
        /\ \A k \in Image : engine'[k] = engine[k] \/ (engine[k] = "none" /\ engine'[k] = "checking")
    BY <1>3, CallBuildShape
  <2> QED  BY <2>1 DEF Counted
<1>4. CASE \E p \in Plans : \E e \in Planned(p) : EntityStep(p, e)
  <2>1. UNCHANGED <<engine, builds, failures>>
    BY <1>4, EntityShape DEF imageVars
  <2> QED  BY <2>1 DEF Counted
<1>5. CASE UNCHANGED vars
  BY <1>5, StutterShape DEF Counted
<1> QED  BY <1>1, <1>2, <1>3, <1>4, <1>5 DEF Next

(* However many plans and environments ask the cached ImageBuildEngine.build *)
(* for an image, it is built once, and again only after a build that failed. *)
THEOREM BuiltOnceAlways == Spec => []BuiltOnce
<1>1. Init => Shape /\ Counted
  BY InitShape DEF Init, Counted
<1>2. Shape /\ Counted /\ [Next]_vars => (Shape /\ Counted)'
  BY NextShape, NextCounted
<1>3. Counted => BuiltOnce
  BY DEF Counted, BuiltOnce
<1> QED  BY <1>1, <1>2, <1>3, PTL DEF Spec

-----------------------------------------------------------------------------
(* Images before entities.                                                 *)
Known == registry \cup assumed \cup {Given}

ReadyKnown  == \A p \in Plans, e \in Env : job[p][e] = "ready" => prog.image[e] \in Known
BuiltKnown  == \A i \in Image : engine[i] = "built" => i \in Known
CallsImages == \A p \in Plans, e \in Env : job[p][e] \in {"calling", "waiting"} => prog.image[e] \in Image
PastImages  ==
  \A p \in Plans : stage[p] \in {"bundling", "uploading", "deploying", "broken", "returned"} =>
    \A d \in Planned(p) : prog.image[d] \in Known
SentLast ==
  \A p \in Plans, e \in Env : at[p][e] # "none" => stage[p] \in {"deploying", "broken", "returned"}

PlansLater == outcome = "planning" => \A p \in Plans : stage[p] = "none"

ImageInv == ReadyKnown /\ BuiltKnown /\ CallsImages /\ PastImages /\ SentLast /\ PlansLater

LEMMA InitImages == Init => ImageInv
BY DEF Init, ImageInv, ReadyKnown, BuiltKnown, CallsImages, PastImages, SentLast, PlansLater

LEMMA ImagesFirstFollows == ImageInv => ImagesFirst
BY DEF ImageInv, PastImages, SentLast, ImagesFirst, Known

LEMMA EngineImages ==
  ASSUME Shape, ImageInv, NEW i \in Image, EngineStep(i)
  PROVE  ImageInv'
<1> USE DEF ImageInv
<1>1. /\ Shape' /\ UNCHANGED <<prog, stage, at, outcome>> /\ Known \subseteq Known'
      /\ Plans' = Plans /\ \A p \in Plans : Planned(p)' = Planned(p)
  BY EngineShape DEF PlanVars, Known, Plans, Planned, Discovered, ClosedUnderDeps
<1>2. \A k \in Image : engine'[k] = "built" => k \in Known'
  <2>1. CASE Exists(i)
    BY <2>1, <1>1 DEF Exists, Shape, BuiltKnown, Known
  <2>2. CASE Missing(i)
    BY <2>2, <1>1 DEF Missing, Shape, BuiltKnown
  <2>3. CASE Built(i)
    BY <2>3, <1>1 DEF Built, Shape, BuiltKnown, Known
  <2>4. CASE BuildFails(i)
    BY <2>4, <1>1 DEF BuildFails, Shape, BuiltKnown
  <2>5. CASE CheckRaises(i)
    BY <2>5, <1>1 DEF CheckRaises, Shape, BuiltKnown
  <2> QED  BY <2>1, <2>2, <2>3, <2>4, <2>5 DEF EngineStep
<1>3. \A p \in Plans, e \in Env :
        \/ job'[p][e] = job[p][e]
        \/ job'[p][e] = "failed"
        \/ prog.image[e] = i /\ job'[p][e] = "ready" /\ engine'[i] = "built"
  <2>1. CASE Exists(i) \/ Built(i)
    <3>1. engine'[i] = "built" /\ Serve(i, "ready")
      BY <2>1 DEF Exists, Built, Shape
    <3> QED  BY <3>1, ServeTyped DEF JobState
  <2>2. CASE Missing(i)
    BY <2>2 DEF Missing
  <2>3. CASE BuildFails(i) \/ CheckRaises(i)
    <3>1. Serve(i, "failed")
      BY <2>3 DEF BuildFails, CheckRaises
    <3> QED  BY <3>1, ServeTyped DEF JobState
  <2> QED  BY <2>1, <2>2, <2>3 DEF EngineStep
<1>4. ReadyKnown'
  BY <1>1, <1>2, <1>3 DEF ReadyKnown
<1>5. CallsImages'
  BY <1>1, <1>3 DEF CallsImages
<1>6. PastImages'
  BY <1>1 DEF PastImages
<1>7. BuiltKnown' /\ SentLast' /\ PlansLater'
  BY <1>1, <1>2 DEF BuiltKnown, SentLast, PlansLater
<1> QED  BY <1>4, <1>5, <1>6, <1>7

LEMMA CallImages ==
  ASSUME Shape, ImageInv, NEW p \in Plans, NEW e \in Planned(p), CallBuild(p, e)
  PROVE  ImageInv'
<1> USE DEF ImageInv
<1>1. /\ UNCHANGED <<prog, stage, registry, assumed, at, outcome>>
      /\ Plans' = Plans /\ Known' = Known /\ \A q \in Plans : Planned(q)' = Planned(q)
  BY CallBuildShape DEF PlanVars, Known, Plans, Planned, Discovered, ClosedUnderDeps
<1>2. e \in Env
  BY PlannedEnv
<1>3. \A q \in Plans, d \in Env :
        \/ job'[q][d] = job[q][d]
        \/ q = p /\ d = e /\ job[p][e] = "calling" /\ job'[p][e] = "waiting"
        \/ /\ q = p /\ d = e /\ job[p][e] = "calling"
           /\ engine[prog.image[e]] = "built" /\ job'[p][e] = "ready"
  BY CallBuildShape
<1>4. ReadyKnown'
  BY <1>1, <1>3 DEF ReadyKnown, CallsImages, BuiltKnown
<1>5. CallsImages'
  BY <1>1, <1>3 DEF CallsImages
<1>6. BuiltKnown'
  <2>1. \A k \in Image : engine'[k] = engine[k] \/ (engine[k] = "none" /\ engine'[k] = "checking")
    BY CallBuildShape
  <2> QED  BY <2>1, <1>1 DEF BuiltKnown
<1>7. PastImages' /\ SentLast' /\ PlansLater'
  BY <1>1 DEF PastImages, SentLast, PlansLater
<1> QED  BY <1>4, <1>5, <1>6, <1>7

LEMMA ImageOf == Shape => \A e \in Env : prog.image[e] \in Image \cup {Given, Unknown}
BY ConstantsAssumption DEF Shape

LEMMA BuildImagesJobs ==
  ASSUME Shape, NEW p \in Plans, BuildImages(p)
  PROVE  \A q \in Plans, d \in Env :
           \/ job'[q][d] = job[q][d]
           \/ job'[q][d] = "none"
           \/ job'[q][d] = "ready" /\ prog.image[d] = Given
           \/ job'[q][d] = "calling" /\ prog.image[d] \in Image
<1> DEFINE calls == [e \in Env |->
              IF e \notin Planned(p) THEN "none" ELSE IF prog.image[e] = Given THEN "ready" ELSE "calling"]
<1>1. \/ job' = job
      \/ job' = [job EXCEPT ![p] = calls] /\ \A e \in Planned(p) : prog.image[e] # Unknown
  BY DEF BuildImages
<1>2. job \in [Plans -> [Env -> JobState]]
  BY DEF Shape
<1>3. CASE job' = job
  BY <1>3
<1>4. CASE job' = [job EXCEPT ![p] = calls] /\ \A e \in Planned(p) : prog.image[e] # Unknown
  <2> SUFFICES ASSUME NEW q \in Plans, NEW d \in Env
               PROVE  \/ job'[q][d] = job[q][d]
                      \/ job'[q][d] = "none"
                      \/ job'[q][d] = "ready" /\ prog.image[d] = Given
                      \/ job'[q][d] = "calling" /\ prog.image[d] \in Image
    OBVIOUS
  <2>1. CASE q # p
    BY <1>2, <1>4, <2>1
  <2>2. CASE q = p
    <3>1. job'[q][d] = calls[d]
      BY <1>2, <1>4, <2>2
    <3> QED  BY <3>1, <1>4, ImageOf
  <2> QED  BY <2>1, <2>2
<1> QED  BY <1>1, <1>3, <1>4

LEMMA PlanImages ==
  ASSUME Shape, ImageInv, plan_deploy \/ Uploaded \/ Return \/ (\E p \in Plans : PlanStep(p))
  PROVE  ImageInv'
<1> USE DEF ImageInv
<1>1. /\ UNCHANGED <<prog, engine, registry, assumed, at>>
      /\ Plans' = Plans /\ Known' = Known /\ \A q \in Plans : Planned(q)' = Planned(q)
  BY PlanShape DEF Known, Plans, Planned, Discovered, ClosedUnderDeps
<1>2. \A q \in Plans, d \in Env :
        \/ job'[q][d] = job[q][d]
        \/ job'[q][d] = "none"
        \/ job'[q][d] = "ready" /\ prog.image[d] = Given
        \/ job'[q][d] = "calling" /\ prog.image[d] \in Image
  <2>1. job' = job \/ \E p \in Plans : BuildImages(p)
    BY DEF plan_deploy, Uploaded, Return, PlanStep, ImagesDone, CallBundle, Applied, imageVars
  <2> QED  BY <2>1, BuildImagesJobs
<1>3. ReadyKnown' /\ CallsImages' /\ BuiltKnown'
  <2>1. ReadyKnown'
    BY <1>1, <1>2 DEF ReadyKnown, Known
  <2>2. CallsImages'
    BY <1>1, <1>2 DEF CallsImages
  <2>3. BuiltKnown'
    BY <1>1 DEF BuiltKnown
  <2> QED  BY <2>1, <2>2, <2>3
<1>4. \A q \in Plans :
        \/ stage'[q] = stage[q]
        \/ stage'[q] \in {"images", "building", "failed"} /\ stage[q] \notin {"deploying", "broken", "returned"}
        \/ stage'[q] = "bundling" /\ stage[q] = "building" /\ AllReady(q)
        \/ stage'[q] \in {"uploading", "deploying"} /\ stage[q] \in {"bundling", "uploading"}
        \/ stage'[q] \in {"broken", "returned"} /\ stage[q] = "deploying"
  <2>0. stage \in [Plans -> StageState]
    BY DEF Shape
  <2>1. CASE plan_deploy
    BY <2>0, <2>1 DEF plan_deploy, PlansLater
  <2>2. CASE Uploaded \/ Return
    BY <2>0, <2>2 DEF Uploaded, Return
  <2>3. ASSUME NEW p \in Plans, PlanStep(p), NEW q \in Plans, q # p
        PROVE  stage'[q] = stage[q]
    BY <2>0, <2>3 DEF PlanStep, BuildImages, ImagesDone, CallBundle, Applied
  <2>4. ASSUME NEW p \in Plans, PlanStep(p)
        PROVE  \/ stage'[p] \in {"building", "failed"} /\ stage[p] \in {"images", "building"}
               \/ stage'[p] = "bundling" /\ stage[p] = "building" /\ AllReady(p)
               \/ stage'[p] \in {"uploading", "deploying"} /\ stage[p] = "bundling"
               \/ stage'[p] \in {"broken", "returned"} /\ stage[p] = "deploying"
    <3>1. CASE BuildImages(p)
      BY <2>0, <3>1 DEF BuildImages
    <3>2. CASE ImagesDone(p)
      BY <2>0, <3>2 DEF ImagesDone
    <3>3. CASE CallBundle(p)
      BY <2>0, <3>3 DEF CallBundle
    <3>4. CASE Applied(p)
      BY <2>0, <3>4 DEF Applied
    <3> QED  BY <2>4, <3>1, <3>2, <3>3, <3>4 DEF PlanStep
  <2>5. CASE \E p \in Plans : PlanStep(p)
    <3>1. PICK p \in Plans : PlanStep(p)
      BY <2>5
    <3> SUFFICES ASSUME NEW q \in Plans
                 PROVE  \/ stage'[q] = stage[q]
                        \/ /\ stage'[q] \in {"images", "building", "failed"}
                           /\ stage[q] \notin {"deploying", "broken", "returned"}
                        \/ stage'[q] = "bundling" /\ stage[q] = "building" /\ AllReady(q)
                        \/ stage'[q] \in {"uploading", "deploying"} /\ stage[q] \in {"bundling", "uploading"}
                        \/ stage'[q] \in {"broken", "returned"} /\ stage[q] = "deploying"
      OBVIOUS
    <3>2. CASE q = p
      BY <3>1, <3>2, <2>4
    <3>3. CASE q # p
      BY <3>1, <3>3, <2>3
    <3> QED  BY <3>2, <3>3
  <2> QED  BY <2>1, <2>2, <2>5
<1>5. PastImages'
  <2> SUFFICES ASSUME NEW q \in Plans, NEW d \in Planned(q),
                      stage'[q] \in {"bundling", "uploading", "deploying", "broken", "returned"}
               PROVE  prog.image[d] \in Known
    BY <1>1 DEF PastImages
  <2>1. d \in Env
    BY PlannedEnv
  <2>2. CASE stage[q] \in {"bundling", "uploading", "deploying", "broken", "returned"}
    BY <2>2 DEF PastImages
  <2>3. CASE AllReady(q)
    BY <2>1, <2>3 DEF AllReady, ReadyKnown
  <2> QED  BY <1>4, <2>2, <2>3
<1>6. SentLast'
  BY <1>1, <1>4 DEF SentLast
<1>7. PlansLater'
  <2>1. CASE plan_deploy \/ Return
    BY <2>1 DEF plan_deploy, Return, PlansLater
  <2>2. CASE Uploaded
    BY <1>1, <2>2 DEF Uploaded, PlansLater, Shape
  <2>3. CASE \E p \in Plans : PlanStep(p)
    <3>1. outcome' = outcome /\ outcome # "planning"
      BY <2>3 DEF PlanStep, BuildImages, ImagesDone, CallBundle, Applied, PlansLater
    <3> QED  BY <3>1 DEF PlansLater
  <2> QED  BY <2>1, <2>2, <2>3
<1> QED  BY <1>3, <1>5, <1>6, <1>7

LEMMA EntityImages ==
  ASSUME Shape, ImageInv, NEW p \in Plans, NEW e \in Planned(p), EntityStep(p, e)
  PROVE  ImageInv'
<1> USE DEF ImageInv
<1>1. /\ UNCHANGED <<prog, outcome, stage, job, engine, registry, assumed>>
      /\ Plans' = Plans /\ Known' = Known /\ \A q \in Plans : Planned(q)' = Planned(q)
  BY EntityShape DEF imageVars, Known, Plans, Planned, Discovered, ClosedUnderDeps
<1>2. \A q \in Plans, d \in Env : (q = p /\ d = e) \/ at'[q][d] = at[q][d]
  BY EntityShape
<1>3. e \in Env /\ stage[p] \in {"deploying", "broken", "returned"}
  <2>1. e \in Env
    BY PlannedEnv
  <2>2. at[p][e] # "none" \/ stage[p] \in {"deploying", "broken"}
    BY DEF EntityStep, Translate, Include, Register, Update, RequestFails
  <2> QED  BY <2>1, <2>2 DEF SentLast
<1>4. SentLast'
  BY <1>1, <1>2, <1>3 DEF SentLast
<1> QED  BY <1>1, <1>4 DEF ReadyKnown, BuiltKnown, CallsImages, PastImages, PlansLater

LEMMA NextImages ==
  ASSUME Shape, ImageInv, [Next]_vars
  PROVE  ImageInv'
<1>1. CASE plan_deploy \/ Uploaded \/ Return \/ (\E p \in Plans : PlanStep(p))
  BY <1>1, PlanImages
<1>2. CASE \E i \in Image : EngineStep(i)
  BY <1>2, EngineImages
<1>3. CASE \E p \in Plans : \E e \in Planned(p) : CallBuild(p, e)
  BY <1>3, CallImages
<1>4. CASE \E p \in Plans : \E e \in Planned(p) : EntityStep(p, e)
  BY <1>4, EntityImages
<1>5. CASE UNCHANGED vars
  <2>1. /\ UNCHANGED <<prog, outcome, stage, job, engine, registry, assumed, at>>
        /\ Plans' = Plans /\ Known' = Known /\ \A q \in Plans : Planned(q)' = Planned(q)
    BY <1>5, StutterShape DEF Known, Plans, Planned, Discovered, ClosedUnderDeps
  <2> QED  BY <2>1
       DEF ImageInv, ReadyKnown, BuiltKnown, CallsImages, PastImages, SentLast, PlansLater
<1> QED  BY <1>1, <1>2, <1>3, <1>4, <1>5 DEF Next

(* No task or app of a plan is sent (_deploy_task, _deploy_app) before all *)
(* images of the plan are there, or taken to be.                           *)
THEOREM ImagesFirstAlways == Spec => []ImagesFirst
<1>1. Init => Shape /\ ImageInv
  BY InitShape, InitImages
<1>2. Shape /\ ImageInv /\ [Next]_vars => (Shape /\ ImageInv)'
  BY NextShape, NextImages
<1> QED  BY <1>1, <1>2, ImagesFirstFollows, PTL DEF Spec

-----------------------------------------------------------------------------
(* What is done is on record, under an identifier that does not hold an    *)
(* earlier bundle unless the version was given; and only what was there    *)
(* before the call, at version 0, does.                                    *)
OnRecord(p, e) ==
  /\ Id(p, e) \in DOMAIN registered
  /\ registered[Id(p, e)] = Old => prog.version /\ e \notin App
DoneRecorded == \A p \in Plans, e \in Env : at[p][e] = "done" => OnRecord(p, e)
OldAtZero    == \A k \in DOMAIN registered : registered[k] = Old => k[2] = 0
ReturnedDone == \A p \in Plans : stage[p] = "returned" => AllDone(p)
AllReturned  == outcome = "returned" => \A p \in Plans : stage[p] = "returned"
RecordInv == DoneRecorded /\ OldAtZero /\ ReturnedDone /\ AllReturned

LEMMA RecordedFollows == RecordInv => ReturnsDeployed
BY PlannedEnv
   DEF RecordInv, DoneRecorded, ReturnedDone, AllReturned, AllDone, OnRecord, ReturnsDeployed, Planned

LEMMA InitRecorded == Init => RecordInv
<1> SUFFICES ASSUME Init PROVE RecordInv
  OBVIOUS
<1>1. OldAtZero
  <2>1. CASE registered = <<>>
    BY <2>1 DEF OldAtZero
  <2>2. CASE registered = [k \in (Env \ App) \X {0} |-> Old] \/ registered = [k \in App \X {0} |-> Old]
    BY <2>2 DEF OldAtZero
  <2> QED  BY <2>1, <2>2 DEF Init
<1>2. (\A p \in Plans, e \in Env : at[p][e] # "done") /\ \A p \in Plans : stage[p] # "returned"
  BY DEF Init
<1>3. outcome # "returned"
  BY DEF Init
<1> QED  BY <1>1, <1>2, <1>3 DEF RecordInv, DoneRecorded, ReturnedDone, AllReturned

(* One entry of the record is written, with a bundle of this process.      *)
LEMMA RecordKeeps ==
  ASSUME Shape, NEW p \in Plans, NEW e \in Env, registered' = Record(p, e)
  PROVE  /\ Id(p, e) \in DOMAIN registered' /\ registered'[Id(p, e)] # Old
         /\ \A k \in DOMAIN registered : k \in DOMAIN registered'
         /\ \A k \in DOMAIN registered' :
              registered'[k] = Old => k \in DOMAIN registered /\ registered[k] = Old
<1>1. spec[p][e] # Old
  BY ConstantsAssumption DEF Shape
<1>2. DOMAIN registered' = DOMAIN registered \cup {Id(p, e)}
      /\ \A k \in DOMAIN registered' : registered'[k] = IF k = Id(p, e) THEN spec[p][e] ELSE registered[k]
  BY DEF Record
<1> QED  BY <1>1, <1>2

LEMMA EntityRecords ==
  ASSUME Shape, RecordInv, NEW p \in Plans, NEW e \in Planned(p), EntityStep(p, e)
  PROVE  RecordInv'
<1>1. /\ UNCHANGED <<prog, outcome, stage>>
      /\ \A q \in Plans, d \in Env : (q = p /\ d = e) \/ at'[q][d] = at[q][d]
  BY EntityShape
<1>2. e \in Env /\ Plans' = Plans /\ (\A q, d : Id(q, d)' = Id(q, d)) /\ (\A q : Planned(q)' = Planned(q))
  BY <1>1, PlannedEnv DEF Plans, Id, Version, Planned, Discovered, ClosedUnderDeps
<1>3. at[p][e] # "done"
  BY DEF EntityStep, Translate, Include, Register, Update, RequestFails
<1>4. registered' = registered \/ registered' = Record(p, e)
  BY DEF EntityStep, Translate, Include, Register, Update, RequestFails
<1>5. /\ \A k \in DOMAIN registered : k \in DOMAIN registered'
      /\ \A k \in DOMAIN registered' :
           registered'[k] = Old => k \in DOMAIN registered /\ registered[k] = Old
  BY <1>2, <1>4, RecordKeeps
<1>6. OldAtZero'
  BY <1>5 DEF RecordInv, OldAtZero
<1>7. at'[p][e] = "done" => OnRecord(p, e)'
  <2> SUFFICES ASSUME at'[p][e] = "done" PROVE OnRecord(p, e)'
    OBVIOUS
  <2>1. CASE registered' = Record(p, e)
    BY <1>1, <1>2, <2>1, RecordKeeps DEF OnRecord
  <2>2. CASE registered' # Record(p, e)
    <3>1. Register(p, e) /\ Id(p, e) \in DOMAIN registered /\ registered' = registered
      BY <1>2, <2>2 DEF Shape, EntityStep, Translate, Include, Register, Update, RequestFails
    <3>2. e \notin App
      BY <1>2, <3>1 DEF Shape, Register
    <3>3. registered[Id(p, e)] = Old => Id(p, e)[2] = 0
      BY <3>1 DEF RecordInv, OldAtZero
    <3>4. Id(p, e)[2] = 0 => prog.version
      BY <3>2, ConstantsAssumption DEF Id, Version, Plans
    <3> QED  BY <1>1, <1>2, <3>1, <3>2, <3>3, <3>4 DEF OnRecord
  <2> QED  BY <2>1, <2>2
<1>8. DoneRecorded'
  <2> SUFFICES ASSUME NEW q \in Plans, NEW d \in Env, at'[q][d] = "done" PROVE OnRecord(q, d)'
    BY <1>2 DEF DoneRecorded
  <2>1. CASE q = p /\ d = e
    BY <1>7, <2>1
  <2>2. CASE ~(q = p /\ d = e)
    <3>1. OnRecord(q, d)
      BY <1>1, <2>2 DEF RecordInv, DoneRecorded
    <3> QED  BY <1>1, <1>2, <1>5, <3>1 DEF OnRecord
  <2> QED  BY <2>1, <2>2
<1>9. ReturnedDone'
  BY <1>1, <1>2, <1>3, PlannedEnv DEF RecordInv, ReturnedDone, AllDone
<1>10. AllReturned'
  BY <1>1, <1>2 DEF RecordInv, AllReturned
<1> QED  BY <1>6, <1>8, <1>9, <1>10 DEF RecordInv

LEMMA PlanRecords ==
  ASSUME Shape, RecordInv, plan_deploy \/ Uploaded \/ Return \/ (\E p \in Plans : PlanStep(p))
  PROVE  RecordInv'
<1>1. UNCHANGED <<prog, at, registered>>
  BY PlanShape
<1>2. /\ Plans' = Plans /\ (\A q, d : Id(q, d)' = Id(q, d)) /\ (\A q : Planned(q)' = Planned(q))
      /\ \A q : AllDone(q)' = AllDone(q)
  BY <1>1 DEF Plans, Id, Version, Planned, Discovered, ClosedUnderDeps, AllDone
<1>3. DoneRecorded' /\ OldAtZero'
  BY <1>1, <1>2 DEF RecordInv, DoneRecorded, OldAtZero, OnRecord
<1>4. \A q \in Plans :
        /\ stage'[q] = "returned" => stage[q] = "returned" \/ AllDone(q)
        /\ stage[q] = "returned" => stage'[q] = "returned" \/ plan_deploy
  <2>1. CASE plan_deploy \/ Uploaded \/ Return
    BY <2>1 DEF Shape, plan_deploy, Uploaded, Return
  <2>2. ASSUME NEW p \in Plans, PlanStep(p), NEW q \in Plans
        PROVE  /\ stage'[q] = "returned" => stage[q] = "returned" \/ AllDone(q)
               /\ stage[q] = "returned" => stage'[q] = "returned"
    <3>1. stage[p] # "returned"
      BY <2>2 DEF PlanStep, BuildImages, ImagesDone, CallBundle, Applied
    <3>2. PICK s \in StageState : stage' = [stage EXCEPT ![p] = s] /\ (s = "returned" => AllDone(p))
      BY <2>2 DEF PlanStep, BuildImages, ImagesDone, CallBundle, Applied, StageState
    <3>3. stage'[q] = IF q = p THEN s ELSE stage[q]
      BY <3>2 DEF Shape
    <3> QED  BY <3>1, <3>2, <3>3
  <2> QED  BY <2>1, <2>2
<1>5. ReturnedDone'
  BY <1>2, <1>4 DEF RecordInv, ReturnedDone
<1>6. AllReturned'
  <2>1. outcome' = "returned" => ~plan_deploy
    BY DEF plan_deploy
  <2>2. outcome' = "returned" => \A q \in Plans : stage[q] = "returned"
    BY DEF plan_deploy, Uploaded, Return, PlanStep, BuildImages, ImagesDone, CallBundle, Applied,
           RecordInv, AllReturned
  <2> QED  BY <1>2, <1>4, <2>1, <2>2 DEF AllReturned
<1> QED  BY <1>3, <1>5, <1>6 DEF RecordInv

LEMMA NextRecords ==
  ASSUME Shape, RecordInv, [Next]_vars
  PROVE  RecordInv'
<1>1. CASE plan_deploy \/ Uploaded \/ Return \/ (\E p \in Plans : PlanStep(p))
  BY <1>1, PlanRecords
<1>2. ASSUME UNCHANGED <<prog, stage, at, registered, outcome>> PROVE RecordInv'
  <2>1. /\ Plans' = Plans /\ (\A q, d : Id(q, d)' = Id(q, d)) /\ (\A q : Planned(q)' = Planned(q))
    BY <1>2 DEF Plans, Id, Version, Planned, Discovered, ClosedUnderDeps
  <2> QED  BY <1>2, <2>1
       DEF RecordInv, DoneRecorded, OldAtZero, OnRecord, ReturnedDone, AllDone, AllReturned
<1>3. CASE \E i \in Image : EngineStep(i)
  BY <1>2, <1>3, EngineShape DEF PlanVars
<1>4. CASE \E p \in Plans : \E e \in Planned(p) : CallBuild(p, e)
  BY <1>2, <1>4, CallBuildShape DEF PlanVars
<1>5. CASE \E p \in Plans : \E e \in Planned(p) : EntityStep(p, e)
  BY <1>5, EntityRecords
<1>6. CASE UNCHANGED vars
  BY <1>2, <1>6, StutterShape
<1> QED  BY <1>1, <1>3, <1>4, <1>5, <1>6 DEF Next

(* deploy returns only when what it discovered is registered, by this call *)
(* or under a version that was given.                                      *)
THEOREM ReturnsDeployedAlways == Spec => []ReturnsDeployed
<1>1. Init => Shape /\ RecordInv
  BY InitShape, InitRecorded
<1>2. Shape /\ RecordInv /\ [Next]_vars => (Shape /\ RecordInv)'
  BY NextShape, NextRecords
<1> QED  BY <1>1, <1>2, RecordedFollows, PTL DEF Spec

-----------------------------------------------------------------------------
(* The cache of bundles.  The order of the keys in a sequence in which each *)
(* occurs once: what Append, Without, ToEnd and Tail do to it.             *)
LEMMA BeforeIsAnOrder ==
  ASSUME NEW s \in Seq(Key), IsInjective(s), NEW x, NEW y
  PROVE  /\ Before(s, x, y) => x \in ToSet(s) /\ y \in ToSet(s) /\ x # y /\ ~Before(s, y, x)
         /\ x \in ToSet(s) /\ y \in ToSet(s) /\ x # y => Before(s, x, y) \/ Before(s, y, x)
<1>1. DOMAIN s = 1..Len(s) /\ Len(s) \in Nat
  OBVIOUS
<1> QED  BY <1>1 DEF Before, ToSet, IsInjective

LEMMA AppendOrder ==
  ASSUME NEW s \in Seq(Key), IsInjective(s), NEW k \in Key, k \notin ToSet(s)
  PROVE  /\ Append(s, k) \in Seq(Key) /\ Len(Append(s, k)) = Len(s) + 1
         /\ IsInjective(Append(s, k)) /\ ToSet(Append(s, k)) = ToSet(s) \cup {k}
         /\ \A x, y : Before(Append(s, k), x, y) <=> Before(s, x, y) \/ (x \in ToSet(s) /\ y = k)
<1> DEFINE t == Append(s, k)
<1>1. /\ t \in Seq(Key) /\ Len(t) = Len(s) + 1 /\ Len(s) \in Nat
      /\ DOMAIN s = 1..Len(s) /\ DOMAIN t = 1..(Len(s) + 1)
      /\ t[Len(s) + 1] = k /\ \A i \in 1..Len(s) : t[i] = s[i]
  OBVIOUS
<1>2. \A i \in 1..Len(s) : s[i] # k
  BY <1>1 DEF ToSet
<1> HIDE DEF t
<1>3. IsInjective(t)
  BY <1>1, <1>2 DEF IsInjective
<1>4. ToSet(t) = ToSet(s) \cup {k}
  <2>1. ASSUME NEW x \in ToSet(t) PROVE x \in ToSet(s) \cup {k}
    BY <1>1 DEF ToSet
  <2>2. ASSUME NEW x \in ToSet(s) \cup {k} PROVE x \in ToSet(t)
    BY <1>1 DEF ToSet
  <2> QED  BY <2>1, <2>2
<1>5. ASSUME NEW x, NEW y
      PROVE  Before(t, x, y) <=> Before(s, x, y) \/ (x \in ToSet(s) /\ y = k)
  <2>1. ASSUME Before(t, x, y) PROVE Before(s, x, y) \/ (x \in ToSet(s) /\ y = k)
    <3>1. PICK i, j \in 1..(Len(s) + 1) : i < j /\ t[i] = x /\ t[j] = y
      BY <1>1, <2>1 DEF Before
    <3>2. CASE j = Len(s) + 1
      BY <1>1, <3>1, <3>2 DEF ToSet
    <3>3. CASE j # Len(s) + 1
      BY <1>1, <3>1, <3>3 DEF Before
    <3> QED  BY <3>2, <3>3
  <2>2. ASSUME Before(s, x, y) PROVE Before(t, x, y)
    BY <1>1, <2>2 DEF Before
  <2>3. ASSUME x \in ToSet(s), y = k PROVE Before(t, x, y)
    <3>1. PICK i \in 1..Len(s) : s[i] = x
      BY <1>1, <2>3 DEF ToSet
    <3> QED  BY <1>1, <2>3, <3>1 DEF Before
  <2> QED  BY <2>1, <2>2, <2>3
<1> QED  BY <1>1, <1>3, <1>4, <1>5 DEF t

LEMMA RemoveOrder ==
  ASSUME NEW s \in Seq(Key), IsInjective(s), NEW k \in Key, k \in ToSet(s)
  PROVE  /\ Without(s, k) \in Seq(Key) /\ Len(Without(s, k)) = Len(s) - 1
         /\ IsInjective(Without(s, k)) /\ ToSet(Without(s, k)) = ToSet(s) \ {k}
         /\ \A x, y : Before(Without(s, k), x, y) <=> x # k /\ y # k /\ Before(s, x, y)
<1> DEFINE n == CHOOSE i \in DOMAIN s : s[i] = k
           t == Without(s, k)
<1>1. DOMAIN s = 1..Len(s) /\ Len(s) \in Nat
  OBVIOUS
<1>2. n \in 1..Len(s) /\ s[n] = k
  BY <1>1 DEF ToSet
<1>3. t = SubSeq(s, 1, n - 1) \o SubSeq(s, n + 1, Len(s))
  BY DEF Without, RemoveAt
<1> HIDE DEF n, t
<1> DEFINE a == SubSeq(s, 1, n - 1)
           b == SubSeq(s, n + 1, Len(s))
<1>4. /\ a \in Seq(Key) /\ Len(a) = n - 1 /\ \A i \in 1..(n - 1) : a[i] = s[i]
      /\ b \in Seq(Key) /\ Len(b) = Len(s) - n /\ \A i \in 1..(Len(s) - n) : b[i] = s[i + n]
  <2>1. 1 \in Int /\ n - 1 \in Int /\ n + 1 \in Int /\ Len(s) \in Int
    BY <1>1, <1>2
  <2>2. /\ \A i \in 1..(n - 1) : s[i] \in Key
        /\ \A i \in (n + 1)..Len(s) : s[i] \in Key
    BY <1>1, <1>2
  <2>3. /\ a \in Seq(Key) /\ Len(a) = IF 1 <= n - 1 THEN n - 1 - 1 + 1 ELSE 0
        /\ \A i \in 1..(n - 1 - 1 + 1) : a[i] = s[1 + i - 1]
    BY <2>1, <2>2, SubSeqProperties
  <2>4. /\ b \in Seq(Key) /\ Len(b) = IF n + 1 <= Len(s) THEN Len(s) - (n + 1) + 1 ELSE 0
        /\ \A i \in 1..(Len(s) - (n + 1) + 1) : b[i] = s[n + 1 + i - 1]
    BY <2>1, <2>2, SubSeqProperties
  <2> HIDE DEF a, b
  <2>5. n \in Int /\ Len(s) \in Int /\ 1 <= n /\ n <= Len(s)
    BY <1>1, <1>2
  <2>6. Len(a) = n - 1 /\ Len(b) = Len(s) - n
    BY <2>3, <2>4, <2>5
  <2>7. ASSUME NEW i \in 1..(n - 1) PROVE a[i] = s[i]
    <3>1. i \in 1..(n - 1 - 1 + 1) /\ 1 + i - 1 = i
      BY <2>5
    <3> QED  BY <2>3, <3>1
  <2>8. ASSUME NEW i \in 1..(Len(s) - n) PROVE b[i] = s[i + n]
    <3>1. i \in 1..(Len(s) - (n + 1) + 1) /\ n + 1 + i - 1 = i + n
      BY <2>5
    <3> QED  BY <2>4, <3>1
  <2> QED  BY <2>3, <2>4, <2>6, <2>7, <2>8
<1> HIDE DEF a, b
<1>5. /\ a \o b \in Seq(Key) /\ Len(a \o b) = Len(a) + Len(b)
      /\ \A i \in 1..(Len(a) + Len(b)) : (a \o b)[i] = IF i <= Len(a) THEN a[i] ELSE b[i - Len(a)]
  BY <1>4, ConcatProperties
<1>6. /\ t \in Seq(Key) /\ Len(t) = Len(s) - 1 /\ DOMAIN t = 1..(Len(s) - 1)
      /\ \A i \in 1..(Len(s) - 1) : t[i] = IF i < n THEN s[i] ELSE s[i + 1]
  <2>1. t = a \o b
    BY <1>3 DEF a, b
  <2>2. t \in Seq(Key) /\ Len(t) = Len(s) - 1
    <3>1. Len(a) + Len(b) = Len(s) - 1
      BY <1>1, <1>2, <1>4
    <3> QED  BY <1>5, <2>1, <3>1
  <2>3. ASSUME NEW i \in 1..(Len(s) - 1) PROVE t[i] = IF i < n THEN s[i] ELSE s[i + 1]
    <3>1. CASE i < n
      BY <1>1, <1>2, <1>4, <1>5, <2>1, <3>1
    <3>2. CASE ~(i < n)
      <4>1. i - (n - 1) \in 1..(Len(s) - n) /\ i - (n - 1) + n = i + 1
        BY <1>1, <1>2, <3>2
      <4>2. t[i] = b[i - (n - 1)]
        BY <1>1, <1>2, <1>4, <1>5, <2>1, <3>2
      <4> QED  BY <1>4, <3>2, <4>1, <4>2
    <3> QED  BY <3>1, <3>2
  <2> QED  BY <2>2, <2>3
<1>7. \A i \in 1..Len(s) : s[i] = k => i = n
  BY <1>1, <1>2 DEF IsInjective
<1>8. IsInjective(t)
  <2> SUFFICES ASSUME NEW i \in 1..(Len(s) - 1), NEW j \in 1..(Len(s) - 1), t[i] = t[j] PROVE i = j
    BY <1>6 DEF IsInjective
  <2> DEFINE p == IF i < n THEN i ELSE i + 1
             q == IF j < n THEN j ELSE j + 1
  <2>1. p \in 1..Len(s) /\ q \in 1..Len(s) /\ s[p] = s[q]
    BY <1>1, <1>2, <1>6
  <2>2. p = q
    BY <1>1, <2>1 DEF IsInjective
  <2> QED  BY <1>2, <2>2
<1>9. ToSet(t) = ToSet(s) \ {k}
  <2>1. ASSUME NEW x \in ToSet(t) PROVE x \in ToSet(s) \ {k}
    <3>1. PICK i \in 1..(Len(s) - 1) : t[i] = x
      BY <1>6 DEF ToSet
    <3>2. PICK j \in 1..Len(s) : j # n /\ s[j] = x
      BY <1>1, <1>2, <1>6, <3>1
    <3> QED  BY <1>1, <1>7, <3>2 DEF ToSet
  <2>2. ASSUME NEW x \in ToSet(s) \ {k} PROVE x \in ToSet(t)
    <3>1. PICK j \in 1..Len(s) : s[j] = x /\ j # n
      BY <1>1, <1>2 DEF ToSet
    <3>2. PICK i \in 1..(Len(s) - 1) : t[i] = x
      <4>1. CASE j < n
        BY <1>2, <1>6, <3>1, <4>1
      <4>2. CASE j > n
        <5>1. j - 1 \in 1..(Len(s) - 1) /\ t[j - 1] = s[j]
          BY <1>2, <1>6, <3>1, <4>2
        <5> QED  BY <3>1, <5>1
      <4> QED  BY <1>2, <3>1, <4>1, <4>2
    <3> QED  BY <1>6, <3>2 DEF ToSet
  <2> QED  BY <2>1, <2>2
<1>10. ASSUME NEW x, NEW y
       PROVE  Before(t, x, y) <=> x # k /\ y # k /\ Before(s, x, y)
  <2>1. ASSUME Before(t, x, y) PROVE x # k /\ y # k /\ Before(s, x, y)
    <3>1. PICK i, j \in 1..(Len(s) - 1) : i < j /\ t[i] = x /\ t[j] = y
      BY <1>6, <2>1 DEF Before
    <3>2. PICK p, q \in 1..Len(s) : p < q /\ s[p] = x /\ s[q] = y /\ p # n /\ q # n
      <4> DEFINE p == IF i < n THEN i ELSE i + 1
                 q == IF j < n THEN j ELSE j + 1
      <4>1. p \in 1..Len(s) /\ q \in 1..Len(s) /\ p < q /\ s[p] = x /\ s[q] = y /\ p # n /\ q # n
        BY <1>1, <1>2, <1>6, <3>1
      <4> QED  BY <4>1
    <3> QED  BY <1>1, <1>7, <3>2 DEF Before
  <2>2. ASSUME x # k, y # k, Before(s, x, y) PROVE Before(t, x, y)
    <3>1. PICK p, q \in 1..Len(s) : p < q /\ s[p] = x /\ s[q] = y
      BY <1>1, <2>2 DEF Before
    <3>2. p # n /\ q # n
      BY <1>2, <2>2, <3>1
    <3> DEFINE i == IF p < n THEN p ELSE p - 1
               j == IF q < n THEN q ELSE q - 1
    <3>3. i \in 1..(Len(s) - 1) /\ j \in 1..(Len(s) - 1) /\ i < j
      BY <1>1, <1>2, <3>1, <3>2
    <3>4. t[i] = s[p]
      <4>1. CASE p < n
        <5>1. i = p
          BY <4>1
        <5>2. p \in 1..(Len(s) - 1)
          BY <3>3, <5>1
        <5> QED  BY <1>6, <4>1, <5>1, <5>2
      <4>2. CASE p > n
        <5>1. i = p - 1
          BY <1>2, <4>2
        <5>2. p - 1 \in 1..(Len(s) - 1) /\ ~(p - 1 < n) /\ p - 1 + 1 = p
          BY <1>2, <3>3, <4>2, <5>1
        <5>3. t[p - 1] = s[p - 1 + 1]
          BY <1>6, <5>2
        <5> QED  BY <5>1, <5>2, <5>3
      <4> QED  BY <1>2, <3>2, <4>1, <4>2
    <3>5. t[j] = s[q]
      <4>1. CASE q < n
        <5>1. j = q
          BY <4>1
        <5>2. q \in 1..(Len(s) - 1)
          BY <3>3, <5>1
        <5> QED  BY <1>6, <4>1, <5>1, <5>2
      <4>2. CASE q > n
        <5>1. j = q - 1
          BY <1>2, <4>2
        <5>2. q - 1 \in 1..(Len(s) - 1) /\ ~(q - 1 < n) /\ q - 1 + 1 = q
          BY <1>2, <3>3, <4>2, <5>1
        <5>3. t[q - 1] = s[q - 1 + 1]
          BY <1>6, <5>2
        <5> QED  BY <5>1, <5>2, <5>3
      <4> QED  BY <1>2, <3>2, <4>1, <4>2
    <3> QED  BY <1>6, <3>1, <3>3, <3>4, <3>5 DEF Before
  <2> QED  BY <2>1, <2>2
<1> QED  BY <1>6, <1>8, <1>9, <1>10 DEF t

LEMMA WithoutOrder ==
  ASSUME NEW s \in Seq(Key), IsInjective(s), NEW k \in Key
  PROVE  /\ Without(s, k) \in Seq(Key) /\ Len(Without(s, k)) <= Len(s)
         /\ IsInjective(Without(s, k)) /\ ToSet(Without(s, k)) = ToSet(s) \ {k}
         /\ \A x, y : Before(Without(s, k), x, y) <=> x # k /\ y # k /\ Before(s, x, y)
<1>1. CASE k \in ToSet(s)
  BY <1>1, RemoveOrder
<1>2. CASE k \notin ToSet(s)
  <2>1. Without(s, k) = s
    BY <1>2 DEF Without
  <2>2. \A x, y : Before(s, x, y) => x # k /\ y # k
    BY <1>2, BeforeIsAnOrder
  <2> QED  BY <1>2, <2>1, <2>2
<1> QED  BY <1>1, <1>2

(* OrderedDict.move_to_end: the key comes last, the others keep their      *)
(* order.                                                                  *)
LEMMA ToEndOrder ==
  ASSUME NEW s \in Seq(Key), IsInjective(s), NEW k \in Key
  PROVE  /\ ToEnd(s, k) \in Seq(Key) /\ IsInjective(ToEnd(s, k))
         /\ ToSet(ToEnd(s, k)) = ToSet(s) \cup {k}
         /\ k \in ToSet(s) => Len(ToEnd(s, k)) = Len(s)
         /\ \A x, y : Before(ToEnd(s, k), x, y)
                        <=> x # k /\ ((Before(s, x, y) /\ y # k) \/ (x \in ToSet(s) /\ y = k))
<1> DEFINE t == Without(s, k)
<1>1. /\ t \in Seq(Key) /\ IsInjective(t) /\ ToSet(t) = ToSet(s) \ {k}
      /\ \A x, y : Before(t, x, y) <=> x # k /\ y # k /\ Before(s, x, y)
  BY WithoutOrder
<1>2. k \in ToSet(s) => Len(t) = Len(s) - 1
  BY RemoveOrder
<1>3. ToEnd(s, k) = Append(t, k)
  BY DEF ToEnd
<1> HIDE DEF t
<1>4. /\ Append(t, k) \in Seq(Key) /\ Len(Append(t, k)) = Len(t) + 1
      /\ IsInjective(Append(t, k)) /\ ToSet(Append(t, k)) = ToSet(t) \cup {k}
      /\ \A x, y : Before(Append(t, k), x, y) <=> Before(t, x, y) \/ (x \in ToSet(t) /\ y = k)
  BY <1>1, AppendOrder
<1>5. k \in ToSet(s) => Len(Append(t, k)) = Len(s)
  BY <1>2, <1>4
<1>6. \A x, y : Before(Append(t, k), x, y)
                  <=> x # k /\ ((Before(s, x, y) /\ y # k) \/ (x \in ToSet(s) /\ y = k))
  <2> TAKE x, y
  <2>1. Before(Append(t, k), x, y) <=> Before(t, x, y) \/ (x \in ToSet(t) /\ y = k)
    BY <1>4
  <2>2. Before(t, x, y) <=> x # k /\ y # k /\ Before(s, x, y)
    BY <1>1
  <2>3. x \in ToSet(t) <=> x \in ToSet(s) /\ x # k
    BY <1>1
  <2> QED  BY <2>1, <2>2, <2>3
<1> QED  BY <1>1, <1>3, <1>4, <1>5, <1>6

LEMMA TailOrder ==
  ASSUME NEW s \in Seq(Key), IsInjective(s), s # <<>>
  PROVE  /\ Tail(s) \in Seq(Key) /\ Len(Tail(s)) = Len(s) - 1
         /\ IsInjective(Tail(s)) /\ ToSet(Tail(s)) \subseteq ToSet(s)
         /\ Len(s) > 1 => s[Len(s)] \in ToSet(Tail(s))
         /\ \A x, y : Before(Tail(s), x, y) => Before(s, x, y)
<1> DEFINE t == Tail(s)
<1>1. /\ t \in Seq(Key) /\ Len(t) = Len(s) - 1 /\ Len(s) \in Nat
      /\ DOMAIN s = 1..Len(s) /\ DOMAIN t = 1..(Len(s) - 1)
      /\ \A i \in 1..(Len(s) - 1) : t[i] = s[i + 1]
  OBVIOUS
<1> HIDE DEF t
<1>2. IsInjective(t)
  BY <1>1 DEF IsInjective
<1>3. ToSet(t) \subseteq ToSet(s)
  BY <1>1 DEF ToSet
<1>4. ASSUME Len(s) > 1 PROVE s[Len(s)] \in ToSet(t)
  <2>1. Len(s) - 1 \in 1..(Len(s) - 1) /\ t[Len(s) - 1] = s[Len(s)]
    BY <1>1, <1>4
  <2> QED  BY <1>1, <2>1 DEF ToSet
<1>5. ASSUME NEW x, NEW y, Before(t, x, y) PROVE Before(s, x, y)
  <2>1. PICK i, j \in 1..(Len(s) - 1) : i < j /\ t[i] = x /\ t[j] = y
    BY <1>1, <1>5 DEF Before
  <2>2. i + 1 \in 1..Len(s) /\ j + 1 \in 1..Len(s) /\ i + 1 < j + 1 /\ s[i + 1] = x /\ s[j + 1] = y
    BY <1>1, <2>1
  <2> QED  BY <1>1, <2>2 DEF Before
<1> QED  BY <1>1, <1>2, <1>3, <1>4, <1>5 DEF t

-----------------------------------------------------------------------------
(* The inductive invariant of the cache: its entries, and who holds which  *)
(* lock.  Places without a lock of a key, waiting for one, with one, and   *)
(* computing or storing a value.                                           *)
Nameless   == {"new", "found", "hit", "hit waiting", "miss", "miss waiting", "naming"}
Queueing   == {"locking", "waiting"}
InLock     == {"found again", "again", "again waiting", "computing", "store waiting", "storing"}
InCompute  == {"computing", "store waiting", "storing"}
CachePlace == Nameless \cup Queueing \cup InLock \cup {"moving", "returned", "raised"}

EntriesTyped ==
  /\ cache \in Seq(Key) /\ Len(cache) <= MaxSize /\ IsInjective(cache)
  /\ used \in Seq(Key) /\ IsInjective(used) /\ ToSet(cache) \subseteq ToSet(used)
  /\ old \subseteq ToSet(cache)

InOrder ==
  \A x, y \in ToSet(cache) \ lapsed : Before(cache, x, y) => Before(used, x, y)

EntriesInv == EntriesTyped /\ InOrder

LocksTyped ==
  /\ locks \in [Key -> Getter \cup {Nobody}] /\ mine \in [Getter -> Getter \cup {Nobody}]
  /\ holder \in [Getter -> Getter \cup {Nobody}] /\ pc \in [Getter -> CachePlace]

LockTaken ==
  \A c \in Getter : /\ pc[c] \in Nameless => mine[c] = Nobody
                    /\ pc[c] \in Queueing \cup InLock => mine[c] # Nobody

HoldsLock ==
  \A c \in Getter :
    pc[c] \in InLock \/ (pc[c] = "moving" /\ mine[c] # Nobody) => holder[mine[c]] = c

(* A key that was never stored has never lost its lock: all who took a     *)
(* lock for it took the same.                                              *)
OneLock ==
  \A k \in Key \ lapsed : ~Valid(k) =>
    \A c \in Getter : KeyOf[c] = k /\ mine[c] # Nobody => mine[c] = locks[k]

OneComputes == \A k \in Key \ lapsed : \A c, d \in Computing(k) : c = d

LocksInv == LocksTyped /\ LockTaken /\ HoldsLock /\ OneLock /\ OneComputes

(* No key that counts as never stored was stored before or loses its lock. *)
NoNewMiss ==
  \A k \in Key \ lapsed' : ~Valid(k)' => k \notin lapsed /\ ~Valid(k) /\ locks'[k] = locks[k]

LEMMA UnchangedMiss == ASSUME UNCHANGED <<entryVars, locks, lapsed>> PROVE NoNewMiss /\ lapsed \cap Key \subseteq lapsed'
BY DEF NoNewMiss, entryVars, Valid, Cached

LEMMA LocksInit == CacheInit => LocksInv
<1> SUFFICES ASSUME CacheInit PROVE LocksInv
  OBVIOUS
<1>1. LocksTyped /\ LockTaken /\ HoldsLock
  BY CacheConstants
  DEF CacheInit, LocksTyped, LockTaken, HoldsLock, CachePlace, Nameless, Queueing, InLock
<1>2. OneLock /\ OneComputes
  BY DEF CacheInit, OneLock, OneComputes, Computing
<1> QED  BY <1>1, <1>2 DEF LocksInv

(* A coroutine gets on without taking or leaving a lock of a key.          *)
LEMMA SameLock ==
  ASSUME LocksInv, NEW c \in Getter, NEW p \in CachePlace,
         pc' = [pc EXCEPT ![c] = p], UNCHANGED <<entryVars, lockVars, lapsed>>,
         \/ pc[c] \in Nameless /\ p \in Nameless \cup {"moving", "raised"}
         \/ pc[c] \in InLock /\ p \in InLock \cup {"moving"} /\ (p \in InCompute => pc[c] \in InCompute)
  PROVE  LocksInv'
<1>1. /\ LocksTyped /\ LockTaken /\ HoldsLock /\ OneLock /\ OneComputes
      /\ UNCHANGED <<locks, holder, mine, lapsed>>
  BY DEF LocksInv, lockVars
<1>2. /\ pc' \in [Getter -> CachePlace] /\ pc'[c] = p
      /\ \A d \in Getter : d # c => pc'[d] = pc[d]
  BY <1>1 DEF LocksTyped
<1>3. LocksTyped'
  BY <1>1, <1>2 DEF LocksTyped
<1>4. LockTaken'
  BY <1>1, <1>2 DEF LockTaken, Nameless, Queueing, InLock
<1>5. HoldsLock'
  BY <1>1, <1>2 DEF HoldsLock, LockTaken, Nameless, InLock
<1>6. OneLock'
  BY <1>1, UnchangedMiss DEF OneLock, NoNewMiss, lockVars
<1>7. \A k : Computing(k)' \subseteq Computing(k)
  BY <1>2 DEF Computing, InCompute, Nameless
<1>8. OneComputes'
  BY <1>1, <1>7 DEF OneComputes
<1> QED  BY <1>3, <1>4, <1>5, <1>6, <1>8 DEF LocksInv

(* A coroutine leaves get, with the lock it holds if any.                  *)
LEMMA ReleaseLock ==
  ASSUME LocksInv, NEW c \in Getter, NEW p \in {"returned", "raised"},
         pc' = [pc EXCEPT ![c] = p], pc[c] \in InLock \cup {"moving"},
         holder' = IF mine[c] # Nobody THEN Unlocked(c) ELSE holder,
         locks' \in [Key -> Getter \cup {Nobody}], UNCHANGED mine,
         lapsed \cap Key \subseteq lapsed', NoNewMiss
  PROVE  LocksInv'
<1>1. LocksTyped /\ LockTaken /\ HoldsLock /\ OneLock /\ OneComputes
  BY DEF LocksInv
<1>2. /\ pc' \in [Getter -> CachePlace] /\ pc'[c] = p
      /\ \A d \in Getter : d # c => pc'[d] = pc[d]
  BY <1>1 DEF LocksTyped, CachePlace
<1>3. mine[c] # Nobody => mine[c] \in Getter /\ holder[mine[c]] = c
  BY <1>1 DEF HoldsLock, LocksTyped
<1>4. /\ holder' \in [Getter -> Getter \cup {Nobody}]
      /\ \A n \in Getter : holder[n] # c => holder'[n] = holder[n]
  BY <1>1, <1>3 DEF Unlocked, LocksTyped
<1>5. LocksTyped'
  BY <1>1, <1>2, <1>4 DEF LocksTyped
<1>6. LockTaken'
  BY <1>1, <1>2 DEF LockTaken, Nameless, Queueing, InLock
<1>7. HoldsLock'
  <2> SUFFICES ASSUME NEW d \in Getter, pc'[d] \in InLock \/ (pc'[d] = "moving" /\ mine'[d] # Nobody)
               PROVE  holder'[mine'[d]] = d
    BY DEF HoldsLock
  <2>1. d # c
    BY <1>2 DEF InLock
  <2>2. holder[mine[d]] = d /\ mine[d] \in Getter
    BY <1>1, <1>2, <2>1 DEF HoldsLock, LockTaken, LocksTyped
  <2> QED  BY <1>4, <2>1, <2>2
<1>8. OneLock'
  BY <1>1 DEF OneLock, NoNewMiss
<1>9. \A k : Computing(k)' \subseteq Computing(k)
  BY <1>2 DEF Computing
<1>10. OneComputes'
  BY <1>1, <1>9 DEF OneComputes
<1> QED  BY <1>5, <1>6, <1>7, <1>8, <1>10 DEF LocksInv

(* The other operations hold no lock of a key.                             *)
LEMMA OtherCall ==
  ASSUME LocksInv, UNCHANGED <<holder, mine, pc>>,
         locks' \in [Key -> Getter \cup {Nobody}], lapsed \cap Key \subseteq lapsed', NoNewMiss
  PROVE  LocksInv'
<1>1. LocksTyped /\ LockTaken /\ HoldsLock /\ OneLock /\ OneComputes
  BY DEF LocksInv
<1>2. LocksTyped' /\ LockTaken' /\ HoldsLock'
  BY <1>1 DEF LocksTyped, LockTaken, HoldsLock
<1>3. OneLock'
  BY <1>1 DEF OneLock, NoNewMiss
<1>4. OneComputes'
  BY <1>1 DEF OneComputes, Computing
<1> QED  BY <1>2, <1>3, <1>4 DEF LocksInv

(* A new lock is for the key alone, so nobody holds another one for it.    *)
LEMMA FindLockInv == ASSUME LocksInv, NEW c \in Getter, FindLock(c) PROVE LocksInv'
<1> DEFINE key == KeyOf[c]
<1>1. /\ LocksTyped /\ LockTaken /\ HoldsLock /\ OneLock /\ OneComputes
      /\ pc[c] = "naming" /\ pc' = [pc EXCEPT ![c] = "locking"]
      /\ locks' = [locks EXCEPT ![key] = LockFor(c)] /\ mine' = [mine EXCEPT ![c] = LockFor(c)]
      /\ UNCHANGED <<entryVars, holder, lapsed>>
  BY DEF LocksInv, FindLock, Step
<1>2. key \in Key /\ LockFor(c) \in Getter /\ (locks[key] # Nobody => LockFor(c) = locks[key])
  BY <1>1, CacheConstants DEF LockFor, LocksTyped
<1>3. /\ pc' \in [Getter -> CachePlace] /\ pc'[c] = "locking"
      /\ \A d \in Getter : d # c => pc'[d] = pc[d]
  BY <1>1 DEF LocksTyped, CachePlace, Queueing
<1>4. /\ mine' \in [Getter -> Getter \cup {Nobody}] /\ mine'[c] = LockFor(c)
      /\ \A d \in Getter : d # c => mine'[d] = mine[d]
  BY <1>1, <1>2 DEF LocksTyped
<1>5. /\ locks' \in [Key -> Getter \cup {Nobody}] /\ locks'[key] = LockFor(c)
      /\ \A k \in Key : k # key => locks'[k] = locks[k]
  BY <1>1, <1>2 DEF LocksTyped
<1>6. LocksTyped'
  BY <1>1, <1>3, <1>4, <1>5 DEF LocksTyped
<1>7. LockTaken'
  BY <1>1, <1>2, <1>3, <1>4, CacheConstants DEF LockTaken, Nameless, Queueing, InLock
<1>8. HoldsLock'
  BY <1>1, <1>3, <1>4 DEF HoldsLock, InLock
<1>9. OneLock'
  <2> SUFFICES ASSUME NEW k \in Key, k \notin lapsed, ~Valid(k), NEW d \in Getter,
                      KeyOf[d] = k, mine'[d] # Nobody
               PROVE  mine'[d] = locks'[k]
    BY <1>1 DEF OneLock, Valid, Cached, entryVars
  <2>1. CASE d = c
    BY <1>4, <1>5, <2>1
  <2>2. CASE d # c
    <3>1. mine'[d] = mine[d] /\ mine[d] = locks[k]
      BY <1>1, <1>4, <2>2 DEF OneLock
    <3> QED  BY <1>2, <1>5, <3>1
  <2> QED  BY <2>1, <2>2
<1>10. \A k : Computing(k)' \subseteq Computing(k)
  BY <1>3 DEF Computing
<1>11. OneComputes'
  BY <1>1, <1>10 DEF OneComputes
<1> QED  BY <1>6, <1>7, <1>8, <1>9, <1>11 DEF LocksInv

(* Who computes a value that was never stored has taken the lock of the    *)
(* key, and nobody else computes it.                                       *)
LEMMA ComputesAlone ==
  ASSUME LocksInv, NEW c \in Getter, mine[c] # Nobody, holder[mine[c]] \in {Nobody, c},
         KeyOf[c] \in Key \ lapsed, ~Valid(KeyOf[c]), NEW f \in Computing(KeyOf[c])
  PROVE  f = c
<1>1. LocksTyped /\ LockTaken /\ HoldsLock /\ OneLock
  BY DEF LocksInv
<1>2. f \in Getter /\ KeyOf[f] = KeyOf[c] /\ pc[f] \in InLock
  BY DEF Computing, InLock
<1>3. mine[f] # Nobody /\ holder[mine[f]] = f
  BY <1>1, <1>2 DEF LockTaken, HoldsLock
<1>4. mine[f] = locks[KeyOf[c]] /\ mine[c] = locks[KeyOf[c]]
  BY <1>1, <1>2, <1>3 DEF OneLock
<1> QED  BY <1>2, <1>3, <1>4, CacheConstants

(* A coroutine goes on with the lock of its key, just taken or not; it     *)
(* computes only if the value is not there.                                *)
LEMMA HoldsOn ==
  ASSUME LocksInv, NEW c \in Getter, NEW p \in InLock, pc' = [pc EXCEPT ![c] = p],
         pc[c] \in Queueing \cup InLock, holder[mine[c]] \in {Nobody, c},
         holder' = [holder EXCEPT ![mine[c]] = c], UNCHANGED <<entryVars, locks, mine, lapsed>>,
         p \in InCompute => ~Valid(KeyOf[c])
  PROVE  LocksInv'
<1>1. /\ LocksTyped /\ LockTaken /\ HoldsLock /\ OneLock /\ OneComputes
      /\ UNCHANGED <<entryVars, locks, mine, lapsed>>
  BY DEF LocksInv
<1>2. mine[c] \in Getter /\ mine[c] # Nobody
  BY <1>1, CacheConstants DEF LockTaken, LocksTyped
<1>3. /\ pc' \in [Getter -> CachePlace] /\ pc'[c] = p
      /\ \A d \in Getter : d # c => pc'[d] = pc[d]
  BY <1>1 DEF LocksTyped, CachePlace
<1>4. /\ holder' \in [Getter -> Getter \cup {Nobody}] /\ holder'[mine[c]] = c
      /\ \A n \in Getter : n # mine[c] => holder'[n] = holder[n]
  BY <1>1, <1>2 DEF LocksTyped
<1>5. LocksTyped' /\ LockTaken'
  BY <1>1, <1>2, <1>3, <1>4 DEF LocksTyped, LockTaken, Nameless, InLock
<1>6. OneLock'
  BY <1>1, UnchangedMiss DEF OneLock, NoNewMiss
<1>7. HoldsLock'
  <2> SUFFICES ASSUME NEW d \in Getter, d # c,
                      pc[d] \in InLock \/ (pc[d] = "moving" /\ mine[d] # Nobody)
               PROVE  holder'[mine[d]] = d
    BY <1>1, <1>3, <1>4 DEF HoldsLock
  <2>1. holder[mine[d]] = d /\ mine[d] \in Getter
    BY <1>1 DEF HoldsLock, LockTaken, LocksTyped
  <2> QED  BY <1>4, <2>1, CacheConstants
<1>8. OneComputes'
  <2> SUFFICES ASSUME NEW k \in Key, k \notin lapsed, NEW d \in Computing(k)', NEW e \in Computing(k)'
               PROVE  d = e
    BY <1>1 DEF OneComputes
  <2>1. /\ d \in Getter /\ KeyOf[d] = k /\ (d # c => d \in Computing(k))
        /\ e \in Getter /\ KeyOf[e] = k /\ (e # c => e \in Computing(k))
    BY <1>3 DEF Computing
  <2>2. c \in Computing(k)' => KeyOf[c] = k /\ ~Valid(k)
    BY <1>3 DEF Computing, InCompute
  <2>3. CASE d = c \/ e = c
    BY <1>2, <2>1, <2>2, <2>3, ComputesAlone
  <2>4. CASE d # c /\ e # c
    BY <1>1, <2>1, <2>4 DEF OneComputes
  <2> QED  BY <2>3, <2>4
<1> QED  BY <1>5, <1>6, <1>7, <1>8 DEF LocksInv

(* A coroutine waits for the lock of its key, or raises for one that       *)
(* belongs to another loop.                                                *)
LEMMA StaysOut ==
  ASSUME LocksInv, NEW c \in Getter, NEW p \in {"waiting", "raised"}, pc' = [pc EXCEPT ![c] = p],
         pc[c] \in Queueing, UNCHANGED <<entryVars, locks, mine, holder, lapsed>>
  PROVE  LocksInv'
<1>1. /\ LocksTyped /\ LockTaken /\ HoldsLock /\ OneLock /\ OneComputes
      /\ UNCHANGED <<entryVars, locks, mine, holder, lapsed>>
  BY DEF LocksInv
<1>2. /\ pc' \in [Getter -> CachePlace] /\ pc'[c] = p
      /\ \A d \in Getter : d # c => pc'[d] = pc[d]
  BY <1>1 DEF LocksTyped, CachePlace, Queueing
<1>3. LocksTyped' /\ LockTaken' /\ HoldsLock'
  BY <1>1, <1>2 DEF LocksTyped, LockTaken, HoldsLock, Nameless, Queueing, InLock
<1>4. OneLock'
  BY <1>1, UnchangedMiss DEF OneLock, NoNewMiss
<1>5. \A k : Computing(k)' \subseteq Computing(k)
  BY <1>2 DEF Computing
<1>6. OneComputes'
  BY <1>1, <1>5 DEF OneComputes
<1> QED  BY <1>3, <1>4, <1>6 DEF LocksInv

LEMMA LockStepInv == ASSUME LocksInv, NEW c \in Getter, Lock(c) \/ WokenKey(c) PROVE LocksInv'
<1>1. pc[c] \in Queueing /\ UNCHANGED <<entryVars, locks, mine, lapsed>>
  BY DEF Lock, WokenKey, Queueing
<1>2. CASE TakeKey(c)
  <2>1. PICK p \in {"found again", "computing"} :
          /\ pc' = [pc EXCEPT ![c] = p] /\ holder[mine[c]] = Nobody
          /\ holder' = [holder EXCEPT ![mine[c]] = c] /\ (p = "computing" => ~Cached(KeyOf[c]))
    BY <1>2 DEF TakeKey, Free, Step
  <2> QED  BY <1>1, <2>1, HoldsOn DEF InLock, InCompute, Valid
<1>3. CASE UNCHANGED holder /\ \E p \in {"waiting", "raised"} : pc' = [pc EXCEPT ![c] = p]
  BY <1>1, <1>3, StaysOut
<1> QED  BY <1>2, <1>3 DEF Lock, WokenKey, Step

LEMMA ReadAgainInv == ASSUME LocksInv, NEW c \in Getter, ReadAgain(c) PROVE LocksInv'
<1>1. /\ pc[c] = "found again" /\ UNCHANGED <<entryVars, locks, mine, lapsed>>
      /\ holder \in [Getter -> Getter \cup {Nobody}] /\ locks \in [Key -> Getter \cup {Nobody}]
      /\ mine[c] \in Getter /\ mine[c] # Nobody /\ holder[mine[c]] = c
  BY DEF ReadAgain, LocksInv, LocksTyped, LockTaken, HoldsLock, InLock
<1>2. CASE Raise(c)
  BY <1>1, <1>2, UnchangedMiss, ReleaseLock DEF Raise, Step, InLock
<1>3. CASE /\ UNCHANGED holder
           /\ \E p \in {"again", "computing"} :
                pc' = [pc EXCEPT ![c] = p] /\ (p = "computing" => ~Valid(KeyOf[c]))
  <2>1. holder' = [holder EXCEPT ![mine[c]] = c]
    BY <1>1, <1>3
  <2> QED  BY <1>1, <1>3, <2>1, HoldsOn DEF InLock, InCompute
<1> QED  BY <1>2, <1>3 DEF ReadAgain, Step

-----------------------------------------------------------------------------
LEMMA EntriesInit == CacheInit => EntriesInv
<1> SUFFICES ASSUME CacheInit PROVE EntriesInv
  OBVIOUS
<1>1. cache = <<>> /\ used = <<>> /\ old = {} /\ ToSet(<<>>) = {} /\ IsInjective(<<>>)
  BY DEF CacheInit, ToSet, IsInjective
<1> QED  BY <1>1, CacheConstants DEF EntriesInv, EntriesTyped, InOrder

(* A key that is used comes last among the cached ones and in the history. *)
LEMMA MovedEntries ==
  ASSUME EntriesInv, NEW k \in Key, Cached(k),
         cache' = Moved(k), used' = ToEnd(used, k), UNCHANGED <<old, lapsed>>
  PROVE  EntriesInv' /\ ToSet(cache') = ToSet(cache)
<1>1. EntriesTyped /\ InOrder /\ k \in ToSet(cache) /\ k \in ToSet(used)
  BY DEF EntriesInv, EntriesTyped, Cached
<1>2. /\ cache' \in Seq(Key) /\ IsInjective(cache') /\ ToSet(cache') = ToSet(cache)
      /\ Len(cache') = Len(cache)
      /\ \A x, y : Before(cache', x, y)
                     <=> x # k /\ ((Before(cache, x, y) /\ y # k) \/ (x \in ToSet(cache) /\ y = k))
  <2>1. cache' = ToEnd(cache, k)
    BY DEF Moved
  <2>2. /\ ToEnd(cache, k) \in Seq(Key) /\ IsInjective(ToEnd(cache, k))
        /\ ToSet(ToEnd(cache, k)) = ToSet(cache) \cup {k} /\ Len(ToEnd(cache, k)) = Len(cache)
        /\ \A x, y : Before(ToEnd(cache, k), x, y)
                       <=> x # k /\ ((Before(cache, x, y) /\ y # k) \/ (x \in ToSet(cache) /\ y = k))
    BY <1>1, ToEndOrder DEF EntriesTyped
  <2>3. ToSet(cache) \cup {k} = ToSet(cache)
    BY <1>1
  <2> QED  BY <2>1, <2>2, <2>3
<1>3. /\ used' \in Seq(Key) /\ IsInjective(used') /\ ToSet(used') = ToSet(used)
      /\ \A x, y : Before(used', x, y)
                     <=> x # k /\ ((Before(used, x, y) /\ y # k) \/ (x \in ToSet(used) /\ y = k))
  <2>1. /\ ToEnd(used, k) \in Seq(Key) /\ IsInjective(ToEnd(used, k))
        /\ ToSet(ToEnd(used, k)) = ToSet(used) \cup {k}
        /\ \A x, y : Before(ToEnd(used, k), x, y)
                       <=> x # k /\ ((Before(used, x, y) /\ y # k) \/ (x \in ToSet(used) /\ y = k))
    BY <1>1, ToEndOrder DEF EntriesTyped
  <2>2. ToSet(used) \cup {k} = ToSet(used)
    BY <1>1
  <2> QED  BY <2>1, <2>2
<1>4. EntriesTyped'
  BY <1>1, <1>2, <1>3 DEF EntriesTyped
<1>5. ASSUME NEW x \in ToSet(cache) \ lapsed, NEW y \in ToSet(cache) \ lapsed, Before(cache', x, y)
      PROVE  Before(used', x, y)
  <2>1. x # k /\ ((Before(cache, x, y) /\ y # k) \/ y = k)
    BY <1>2, <1>5
  <2>2. Before(cache, x, y) => Before(used, x, y)
    BY <1>1 DEF InOrder
  <2>3. x \in ToSet(used)
    BY <1>1 DEF EntriesTyped
  <2> QED  BY <1>3, <2>1, <2>2, <2>3
<1>6. InOrder'
  BY <1>2, <1>5 DEF InOrder
<1> QED  BY <1>2, <1>4, <1>6 DEF EntriesInv

(* A key that is stored is in the cache, and is none that was dropped or   *)
(* is old; what it was stored over, or what it drove out, has lapsed.      *)
LEMMA AssignedEntries ==
  ASSUME EntriesInv, NEW k \in Key, Assign(k), lapsed' = lapsed \cup Dropped(k)
  PROVE  /\ EntriesInv'
         /\ \A j \in Key \ lapsed' : ~Valid(j)' => j # k /\ j \notin lapsed /\ ~Valid(j)
<1>1. /\ EntriesTyped /\ InOrder /\ cache' = Trimmed(Assigned(k))
      /\ old' = (old \ {k}) \cap ToSet(cache') /\ used' = ToEnd(used, k)
  BY DEF EntriesInv, Assign
<1>2. /\ used' \in Seq(Key) /\ IsInjective(used') /\ ToSet(used') = ToSet(used) \cup {k}
      /\ \A x, y : Before(used', x, y)
                     <=> x # k /\ ((Before(used, x, y) /\ y # k) \/ (x \in ToSet(used) /\ y = k))
  BY <1>1, ToEndOrder DEF EntriesTyped
<1>3. /\ cache' \in Seq(Key) /\ Len(cache') <= MaxSize /\ IsInjective(cache')
      /\ k \in ToSet(cache') /\ ToSet(cache') \subseteq ToSet(cache) \cup {k}
      /\ \A x, y : Before(cache', x, y) => Before(cache, x, y) \/ (~Cached(k) /\ x \in ToSet(cache) /\ y = k)
  <2>0. Len(cache) \in Nat /\ MaxSize \in Nat /\ MaxSize > 0
    BY <1>1, CacheConstants DEF EntriesTyped
  <2>1. CASE Cached(k)
    <3>1. cache' = cache
      BY <1>1, <2>0, <2>1 DEF EntriesTyped, Assigned, Trimmed
    <3> QED  BY <1>1, <2>1, <3>1 DEF EntriesTyped, Cached
  <2>2. CASE ~Cached(k)
    <3> DEFINE s == Append(cache, k)
    <3>1. /\ s \in Seq(Key) /\ Len(s) = Len(cache) + 1
          /\ IsInjective(s) /\ ToSet(s) = ToSet(cache) \cup {k}
          /\ \A x, y : Before(s, x, y) <=> Before(cache, x, y) \/ (x \in ToSet(cache) /\ y = k)
      BY <1>1, <2>2, AppendOrder DEF EntriesTyped, Cached
    <3>2. s # <<>> /\ s[Len(s)] = k
      BY <1>1 DEF EntriesTyped
    <3>3. cache' = Trimmed(s)
      BY <1>1, <2>2 DEF Assigned
    <3> HIDE DEF s
    <3>4. CASE Len(s) > MaxSize
      <4>1. cache' = Tail(s) /\ Len(s) > 1 /\ Len(s) - 1 <= MaxSize
        BY <1>1, <2>0, <3>1, <3>3, <3>4 DEF Trimmed, EntriesTyped
      <4>2. /\ Tail(s) \in Seq(Key) /\ Len(Tail(s)) = Len(s) - 1
            /\ IsInjective(Tail(s)) /\ ToSet(Tail(s)) \subseteq ToSet(s)
            /\ k \in ToSet(Tail(s))
            /\ \A x, y : Before(Tail(s), x, y) => Before(s, x, y)
        BY <3>1, <3>2, <4>1, TailOrder
      <4> QED  BY <2>2, <3>1, <4>1, <4>2
    <3>5. CASE ~(Len(s) > MaxSize)
      <4>1. cache' = s /\ Len(s) <= MaxSize
        BY <2>0, <3>1, <3>3, <3>5 DEF Trimmed
      <4> QED  BY <2>2, <3>1, <4>1
    <3> QED  BY <3>4, <3>5
  <2> QED  BY <2>1, <2>2
<1>4. EntriesTyped'
  BY <1>1, <1>2, <1>3 DEF EntriesTyped
<1>5. InOrder'
  <2> SUFFICES ASSUME NEW x \in ToSet(cache') \ lapsed', NEW y \in ToSet(cache') \ lapsed', Before(cache', x, y)
               PROVE  Before(used', x, y)
    BY DEF InOrder
  <2>1. Before(cache, x, y) \/ (~Cached(k) /\ x \in ToSet(cache) /\ y = k)
    BY <1>3
  <2>2. CASE Before(cache, x, y)
    <3>1. x \in ToSet(cache) /\ y \in ToSet(cache)
      BY <1>1, <2>2, BeforeIsAnOrder DEF EntriesTyped
    <3>2. x # k /\ y # k /\ x \notin lapsed /\ y \notin lapsed
      BY <3>1 DEF Dropped
    <3> QED  BY <1>1, <1>2, <2>2, <3>1, <3>2 DEF InOrder
  <2>3. CASE ~Cached(k) /\ x \in ToSet(cache) /\ y = k
    BY <1>1, <1>2, <2>3 DEF Cached, EntriesTyped
  <2> QED  BY <2>1, <2>2, <2>3
<1>6. ASSUME NEW j \in Key \ lapsed', ~Valid(j)' PROVE j # k /\ j \notin lapsed /\ ~Valid(j)
  <2>1. j \notin ToSet(cache') \/ j \in old'
    BY <1>6 DEF Valid, Cached
  <2>2. j # k /\ j \notin lapsed
    BY <1>1, <1>3, <2>1
  <2>3. j \in ToSet(cache) => j \in ToSet(cache')
    BY DEF Dropped
  <2> QED  BY <1>1, <2>1, <2>2, <2>3 DEF Valid, Cached
<1> QED  BY <1>4, <1>5, <1>6 DEF EntriesInv

LEMMA RemovedEntries ==
  ASSUME EntriesInv, NEW k \in Key,
         cache' = Without(cache, k), old' = old \ {k}, lapsed' = lapsed \cup {k}, UNCHANGED used
  PROVE  EntriesInv' /\ ToSet(cache') = ToSet(cache) \ {k}
<1>1. EntriesTyped /\ InOrder
  BY DEF EntriesInv
<1>2. /\ cache' \in Seq(Key) /\ IsInjective(cache') /\ ToSet(cache') = ToSet(cache) \ {k}
      /\ Len(cache') <= Len(cache)
      /\ \A x, y : Before(cache', x, y) => Before(cache, x, y)
  BY <1>1, WithoutOrder DEF EntriesTyped
<1>3. Len(cache') <= MaxSize
  BY <1>1, <1>2, CacheConstants DEF EntriesTyped
<1>4. EntriesTyped' /\ InOrder'
  BY <1>1, <1>2, <1>3 DEF EntriesTyped, InOrder
<1> QED  BY <1>2, <1>4 DEF EntriesInv

LEMMA AgedEntries ==
  ASSUME EntriesInv, UNCHANGED <<cache, used>>, old \subseteq old', old' \subseteq ToSet(cache), lapsed \subseteq lapsed'
  PROVE  EntriesInv'
BY DEF EntriesInv, EntriesTyped, InOrder

-----------------------------------------------------------------------------
CacheInv == EntriesInv /\ LocksInv

LEMMA EnterMoves ==
  ASSUME NEW c \in Getter, NEW from, NEW waiting, NEW to, Enter(c, from, waiting, to)
  PROVE  /\ pc[c] = from /\ UNCHANGED <<entryVars, lapsed>>
         /\ \E p \in {to, waiting, "raised"} : pc' = [pc EXCEPT ![c] = p]
BY DEF Enter, Taken, Step

LEMMA WokenMoves ==
  ASSUME NEW c \in Getter, NEW waiting, NEW to, Woken(c, waiting, to)
  PROVE  pc[c] = waiting /\ UNCHANGED <<entryVars, lockVars, lapsed>> /\ pc' = [pc EXCEPT ![c] = to]
BY DEF Woken, Taken, Step

(* Steps that change neither the entries nor the locks.                    *)
LEMMA WalkInv ==
  ASSUME CacheInv, NEW c \in Getter,
         \/ Look(c) \/ Read(c) \/ EnterHit(c) \/ EnterMiss(c)
         \/ WokenHit(c) \/ WokenMiss(c) \/ WokenAgain(c) \/ WokenStore(c)
  PROVE  CacheInv'
<1>1. UNCHANGED <<entryVars, lockVars, lapsed>>
  BY EnterMoves, WokenMoves DEF Look, Read, EnterHit, EnterMiss, WokenHit, WokenMiss, WokenAgain, WokenStore
<1>2. EntriesInv'
  BY <1>1 DEF CacheInv, EntriesInv, EntriesTyped, InOrder, entryVars
<1>3. PICK p \in CachePlace :
        /\ pc' = [pc EXCEPT ![c] = p]
        /\ \/ pc[c] \in Nameless /\ p \in Nameless \cup {"moving", "raised"}
           \/ pc[c] \in InLock /\ p \in InLock \cup {"moving"} /\ (p \in InCompute => pc[c] \in InCompute)
  <2> USE DEF CachePlace, Nameless, InLock, InCompute
  <2>1. CASE Look(c) \/ Read(c)
    BY <2>1 DEF Look, Read, Step
  <2>2. CASE EnterHit(c)
    <3>1. pc[c] = "hit" /\ \E p \in {"moving", "hit waiting", "raised"} : pc' = [pc EXCEPT ![c] = p]
      BY <2>2, EnterMoves DEF EnterHit
    <3> QED  BY <3>1
  <2>3. CASE EnterMiss(c)
    <3>1. pc[c] = "miss" /\ \E p \in {"naming", "miss waiting", "raised"} : pc' = [pc EXCEPT ![c] = p]
      BY <2>3, EnterMoves DEF EnterMiss
    <3> QED  BY <3>1
  <2>4. CASE WokenHit(c) \/ WokenMiss(c) \/ WokenAgain(c) \/ WokenStore(c)
    BY <2>4, WokenMoves DEF WokenHit, WokenMiss, WokenAgain, WokenStore
  <2> QED  BY <2>1, <2>2, <2>3, <2>4
<1>4. LocksInv'
  BY <1>1, <1>3, SameLock DEF CacheInv
<1> QED  BY <1>2, <1>4 DEF CacheInv

(* Waiting for _access_lock under the lock of a key.                       *)
LEMMA EnterInLockInv ==
  ASSUME CacheInv, NEW c \in Getter, EnterAgain(c) \/ EnterStore(c) PROVE CacheInv'
<1>1. /\ UNCHANGED <<entryVars, lapsed, locks, mine>> /\ LocksInv
      /\ pc[c] \in {"again", "computing"}
      /\ holder' = IF pc'[c] = "raised" THEN Unlocked(c) ELSE holder
  BY EnterMoves DEF EnterAgain, EnterStore, EnterUnder, CacheInv
<1>2. EntriesInv'
  BY <1>1 DEF CacheInv, EntriesInv, EntriesTyped, InOrder, entryVars
<1>3. PICK p : /\ pc' = [pc EXCEPT ![c] = p]
               /\ \/ pc[c] = "again" /\ p \in {"moving", "again waiting", "raised"}
                  \/ pc[c] = "computing" /\ p \in {"storing", "store waiting", "raised"}
  BY EnterMoves DEF EnterAgain, EnterStore, EnterUnder
<1>4. pc'[c] = p /\ mine[c] # Nobody /\ locks \in [Key -> Getter \cup {Nobody}]
  BY <1>1, <1>3 DEF LocksInv, LocksTyped, LockTaken, InLock
<1>5. NoNewMiss /\ lapsed \cap Key \subseteq lapsed'
  BY <1>1, UnchangedMiss
<1>6. CASE p = "raised"
  <2>1. /\ pc[c] \in InLock \cup {"moving"} /\ pc' = [pc EXCEPT ![c] = "raised"]
        /\ holder' = IF mine[c] # Nobody THEN Unlocked(c) ELSE holder
        /\ locks' \in [Key -> Getter \cup {Nobody}] /\ UNCHANGED mine
    BY <1>1, <1>3, <1>4, <1>6 DEF InLock
  <2> QED  BY <1>1, <1>2, <1>5, <2>1, ReleaseLock DEF CacheInv
<1>7. CASE p # "raised"
  <2>1. UNCHANGED lockVars
    BY <1>1, <1>4, <1>7 DEF lockVars
  <2>2. /\ p \in CachePlace /\ pc[c] \in InLock /\ p \in InLock \cup {"moving"}
        /\ (p \in InCompute => pc[c] \in InCompute)
    BY <1>3, <1>7 DEF CachePlace, InLock, InCompute
  <2> QED  BY <1>1, <1>2, <1>3, <2>1, <2>2, SameLock DEF CacheInv
<1> QED  BY <1>2, <1>6, <1>7 DEF CacheInv

LEMMA MoveToEndInv == ASSUME CacheInv, NEW c \in Getter, MoveToEnd(c) PROVE CacheInv'
<1> DEFINE k == KeyOf[c]
<1>1. /\ EntriesInv /\ LocksInv /\ k \in Key /\ pc[c] = "moving"
      /\ UNCHANGED <<old, locks, mine, lapsed>>
      /\ \/ Cached(k) /\ cache' = Moved(k) /\ used' = ToEnd(used, k) /\ Leave(c, "returned")
         \/ ~Cached(k) /\ UNCHANGED <<cache, used>> /\ Leave(c, "raised")
  BY CacheConstants DEF MoveToEnd, CacheInv
<1>2. EntriesInv' /\ ToSet(cache') = ToSet(cache)
  <2>1. CASE Cached(k) /\ cache' = Moved(k) /\ used' = ToEnd(used, k)
    BY <1>1, <2>1, MovedEntries
  <2>2. CASE UNCHANGED <<cache, used>>
    BY <1>1, <2>2 DEF EntriesInv, EntriesTyped, InOrder
  <2> QED  BY <1>1, <2>1, <2>2
<1>3. NoNewMiss
  BY <1>1, <1>2 DEF NoNewMiss, Valid, Cached
<1>4. PICK p \in {"returned", "raised"} : Leave(c, p)
  BY <1>1
<1>5. locks' \in [Key -> Getter \cup {Nobody}]
  BY <1>1 DEF LocksInv, LocksTyped
<1>6. LocksInv'
  BY <1>1, <1>3, <1>4, <1>5, ReleaseLock DEF Leave, Step
<1> QED  BY <1>2, <1>6 DEF CacheInv

LEMMA ComputeFailsInv == ASSUME CacheInv, NEW c \in Getter, ComputeFails(c) PROVE CacheInv'
<1>1. /\ EntriesInv /\ LocksInv /\ pc[c] = "computing" /\ pc' = [pc EXCEPT ![c] = "raised"]
      /\ holder' = Unlocked(c) /\ UNCHANGED <<entryVars, locks, mine, lapsed>>
  BY DEF ComputeFails, Raise, CacheInv, Step
<1>2. mine[c] # Nobody /\ locks \in [Key -> Getter \cup {Nobody}]
  BY <1>1 DEF LocksInv, LocksTyped, LockTaken, InLock
<1>3. LocksInv'
  BY <1>1, <1>2, UnchangedMiss, ReleaseLock DEF InLock
<1>4. EntriesInv'
  BY <1>1 DEF EntriesInv, EntriesTyped, InOrder, entryVars
<1> QED  BY <1>3, <1>4 DEF CacheInv

LEMMA StoreInv == ASSUME CacheInv, NEW c \in Getter, Store(c) PROVE CacheInv'
<1> DEFINE k == KeyOf[c]
<1>1. /\ EntriesInv /\ LocksInv /\ k \in Key /\ pc[c] = "storing" /\ Assign(k)
      /\ lapsed' = lapsed \cup Dropped(k) /\ locks' = LockPopped(k) /\ Leave(c, "returned")
      /\ UNCHANGED mine
  BY CacheConstants DEF Store, CacheInv
<1>2. /\ EntriesInv'
      /\ \A j \in Key \ lapsed' : ~Valid(j)' => j # k /\ j \notin lapsed /\ ~Valid(j)
  BY <1>1, AssignedEntries
<1>3. /\ locks' \in [Key -> Getter \cup {Nobody}]
      /\ \A j \in Key : j # k => locks'[j] = locks[j]
  BY <1>1 DEF LockPopped, LocksInv, LocksTyped
<1>4. NoNewMiss /\ lapsed \cap Key \subseteq lapsed'
  BY <1>1, <1>2, <1>3 DEF NoNewMiss
<1>5. LocksInv'
  BY <1>1, <1>3, <1>4, ReleaseLock DEF Leave, Step, InLock
<1> QED  BY <1>2, <1>5 DEF CacheInv

(* set, invalidate, clear, and the passing of time.                        *)
LEMMA OtherCallInv == ASSUME CacheInv, set \/ invalidate \/ clear \/ Expire PROVE CacheInv'
<1>0. /\ EntriesInv /\ LocksInv /\ UNCHANGED <<holder, mine, pc>>
      /\ locks \in [Key -> Getter \cup {Nobody}]
  BY DEF CacheInv, LocksInv, LocksTyped, set, invalidate, clear, Expire, Call
<1> SUFFICES EntriesInv' /\ NoNewMiss /\ lapsed \cap Key \subseteq lapsed' /\ locks' \in [Key -> Getter \cup {Nobody}]
  BY <1>0, OtherCall DEF CacheInv
<1>1. CASE set
  <2>1. PICK k \in Key : Assign(k) /\ lapsed' = lapsed \cup Dropped(k) /\ UNCHANGED locks
    BY <1>1 DEF set
  <2> QED  BY <1>0, <2>1, AssignedEntries DEF NoNewMiss
<1>2. CASE invalidate
  <2>1. PICK k \in Key : /\ cache' = Without(cache, k) /\ old' = old \ {k}
                         /\ lapsed' = lapsed \cup {k} /\ UNCHANGED <<used, locks>>
    BY <1>2 DEF invalidate
  <2>2. EntriesInv' /\ ToSet(cache') = ToSet(cache) \ {k}
    BY <1>0, <2>1, RemovedEntries
  <2>3. NoNewMiss
    BY <2>1, <2>2 DEF NoNewMiss, Valid, Cached
  <2> QED  BY <1>0, <2>1, <2>2, <2>3
<1>3. CASE clear
  <2>1. /\ cache' = <<>> /\ old' = {} /\ lapsed' = Key /\ used' = used
        /\ locks' = [k \in Key |-> Nobody]
    BY <1>3 DEF clear
  <2>2. ToSet(<<>>) = {} /\ IsInjective(<<>>)
    BY DEF ToSet, IsInjective
  <2>3. EntriesInv'
    <3>1. ToSet(cache') = {} /\ IsInjective(cache') /\ cache' \in Seq(Key) /\ Len(cache') <= MaxSize
      BY <2>1, <2>2, CacheConstants
    <3>2. used' \in Seq(Key) /\ IsInjective(used')
      BY <1>0, <2>1 DEF EntriesInv, EntriesTyped
    <3> QED  BY <2>1, <3>1, <3>2 DEF EntriesInv, EntriesTyped, InOrder
  <2> QED  BY <1>0, <2>1, <2>3 DEF NoNewMiss
<1>4. CASE Expire
  <2>1. PICK k \in ToSet(cache) \ old : /\ old' = old \cup {k} /\ lapsed' = lapsed \cup {k}
                                        /\ UNCHANGED <<cache, used, locks>>
    BY <1>4 DEF Expire
  <2>2. EntriesInv'
    BY <1>0, <2>1, AgedEntries DEF EntriesInv, EntriesTyped
  <2>3. NoNewMiss
    BY <2>1 DEF NoNewMiss, Valid, Cached
  <2> QED  BY <1>0, <2>1, <2>2, <2>3
<1> QED  BY <1>1, <1>2, <1>3, <1>4

LEMMA CacheNextInv == CacheInv /\ [CacheNext]_cacheVars => CacheInv'
<1> SUFFICES ASSUME CacheInv, [CacheNext]_cacheVars PROVE CacheInv'
  OBVIOUS
<1>1. ASSUME NEW c \in Getter, Hit(c) \/ Miss(c) \/ Woke(c) PROVE CacheInv'
  <2>1. CASE FindLock(c) \/ Lock(c) \/ WokenKey(c) \/ ReadAgain(c)
    <3>1. LocksInv' /\ UNCHANGED <<entryVars, lapsed>>
      BY <2>1, FindLockInv, LockStepInv, ReadAgainInv DEF CacheInv, FindLock, Lock, WokenKey, ReadAgain
    <3>2. EntriesInv'
      BY <3>1 DEF CacheInv, EntriesInv, EntriesTyped, InOrder, entryVars
    <3> QED  BY <3>1, <3>2 DEF CacheInv
  <2>2. CASE Look(c) \/ Read(c) \/ EnterHit(c) \/ EnterMiss(c) \/ (Woke(c) /\ ~WokenKey(c))
    BY <2>2, WalkInv DEF Woke
  <2>3. CASE EnterAgain(c) \/ EnterStore(c)
    BY <2>3, EnterInLockInv
  <2>4. CASE MoveToEnd(c) \/ ComputeFails(c) \/ Store(c)
    BY <2>4, MoveToEndInv, ComputeFailsInv, StoreInv
  <2> QED  BY <1>1, <2>1, <2>2, <2>3, <2>4 DEF Hit, Miss
<1>2. CASE UNCHANGED cacheVars
  <2>1. UNCHANGED <<entryVars, holder, mine, pc, locks, lapsed>>
    BY <1>2 DEF cacheVars, lockVars
  <2>2. EntriesInv'
    BY <2>1 DEF CacheInv, EntriesInv, EntriesTyped, InOrder, entryVars
  <2>3. LocksInv'
    BY <2>1, UnchangedMiss, OtherCall DEF CacheInv, LocksInv, LocksTyped
  <2> QED  BY <2>2, <2>3 DEF CacheInv
<1> QED  BY <1>1, <1>2, OtherCallInv DEF CacheNext, Done

LEMMA CacheInvAlways == CacheSpec => []CacheInv
<1>1. CacheInit => CacheInv
  BY EntriesInit, LocksInit DEF CacheInv
<1> QED  BY <1>1, CacheNextInv, PTL DEF CacheSpec

(* However many coroutines ask for a key, on one loop or on several: its   *)
(* value is computed by one of them at a time, unless the key has lapsed   *)
(* (AsyncLRUCache.get).                                                    *)
THEOREM SingleFlightAlways == CacheSpec => []SingleFlight
<1>1. CacheInv => SingleFlight
  <2> SUFFICES ASSUME CacheInv, NEW k \in Key \ lapsed PROVE Cardinality(Computing(k)) <= 1
    BY DEF SingleFlight
  <2>1. \A c, d \in Computing(k) : c = d
    BY DEF CacheInv, LocksInv, OneComputes
  <2>2. CASE Computing(k) = {}
    BY <2>2, FS_EmptySet
  <2>3. CASE Computing(k) # {}
    <3>0. PICK c : c \in Computing(k)
      BY <2>3
    <3>1. Computing(k) = {c}
      BY <2>1, <3>0
    <3>2. Cardinality({c}) = 1
      BY FS_Singleton
    <3> QED  BY <3>1, <3>2
  <2> QED  BY <2>2, <2>3
<1> QED  BY <1>1, CacheInvAlways, PTL

(* The cache is never larger than maxsize, and its entries stand in the    *)
(* order of their last use, so that popitem drops the least recently used  *)
(* one, for keys that were not assigned again (get, set).                  *)
THEOREM RecencyAlways == CacheSpec => []Recency
<1>1. CacheInv => Recency
  <2> SUFFICES ASSUME CacheInv PROVE Recency
    OBVIOUS
  <2>1. EntriesTyped /\ InOrder
    BY DEF CacheInv, EntriesInv
  <2>2. ASSUME NEW x \in Key, NEW y \in Key, Regular(x), Regular(y)
        PROVE  Before(cache, x, y) <=> Before(used, x, y)
    <3>1. /\ x \in ToSet(cache) \ lapsed /\ y \in ToSet(cache) \ lapsed
      BY <2>2 DEF Regular, Cached
    <3>2. Before(cache, x, y) => Before(used, x, y)
      BY <2>1, <3>1 DEF InOrder
    <3>3. Before(cache, y, x) => Before(used, y, x)
      BY <2>1, <3>1 DEF InOrder
    <3>4. Before(used, x, y) => x # y /\ ~Before(used, y, x)
      BY <2>1, BeforeIsAnOrder DEF EntriesTyped
    <3>5. x # y => Before(cache, x, y) \/ Before(cache, y, x)
      BY <2>1, <3>1, BeforeIsAnOrder DEF EntriesTyped
    <3> QED  BY <3>2, <3>3, <3>4, <3>5
  <2> QED  BY <2>1, <2>2 DEF Recency, EntriesTyped
<1> QED  BY <1>1, CacheInvAlways, PTL

-----------------------------------------------------------------------------
(* Who holds a lock is on its way to release it, whatever fails or raises: *)
(* the locks of keys, which a coroutine holds through several awaits, and  *)
(* _access_lock.                                                           *)
InAccess == {"naming", "moving", "storing"}

HolderInside == \A l, c \in Getter : holder[l] = c => mine[c] = l /\ pc[c] \in InLock \cup {"moving"}
AccessInside == \A c \in Getter : access = c <=> pc[c] \in InAccess

InsideInv == HolderInside /\ AccessInside

(* What a step of c that ends in place p may do to the locks.              *)
AccessStep(c, p) ==
  \/ p \in InAccess /\ access' = c /\ access \in {Nobody, c}
  \/ p \notin InAccess /\ access # c /\ access' = access
  \/ p \notin InAccess /\ access = c /\ access' = Nobody

KeyLockStep(c, p) ==
  \/ mine' = mine /\ holder' = holder /\ pc[c] \in InLock \cup {"moving"} /\ p \in InLock \cup {"moving"}
  \/ mine' = mine /\ holder' = holder /\ (pc[c] \notin InLock \cup {"moving"} \/ mine[c] = Nobody)
  \/ mine' = mine /\ mine[c] # Nobody /\ holder' = Unlocked(c)
  \/ mine' = mine /\ mine[c] # Nobody /\ p \in InLock /\ holder' = [holder EXCEPT ![mine[c]] = c]
  \/ mine' = [mine EXCEPT ![c] = LockFor(c)] /\ pc[c] = "naming" /\ holder' = holder

LEMMA StepKeepsInside ==
  ASSUME CacheInv, InsideInv, NEW c \in Getter, NEW p \in CachePlace,
         pc' = [pc EXCEPT ![c] = p], AccessStep(c, p), KeyLockStep(c, p)
  PROVE  InsideInv'
<1>1. /\ pc \in [Getter -> CachePlace] /\ mine \in [Getter -> Getter \cup {Nobody}]
      /\ holder \in [Getter -> Getter \cup {Nobody}] /\ Nobody \notin Getter
  BY CacheConstants DEF CacheInv, LocksInv, LocksTyped
<1>2. pc'[c] = p /\ \A d \in Getter \ {c} : pc'[d] = pc[d]
  BY <1>1
<1>3. AccessInside'
  BY <1>1, <1>2 DEF InsideInv, AccessInside, AccessStep
<1>4. HolderInside'
  <2> SUFFICES ASSUME NEW l \in Getter, NEW d \in Getter, holder'[l] = d
               PROVE  mine'[d] = l /\ pc'[d] \in InLock \cup {"moving"}
    BY DEF HolderInside
  <2> USE <1>1, <1>2 DEF InsideInv, HolderInside
  <2>1. CASE /\ mine' = mine /\ holder' = holder
             /\ \/ pc[c] \in InLock \cup {"moving"} /\ p \in InLock \cup {"moving"}
                \/ pc[c] \notin InLock \cup {"moving"} \/ mine[c] = Nobody
    BY <2>1
  <2>2. CASE mine' = mine /\ mine[c] # Nobody /\ holder' = Unlocked(c)
    <3>1. l # mine[c] /\ holder[l] = d
      BY <2>2 DEF Unlocked
    <3> QED  BY <2>2, <3>1
  <2>3. CASE mine' = mine /\ mine[c] # Nobody /\ p \in InLock /\ holder' = [holder EXCEPT ![mine[c]] = c]
    BY <2>3
  <2>4. CASE mine' = [mine EXCEPT ![c] = LockFor(c)] /\ pc[c] = "naming" /\ holder' = holder
    <3>1. holder[l] = d /\ d # c
      BY <2>4 DEF InLock
    <3> QED  BY <2>4, <3>1
  <2> QED  BY <2>1, <2>2, <2>3, <2>4 DEF KeyLockStep
<1> QED  BY <1>3, <1>4 DEF InsideInv

LEMMA InsideNext == CacheInv /\ InsideInv /\ [CacheNext]_cacheVars => InsideInv'
<1> SUFFICES ASSUME CacheInv, InsideInv, [CacheNext]_cacheVars PROVE InsideInv'
  OBVIOUS
<1>1. ASSUME NEW c \in Getter, Hit(c) \/ Miss(c) \/ Woke(c) PROVE InsideInv'
  <2> SUFFICES \E p \in CachePlace : pc' = [pc EXCEPT ![c] = p] /\ AccessStep(c, p) /\ KeyLockStep(c, p)
    BY StepKeepsInside
  <2>0. /\ Nobody \notin Getter /\ (access = c <=> pc[c] \in InAccess)
        /\ pc[c] \in Nameless => mine[c] = Nobody
        /\ pc[c] \in Queueing \cup InLock => mine[c] # Nobody
        /\ pc \in [Getter -> CachePlace]
    BY CacheConstants DEF InsideInv, AccessInside, CacheInv, LocksInv, LocksTyped, LockTaken
  <2> USE <2>0 DEF InAccess, InLock, Nameless, Queueing, CachePlace, AccessStep, KeyLockStep
  <2>1. CASE Look(c) \/ Read(c)
    BY <2>1 DEF Look, Read, lockVars, Step
  <2>2. CASE EnterHit(c) \/ EnterMiss(c)
    BY <2>2 DEF EnterHit, EnterMiss, Enter, Taken, Step, lockVars
  <2>3. CASE Woke(c) /\ ~WokenKey(c)
    BY <2>3 DEF Woke, WokenHit, WokenMiss, WokenAgain, WokenStore, Woken, Taken, Step, lockVars
  <2>4. CASE FindLock(c)
    BY <2>4 DEF FindLock, Step
  <2>5. CASE Lock(c) \/ WokenKey(c)
    BY <2>5 DEF Lock, WokenKey, TakeKey, Step
  <2>6. CASE EnterAgain(c) \/ EnterStore(c)
    <3>1. PICK p \in {"moving", "storing", "again waiting", "store waiting", "raised"} :
            /\ pc' = [pc EXCEPT ![c] = p] /\ pc[c] \in {"again", "computing"} /\ mine' = mine
            /\ \/ p \in InAccess /\ access = Nobody /\ access' = c
               \/ p \notin InAccess /\ access' = access
            /\ holder' = IF pc'[c] = "raised" THEN Unlocked(c) ELSE holder
      BY <2>6 DEF EnterAgain, EnterStore, EnterUnder, Enter, Taken, Step
    <3>2. pc'[c] = p
      BY <3>1
    <3>3. KeyLockStep(c, p)
      BY <3>1, <3>2
    <3>4. AccessStep(c, p)
      BY <3>1
    <3> QED  BY ONLY <3>1, <3>3, <3>4 DEF CachePlace, InLock
  <2>7. CASE ComputeFails(c) \/ ReadAgain(c)
    BY <2>7 DEF ComputeFails, ReadAgain, Raise, Step
  <2>8. CASE MoveToEnd(c) \/ Store(c)
    BY <2>8 DEF MoveToEnd, Store, Leave, Step
  <2> QED  BY <1>1, <2>1, <2>2, <2>3, <2>4, <2>5, <2>6, <2>7, <2>8 DEF Hit, Miss
<1>2. CASE UNCHANGED cacheVars \/ set \/ invalidate \/ clear \/ Expire
  <2>1. UNCHANGED <<holder, mine, access, pc>>
    BY <1>2 DEF cacheVars, lockVars, set, invalidate, clear, Expire, Call
  <2> QED  BY <2>1 DEF InsideInv, HolderInside, AccessInside
<1> QED  BY <1>1, <1>2 DEF CacheNext, Done

(* A get that has ended, by a return, a KeyError, a failed value_func or a *)
(* lock of another loop, holds no lock: what a waiter waits for is held by *)
(* a coroutine that is still at work, or released.  And no two coroutines, *)
(* of one loop or of two, are inside _access_lock at once.                 *)
LocksReleased ==
  /\ \A c \in Getter : pc[c] \in {"returned", "raised"} => access # c /\ \A l \in Getter : holder[l] # c
  /\ \A c, d \in Getter : pc[c] \in InAccess /\ pc[d] \in InAccess => c = d

THEOREM LocksReleasedAlways == CacheSpec => []LocksReleased
<1>1. CacheInit => InsideInv
  BY CacheConstants DEF CacheInit, InsideInv, HolderInside, AccessInside, InAccess
<1>2. InsideInv => LocksReleased
  BY DEF InsideInv, HolderInside, AccessInside, LocksReleased, InAccess, InLock
<1> QED  BY <1>1, <1>2, InsideNext, CacheInvAlways, PTL DEF CacheSpec
=============================================================================
