---------------------------- MODULE Portal_proofs ----------------------------
(***************************************************************************)
(* Proofs about pages of the portal that have state beside the server's,   *)
(* for any values of the constants.                                        *)
(* First the configuration wizard of a chaos engine: the form of a probe   *)
(* is never told which probe it edits but follows the list by an effect,   *)
(* which is due at some changes of the list and not at others.  Then the   *)
(* session: the project and the role a user sees follow the address,       *)
(* redirects and answers that come late.  Then the page of a run: what is  *)
(* selected is known to the graph, to the store and to the logs.  Last the *)
(* form of a schedule, alone and in the page that edits a schedule.        *)
(***************************************************************************)
EXTENDS EditSchedule, EngineTuning, PortalSession, RunDetails, FiniteSetTheorems, TLAPS

Val == Values \cup {0, 1}

\* A probe of an engine has a number; the blank one of the form has none.
Probe  == [of : Nat, type : ProbeTypes \cup {"httpProbe", "cmdProbe"},
           has : SUBSET {"inputs", "url", "method"}]
Listed == {p \in Probe : p.of # 0}
Engine == [appinfo : {NoTarget} \cup {<<v>> : v \in Val}, probes : Seq(Listed), env : Val, advance : Val]

Steadies == [at : {"steady"}, index : {1, 2}, probes : Seq(Listed), selected : Nat,
             open : BOOLEAN, edit : BOOLEAN, adding : BOOLEAN, draft : Probe, httpData : BOOLEAN]
Fields   == [at : {"target", "env"}, index : {1, 2}, value : Val]
Advances == [at : {"advance"}, index : {1, 2}, on : BOOLEAN, value : Val]
Options  == [at : {"options"}, index : {0}, on : BOOLEAN, value : Val]

Steps == {"target", "steady", "env", "advance"}

\* The form has the selected probe, whenever it is not open to add one and
\* there are probes.
Follows(p) == p.selected \in DOMAIN p.probes /\ p.draft.of = p.probes[p.selected].of

Opened(p) ==
  /\ p.adding <=> p.open /\ ~ p.edit
  /\ p.adding => Len(p.probes) < MaxProbes
  /\ p.open /\ p.edit => p.probes # <<>>

Holds(p) == Opened(p) /\ (~ p.adding /\ p.probes # <<>> => Follows(p))

TuningInv ==
  /\ engines \in [{1, 2} -> Engine] /\ options \in Val
  /\ stepper \in {TuneTable, Crashed} \cup Steadies \cup Fields \cup Advances \cup Options
  /\ stepper.at \in Steps =>
       engineYAML \in Engine /\ HasTarget(engineYAML) = HasTarget(engines[stepper.index])
  /\ stepper.at = "target" => HasTarget(engineYAML)
  /\ stepper.at = "steady" => Holds(stepper)

\* What a step of the wizard may leave the steady-state page at.
Goes(p, i) == \/ p = Crashed
              \/ p \in Steadies /\ p.index = i /\ Holds(p)

\* What a step may leave the wizard at, while it is open.
GoesOn(p, i) == \/ p = Crashed
                \/ /\ p \in Steadies \cup Fields \cup Advances
                   /\ p.index = i /\ (p.at = "steady" => Holds(p))

EditStep == Edit!EditNext \/ UNCHANGED <<engines, stepper.index>>

LEMMA Constants ==
  /\ BlankProbe \in Probe /\ BlankProbe.of = 0
  /\ CmdProbe \in Listed
  /\ Engines \in [{1, 2} -> Engine] /\ DOMAIN Engines = {1, 2}
  /\ 0 \in Val /\ 1 \in Val
<1>1. BlankProbe \in Probe /\ BlankProbe.of = 0
  BY DEF BlankProbe, Probe
<1>2. CmdProbe \in Probe /\ CmdProbe.of = 1
  BY DEF CmdProbe, Probe
<1>3. CmdProbe \in Listed
  BY <1>2 DEF Listed
<1>4. 0 \in Val /\ 1 \in Val
  BY DEF Val
<1>5. <<CmdProbe>> \in Seq(Listed) /\ <<>> \in Seq(Listed)
  BY <1>3
<1> DEFINE e1 == [appinfo |-> <<1>>, probes |-> <<>>, env |-> 0, advance |-> 0]
           e2 == [appinfo |-> NoTarget, probes |-> <<CmdProbe>>, env |-> 0, advance |-> 0]
<1>6. e1 \in Engine
  BY <1>4, <1>5 DEF Engine
<1>7. e2 \in Engine
  BY <1>4, <1>5 DEF Engine
<1>8. Engines = <<e1, e2>>
  BY DEF Engines
<1> HIDE DEF e1, e2
<1>9. Engines \in [{1, 2} -> Engine] /\ DOMAIN Engines = {1, 2}
  BY <1>6, <1>7, <1>8
<1> QED
  BY <1>1, <1>3, <1>4, <1>9

LEMMA SteadyTypes ==
  ASSUME NEW p \in Steadies
  PROVE  /\ p.at = "steady" /\ p.index \in {1, 2} /\ p.probes \in Seq(Listed)
         /\ p.selected \in Nat /\ p.draft \in Probe /\ p.draft.of \in Nat
         /\ p.open \in BOOLEAN /\ p.edit \in BOOLEAN /\ p.adding \in BOOLEAN
         /\ p.httpData \in BOOLEAN
BY DEF Steadies, Probe

LEMMA ListedOf ==
  ASSUME NEW q \in Seq(Listed), NEW k \in DOMAIN q
  PROVE  q[k] \in Probe /\ q[k].of \in Nat /\ q[k].of # 0
<1>1. q[k] \in Listed
  OBVIOUS
<1> QED
  BY <1>1 DEF Listed, Probe

\* The form's effect gives it the selected probe.
LEMMA ReloadOf ==
  ASSUME NEW p \in Steadies, Opened(p)
  PROVE  Goes(Reload(p), p.index)
<1>1. /\ p.index \in {1, 2} /\ p.probes \in Seq(Listed) /\ p.draft \in Probe
  BY SteadyTypes
<1>2. CASE p.probes = <<>>
  <2>1. Reload(p) = p
    BY <1>2 DEF Reload
  <2> QED
    BY <1>2, <2>1 DEF Goes, Holds
<1>3. CASE p.probes # <<>> /\ p.selected \notin DOMAIN p.probes
  BY <1>3 DEF Reload, Goes
<1>4. CASE p.probes # <<>> /\ p.selected \in DOMAIN p.probes
  <2>1. PICK d : d = IF p.adding THEN BlankProbe ELSE p.probes[p.selected]
    OBVIOUS
  <2>2. d \in Probe
    BY <1>1, <1>4, <2>1, Constants, ListedOf
  <2>3. PICK q : q = [p EXCEPT !.draft = d]
    OBVIOUS
  <2>4. Reload(p) = q
    BY <1>4, <2>1, <2>3 DEF Reload
  <2>5. q \in Steadies
    BY <2>2, <2>3 DEF Steadies
  <2>6. /\ q.index = p.index /\ q.probes = p.probes /\ q.selected = p.selected /\ q.draft = d
        /\ q.open = p.open /\ q.edit = p.edit /\ q.adding = p.adding
    BY <2>3 DEF Steadies
  <2>7. Opened(q)
    BY <2>6 DEF Opened
  <2>8. ~ p.adding => Follows(q)
    BY <1>4, <2>1, <2>6 DEF Follows
  <2>9. Holds(q)
    BY <2>6, <2>7, <2>8 DEF Holds
  <2> QED
    BY <2>4, <2>5, <2>6, <2>9 DEF Goes
<1> QED
  BY <1>2, <1>3, <1>4

LEMMA ShownOf ==
  ASSUME NEW p, NEW i, Goes(p, i)
  PROVE  Goes(Shown(p), i)
BY DEF Goes, Shown

LEMMA PageTypes ==
  ASSUME NEW p \in {TuneTable, Crashed} \cup Steadies \cup Fields \cup Advances \cup Options
  PROVE  /\ p.at = "steady" => p \in Steadies
         /\ p.at \in {"target", "env"} => p \in Fields
         /\ p.at = "advance" => p \in Advances
         /\ p.at = "options" => p \in Options
         /\ p.at \in Steps => p.index \in {1, 2}
         /\ p.at \notin Steps => p.index = 0
<1>1. CASE p \in Steadies
  BY <1>1 DEF Steadies, Steps
<1>2. CASE p \in Fields
  BY <1>2 DEF Fields, Steps
<1>3. CASE p \in Advances
  BY <1>3 DEF Advances, Steps
<1>4. CASE p \in Options
  BY <1>4 DEF Options, Steps
<1>5. CASE p \in {TuneTable, Crashed}
  BY <1>5 DEF TuneTable, Crashed, Steps
<1> QED
  BY <1>1, <1>2, <1>3, <1>4, <1>5

LEMMA FieldsOf ==
  ASSUME NEW at \in {"target", "env"}, NEW i \in {1, 2}, NEW v \in Val
  PROVE  LET q == [at |-> at, index |-> i, value |-> v] IN
         q \in Fields /\ q.at = at /\ q.index = i /\ q.value = v
BY DEF Fields

LEMMA EngineTypes ==
  ASSUME NEW e \in Engine
  PROVE  /\ e.probes \in Seq(Listed) /\ e.env \in Val /\ e.advance \in Val
         /\ HasTarget(e) => e.appinfo[1] \in Val
<1>1. e.appinfo \in {NoTarget} \cup {<<v>> : v \in Val}
  BY DEF Engine
<1>2. HasTarget(e) => \E v \in Val : e.appinfo = <<v>>
  BY <1>1 DEF HasTarget
<1>3. e.probes \in Seq(Listed) /\ e.env \in Val /\ e.advance \in Val
  BY DEF Engine
<1> QED
  BY <1>2, <1>3

LEMMA MountedOf ==
  ASSUME NEW e \in Engine, NEW i \in {1, 2}, NEW at \in Steps, at = "target" => HasTarget(e)
  PROVE  LET q == MountedStep(at, i, e) IN
         GoesOn(q, i) /\ (q.at = "target" => at = "target")
<1>1. CASE at = "target"
  <2>1. MountedStep(at, i, e) = [at |-> "target", index |-> i, value |-> e.appinfo[1]]
    BY <1>1 DEF MountedStep
  <2> QED
    BY <1>1, <2>1, FieldsOf, EngineTypes DEF GoesOn
<1>2. CASE at = "env"
  <2>1. MountedStep(at, i, e) = [at |-> "env", index |-> i, value |-> e.env]
    BY <1>2 DEF MountedStep
  <2> QED
    BY <2>1, FieldsOf, EngineTypes DEF GoesOn
<1>3. CASE at = "advance"
  <2>1. PICK on \in BOOLEAN : on = (e.advance # 0)
    OBVIOUS
  <2>2. PICK q : q = [at |-> "advance", index |-> i, on |-> on, value |-> e.advance]
    OBVIOUS
  <2>3. MountedStep(at, i, e) = q
    BY <1>3, <2>1, <2>2 DEF MountedStep
  <2>4. q \in Advances /\ q.at = "advance" /\ q.index = i
    BY <2>2, EngineTypes DEF Advances
  <2> QED
    BY <2>3, <2>4 DEF GoesOn
<1>4. CASE at = "steady"
  <2>1. PICK p : p = [at |-> "steady", index |-> i, probes |-> e.probes, selected |-> 1,
                      open |-> FALSE, edit |-> FALSE, adding |-> FALSE,
                      draft |-> BlankProbe, httpData |-> FALSE]
    OBVIOUS
  <2>2. MountedStep(at, i, e) = Reload(p)
    BY <1>4, <2>1 DEF MountedStep
  <2>3. p \in Steadies
    BY <2>1, Constants, EngineTypes DEF Steadies
  <2>4. p.index = i /\ ~ p.open /\ ~ p.adding
    BY <2>1
  <2>5. Goes(Reload(p), i)
    BY <2>3, <2>4, ReloadOf DEF Opened
  <2>6. Goes(Reload(p), i) => GoesOn(Reload(p), i) /\ Reload(p).at # "target"
    BY SteadyTypes DEF Goes, GoesOn, Crashed
  <2> QED
    BY <2>2, <2>5, <2>6
<1> QED
  BY <1>1, <1>2, <1>3, <1>4 DEF Steps

\* A step inside the wizard.
LEMMA Inside ==
  ASSUME TuningInv, stepper.at \in Steps, UNCHANGED <<engines, options>>,
         engineYAML' \in Engine, HasTarget(engineYAML') = HasTarget(engineYAML),
         GoesOn(stepper', stepper.index), stepper'.at = "target" => HasTarget(engineYAML')
  PROVE  TuningInv' /\ EditStep
<1>1. stepper.index \in {1, 2}
  BY PageTypes DEF TuningInv
<1>2. CASE stepper' = Crashed
  <2>1. stepper'.at \notin Steps /\ stepper'.at # "steady" /\ stepper'.at # "target" /\ stepper'.index = 0
    BY <1>2 DEF Crashed, Steps
  <2>2. TuningInv'
    BY <1>2, <2>1 DEF TuningInv
  <2>3. Edit!Cancel
    BY <1>1, <2>1 DEF Edit!Cancel
  <2> QED
    BY <2>2, <2>3 DEF EditStep, Edit!EditNext
<1>3. CASE /\ stepper' \in Steadies \cup Fields \cup Advances
           /\ stepper'.index = stepper.index /\ (stepper'.at = "steady" => Holds(stepper'))
  <2>1. TuningInv'
    BY <1>3 DEF TuningInv
  <2> QED
    BY <1>3, <2>1 DEF EditStep
<1> QED
  BY <1>2, <1>3 DEF GoesOn

\* ... and one of the steady-state page.
LEMMA InSteady ==
  ASSUME TuningInv, stepper.at = "steady", UNCHANGED <<engines, options>>,
         engineYAML' \in Engine, HasTarget(engineYAML') = HasTarget(engineYAML),
         Goes(stepper', stepper.index)
  PROVE  TuningInv' /\ EditStep
<1>1. GoesOn(stepper', stepper.index) /\ stepper'.at # "target"
  BY SteadyTypes DEF Goes, GoesOn, Crashed
<1> QED
  BY <1>1, Inside DEF Steps

-----------------------------------------------------------------------------
(* The steps between the pages, and those of the other pages.              *)

LEMMA BackToTable ==
  ASSUME TuningInv, engines' = engines, options' \in Val, stepper' = TuneTable
  PROVE  TuningInv' /\ EditStep
<1>1. stepper'.at \notin Steps /\ stepper'.at # "steady" /\ stepper'.at # "target" /\ stepper'.index = 0
  BY DEF TuneTable, Steps
<1>2. TuningInv'
  BY <1>1 DEF TuningInv
<1>3. stepper.index # 0 => Edit!Cancel
  BY <1>1 DEF Edit!Cancel
<1> QED
  BY <1>1, <1>2, <1>3 DEF EditStep, Edit!EditNext

LEMMA OpenInv ==
  ASSUME TuningInv, NEW i \in DOMAIN engines, OpenEngine(i)
  PROVE  TuningInv' /\ EditStep
<1>1. engines \in [{1, 2} -> Engine] /\ i \in {1, 2} /\ engines[i] \in Engine
  BY DEF TuningInv
<1>2. PICK at \in {"target", "steady"} : at = IF HasTarget(engines[i]) THEN "target" ELSE "steady"
  OBVIOUS
<1>3. /\ engineYAML' = engines[i] /\ stepper' = MountedStep(at, i, engines[i])
      /\ UNCHANGED <<engines, options>> /\ stepper.index = 0
  BY <1>2, PageTypes DEF OpenEngine, AtStep, TuningInv, Steps
<1>4. GoesOn(stepper', i) /\ (stepper'.at = "target" => HasTarget(engines[i]))
  BY <1>1, <1>2, <1>3, MountedOf DEF Steps
<1>5. CASE stepper' = Crashed
  <2>1. stepper'.at \notin Steps /\ stepper'.at # "steady" /\ stepper'.at # "target" /\ stepper'.index = 0
    BY <1>5 DEF Crashed, Steps
  <2>2. TuningInv'
    BY <1>3, <1>5, <2>1 DEF TuningInv
  <2> QED
    BY <1>3, <2>1, <2>2 DEF EditStep
<1>6. CASE /\ stepper' \in Steadies \cup Fields \cup Advances
           /\ stepper'.index = i /\ (stepper'.at = "steady" => Holds(stepper'))
  <2>1. TuningInv'
    BY <1>1, <1>3, <1>4, <1>6 DEF TuningInv
  <2>2. Edit!Begin(i)
    BY <1>3, <1>6 DEF Edit!Begin
  <2> QED
    BY <2>1, <2>2 DEF EditStep, Edit!EditNext
<1> QED
  BY <1>4, <1>5, <1>6 DEF GoesOn

LEMMA GotoOf ==
  ASSUME TuningInv, stepper.at \in Steps, UNCHANGED <<engines, options>>,
         engineYAML' \in Engine, HasTarget(engineYAML') = HasTarget(engineYAML),
         NEW n \in 0 .. 3, infraEngine => n # 3, gotoStep(n, engineYAML')
  PROVE  TuningInv' /\ EditStep
<1>1. stepper.index \in {1, 2}
  BY PageTypes DEF TuningInv
<1>2. PICK at : at = StepAt(n)
  OBVIOUS
<1>3. at \in Steps /\ (at = "target" => HasTarget(engineYAML))
  BY <1>2 DEF StepAt, infraEngine, Steps
<1>4. stepper' = MountedStep(at, stepper.index, engineYAML')
  BY <1>2 DEF gotoStep
<1>5. GoesOn(stepper', stepper.index) /\ (stepper'.at = "target" => at = "target")
  BY <1>1, <1>3, <1>4, MountedOf
<1> QED
  BY <1>3, <1>5, Inside

\* Another target, probes or environment leave an engine an engine.
LEMMA EngineWith ==
  ASSUME NEW e \in Engine
  PROVE  /\ \A v \in Val : LET g == [e EXCEPT !.appinfo = <<v>>] IN g \in Engine /\ HasTarget(g)
         /\ \A q \in Seq(Listed) :
              LET g == [e EXCEPT !.probes = q] IN g \in Engine /\ HasTarget(g) = HasTarget(e)
         /\ \A v \in Val :
              LET g == [e EXCEPT !.env = v] IN g \in Engine /\ HasTarget(g) = HasTarget(e)
         /\ \A v \in Val :
              LET g == [e EXCEPT !.advance = v] IN g \in Engine /\ HasTarget(g) = HasTarget(e)
<1>1. ASSUME NEW v \in Val
      PROVE  LET g == [e EXCEPT !.appinfo = <<v>>] IN g \in Engine /\ HasTarget(g)
  BY DEF Engine, HasTarget, NoTarget
<1>2. ASSUME NEW q \in Seq(Listed)
      PROVE  LET g == [e EXCEPT !.probes = q] IN g \in Engine /\ HasTarget(g) = HasTarget(e)
  BY DEF Engine, HasTarget
<1>3. ASSUME NEW v \in Val
      PROVE  /\ LET g == [e EXCEPT !.env = v] IN g \in Engine /\ HasTarget(g) = HasTarget(e)
             /\ LET g == [e EXCEPT !.advance = v] IN g \in Engine /\ HasTarget(g) = HasTarget(e)
  BY DEF Engine, HasTarget
<1> QED
  BY <1>1, <1>2, <1>3

LEMMA NextInv ==
  ASSUME TuningInv, TargetNext \/ SteadyNext \/ EnvNext \/ StepBack
  PROVE  TuningInv' /\ EditStep
<1>1. CASE TargetNext
  <2>1. stepper.at = "target" /\ stepper.value \in Val /\ engineYAML \in Engine /\ HasTarget(engineYAML)
    BY <1>1, PageTypes DEF TargetNext, AtStep, TuningInv, Fields, Steps
  <2>2. /\ engineYAML' = [engineYAML EXCEPT !.appinfo = <<stepper.value>>]
        /\ gotoStep(1, engineYAML') /\ UNCHANGED <<engines, options>>
    BY <1>1 DEF TargetNext
  <2>3. engineYAML' \in Engine /\ HasTarget(engineYAML')
    BY <2>1, <2>2, EngineWith
  <2> QED
    BY <2>1, <2>2, <2>3, GotoOf DEF Steps
<1>2. CASE SteadyNext
  <2>1. stepper.at = "steady" /\ stepper.probes \in Seq(Listed) /\ engineYAML \in Engine
    BY <1>2, PageTypes, SteadyTypes DEF SteadyNext, ShowsProbes, AtStep, TuningInv, Steps
  <2>2. PICK n \in {1, 2} : n = IF infraEngine THEN 1 ELSE 2
    OBVIOUS
  <2>3. /\ engineYAML' = [engineYAML EXCEPT !.probes = stepper.probes]
        /\ gotoStep(n, engineYAML') /\ UNCHANGED <<engines, options>>
    BY <1>2, <2>2 DEF SteadyNext
  <2>4. engineYAML' \in Engine /\ HasTarget(engineYAML') = HasTarget(engineYAML)
    BY <2>1, <2>3, EngineWith
  <2> QED
    BY <2>1, <2>3, <2>4, GotoOf DEF Steps
<1>3. CASE EnvNext
  <2>1. stepper.at = "env" /\ stepper.value \in Val /\ engineYAML \in Engine
    BY <1>3, PageTypes DEF EnvNext, AtStep, TuningInv, Fields, Steps
  <2>2. PICK n \in {2, 3} : n = IF infraEngine THEN 2 ELSE 3
    OBVIOUS
  <2>3. /\ engineYAML' = [engineYAML EXCEPT !.env = stepper.value]
        /\ gotoStep(n, engineYAML') /\ UNCHANGED <<engines, options>>
    BY <1>3, <2>2 DEF EnvNext
  <2>4. engineYAML' \in Engine /\ HasTarget(engineYAML') = HasTarget(engineYAML)
    BY <2>1, <2>3, EngineWith
  <2>5. infraEngine => n # 3
    BY <2>2
  <2> QED
    BY <2>1, <2>3, <2>4, <2>5, GotoOf DEF Steps
<1>4. CASE StepBack
  <2>1. /\ stepper.at \in Steps /\ UNCHANGED <<engines, options, engineYAML>>
        /\ gotoStep(0, engineYAML) \/ gotoStep(1, engineYAML) \/ gotoStep(2, engineYAML)
    BY <1>4 DEF StepBack, ShowsProbes, AtStep, Steps
  <2>2. engineYAML \in Engine /\ engineYAML' = engineYAML
    BY <2>1 DEF TuningInv
  <2>3. PICK n \in 0 .. 3 : n # 3 /\ gotoStep(n, engineYAML)
    BY <2>1
  <2>4. gotoStep(n, engineYAML')
    BY <2>2, <2>3
  <2> QED
    BY <2>1, <2>2, <2>3, <2>4, GotoOf
<1> QED
  BY <1>1, <1>2, <1>3, <1>4

LEMMA FieldInv ==
  ASSUME TuningInv, NEW v \in Values, EditField(v)
  PROVE  TuningInv' /\ EditStep
<1>1. /\ stepper.at \in {"target", "env"} /\ stepper' = [stepper EXCEPT !.value = v]
      /\ UNCHANGED <<engines, options, engineYAML>>
  BY DEF EditField, AtStep
<1>2. stepper \in Fields /\ engineYAML \in Engine /\ stepper.at \in Steps
      /\ (stepper.at = "target" => HasTarget(engineYAML))
  BY <1>1, PageTypes DEF TuningInv, Steps
<1>3. stepper' \in Fields /\ stepper'.at = stepper.at /\ stepper'.index = stepper.index
  BY <1>1, <1>2 DEF Fields, Val
<1>4. GoesOn(stepper', stepper.index)
  BY <1>1, <1>3 DEF GoesOn
<1> QED
  BY <1>1, <1>2, <1>3, <1>4, Inside

LEMMA SwitchInv ==
  ASSUME TuningInv, Switch \/ \E v \in Values : TypeOption(v)
  PROVE  TuningInv' /\ EditStep
<1>1. /\ stepper.at \in {"advance", "options"} /\ UNCHANGED <<engines, options, engineYAML>>
      /\ \/ stepper' = [stepper EXCEPT !.on = ~ @]
         \/ \E v \in Values : stepper' = [stepper EXCEPT !.value = v]
  BY DEF Switch, TypeOption
<1>2. CASE stepper.at = "advance"
  <2>1. stepper \in Advances /\ engineYAML \in Engine
    BY <1>2, PageTypes DEF TuningInv, Steps
  <2>2. stepper' \in Advances
    BY <1>1, <2>1 DEF Advances, Val
  <2>3. stepper'.at = "advance" /\ stepper'.index = stepper.index
    BY <1>1, <2>1 DEF Advances
  <2>4. GoesOn(stepper', stepper.index)
    BY <2>2, <2>3 DEF GoesOn
  <2> QED
    BY <1>1, <1>2, <2>1, <2>3, <2>4, Inside DEF Steps
<1>3. CASE stepper.at = "options"
  <2>1. stepper \in Options
    BY <1>3, PageTypes DEF TuningInv
  <2>2. stepper' \in Options
    BY <1>1, <2>1 DEF Options, Val
  <2>3. stepper'.at = "options" /\ stepper'.index = stepper.index
    BY <1>1, <2>1 DEF Options
  <2>4. TuningInv'
    BY <1>1, <2>2, <2>3 DEF TuningInv, Steps
  <2> QED
    BY <1>1, <2>3, <2>4 DEF EditStep
<1> QED
  BY <1>1, <1>2, <1>3

LEMMA OptionsInv ==
  ASSUME TuningInv, OpenOptions \/ CloseOptions \/ SaveOptions
  PROVE  TuningInv' /\ EditStep
<1>1. CASE OpenOptions
  <2>1. PICK on \in BOOLEAN : on = (options # 0)
    OBVIOUS
  <2>2. /\ stepper.at = "table" /\ UNCHANGED <<engines, options, engineYAML>>
        /\ stepper' = [at |-> "options", index |-> 0, on |-> on, value |-> options]
    BY <1>1, <2>1 DEF OpenOptions, AtStep
  <2>3. stepper' \in Options
    BY <2>2 DEF Options, TuningInv
  <2>4. stepper'.at = "options" /\ stepper'.index = 0
    BY <2>2
  <2>5. stepper.index = 0
    BY <2>2, PageTypes DEF TuningInv, Steps
  <2>6. TuningInv'
    BY <2>2, <2>3, <2>4 DEF TuningInv, Steps
  <2> QED
    BY <2>2, <2>4, <2>5, <2>6 DEF EditStep
<1>2. CASE CloseOptions
  BY <1>2, BackToTable DEF CloseOptions, TuningInv
<1>3. CASE SaveOptions
  <2>1. stepper \in Options
    BY <1>3, PageTypes DEF TuningInv, SaveOptions, AtStep
  <2>2. stepper.value \in Val
    BY <2>1 DEF Options
  <2>3. options' \in Val /\ stepper' = TuneTable /\ engines' = engines
    BY <1>3, <2>2, Constants DEF SaveOptions
  <2> QED
    BY <2>3, BackToTable
<1> QED
  BY <1>1, <1>2, <1>3

LEMMA FinishInv ==
  ASSUME TuningInv, Finish
  PROVE  TuningInv' /\ EditStep
<1>1. stepper.at = "advance" /\ stepper \in Advances
  BY PageTypes DEF Finish, AtStep, TuningInv
<1>2. /\ stepper.index \in {1, 2} /\ stepper.value \in Val /\ engineYAML \in Engine
      /\ engines \in [{1, 2} -> Engine] /\ HasTarget(engineYAML) = HasTarget(engines[stepper.index])
  BY <1>1 DEF Advances, TuningInv, Steps
<1>3. PICK v \in Val : v = IF stepper.on THEN stepper.value ELSE 0
  BY <1>2, Constants
<1>4. PICK g : g = [engineYAML EXCEPT !.advance = v]
  OBVIOUS
<1>5. g \in Engine /\ HasTarget(g) = HasTarget(engineYAML)
  BY <1>2, <1>4, EngineWith
<1>6. engines' = [engines EXCEPT ![stepper.index] = g] /\ stepper' = TuneTable /\ options' = options
  BY <1>3, <1>4 DEF Finish
<1>7. stepper'.at \notin Steps /\ stepper'.at # "steady" /\ stepper'.at # "target" /\ stepper'.index = 0
  BY <1>6 DEF TuneTable, Steps
<1>8. engines' \in [{1, 2} -> Engine] /\ engines'[stepper.index] = g
  BY <1>2, <1>5, <1>6
<1>9. TuningInv'
  BY <1>6, <1>7, <1>8 DEF TuningInv
<1>10. Edit!Commit
  <2>1. stepper.index # 0 /\ stepper'.index = 0
    BY <1>2, <1>7
  <2>2. engines' = [engines EXCEPT ![stepper.index] = engines'[stepper.index]]
    BY <1>6, <1>8
  <2>3. HasTarget(engines'[stepper.index]) = HasTarget(engines[stepper.index])
    BY <1>2, <1>5, <1>8
  <2> QED
    BY <2>1, <2>2, <2>3 DEF Edit!Commit
<1> QED
  BY <1>9, <1>10 DEF EditStep, Edit!EditNext

-----------------------------------------------------------------------------
(* The steps of the steady-state page.                                     *)

LEMMA Without ==
  ASSUME NEW q \in Seq(Listed), NEW k \in DOMAIN q
  PROVE  RemoveAt(q, k) \in Seq(Listed)
<1>1. k \in 1 .. Len(q) /\ Len(q) \in Nat
  OBVIOUS
<1>2. /\ SubSeq(q, 1, k - 1) \in Seq(Listed)
      /\ SubSeq(q, k + 1, Len(q)) \in Seq(Listed)
  BY <1>1
<1> QED
  BY <1>2 DEF RemoveAt

\* There is a number for another probe.
LEMMA NewProbeOf ==
  ASSUME stepper.probes \in Seq(Listed), Len(stepper.probes) < MaxProbes
  PROVE  NewProbe \in Nat /\ NewProbe # 0
<1> DEFINE D == DOMAIN stepper.probes
           N == 1 .. MaxProbes + 1
<1>1. \E n \in N : \A k \in D : stepper.probes[k].of # n
  <2>1. SUFFICES ASSUME \A n \in N : \E k \in D : stepper.probes[k].of = n PROVE FALSE
    OBVIOUS
  <2>2. PICK f : f = [n \in N |-> CHOOSE k \in D : stepper.probes[k].of = n]
    OBVIOUS
  <2>3. f \in [N -> D] /\ \A n \in N : stepper.probes[f[n]].of = n
    BY <2>1, <2>2
  <2>4. D = 1 .. Len(stepper.probes) /\ Len(stepper.probes) \in Nat
    OBVIOUS
  <2>5. /\ IsFiniteSet(N) /\ Cardinality(N) = MaxProbes + 1
        /\ IsFiniteSet(D) /\ Cardinality(D) = Len(stepper.probes)
    <3>1. IsFiniteSet(N) /\ Cardinality(N) = MaxProbes + 1
      BY FS_Interval, BoundAssumption
    <3>2. IsFiniteSet(D) /\ Cardinality(D) = Len(stepper.probes)
      BY <2>4, FS_Interval
    <3> QED
      BY <3>1, <3>2
  <2>6. Cardinality(D) < Cardinality(N)
    BY <2>4, <2>5, BoundAssumption
  <2> HIDE DEF D, N
  <2>7. \E x, y \in N : x # y /\ f[x] = f[y]
    BY <2>3, <2>5, <2>6, FS_PigeonHole
  <2> QED
    BY <2>3, <2>7
<1>2. NewProbe \in N
  BY <1>1 DEF NewProbe
<1> QED
  BY <1>2, BoundAssumption

LEMMA SteadyOf ==
  ASSUME TuningInv, stepper.at = "steady"
  PROVE  stepper \in Steadies /\ Holds(stepper) /\ Opened(stepper) /\ engineYAML \in Engine
BY PageTypes DEF TuningInv, Steps, Holds

LEMMA DeleteInv ==
  ASSUME TuningInv, stepper.at = "steady", NEW k \in DOMAIN stepper.probes, DeleteProbe(k)
  PROVE  TuningInv' /\ EditStep
<1>1. stepper \in Steadies /\ Holds(stepper) /\ engineYAML \in Engine /\ ~ stepper.open /\ ~ stepper.adding
  BY SteadyOf DEF DeleteProbe, ShowsProbes, Opened
<1>2. PICK q, left : q = RemoveAt(stepper.probes, k) /\ left = [stepper EXCEPT !.probes = q]
  OBVIOUS
<1>3. stepper.probes \in Seq(Listed) /\ q \in Seq(Listed)
  BY <1>1, <1>2, SteadyTypes, Without
<1>4. left \in Steadies
  BY <1>1, <1>2, <1>3 DEF Steadies
<1>5. /\ left.probes = q /\ left.index = stepper.index /\ left.selected = stepper.selected
      /\ left.draft = stepper.draft /\ left.open = stepper.open /\ left.adding = stepper.adding
  BY <1>1, <1>2 DEF Steadies
<1>6. Opened(left)
  BY <1>1, <1>5 DEF Opened
<1> DEFINE sel(p) == IF p.selected \in DOMAIN p.probes THEN p.probes[p.selected].of ELSE 0
<1>7. /\ stepper' = IF sel(left) # sel(stepper) THEN Shown(Reload(left)) ELSE left
      /\ engineYAML' = [engineYAML EXCEPT !.probes = q] /\ UNCHANGED <<engines, options>>
  BY <1>2, <1>5 DEF DeleteProbe
<1>8. ASSUME sel(left) # sel(stepper) PROVE Goes(stepper', stepper.index)
  <2> HIDE DEF sel
  <2> QED
    BY <1>4, <1>5, <1>6, <1>7, <1>8, ReloadOf, ShownOf
<1>9. ASSUME sel(left) = sel(stepper) PROVE Goes(stepper', stepper.index)
  <2>1. Follows(stepper)
    BY <1>1 DEF Holds
  <2>2. sel(stepper) = stepper.draft.of /\ stepper.draft.of # 0
    BY <1>3, <2>1, ListedOf DEF Follows
  <2>3. sel(left) = stepper.draft.of /\ sel(left) # 0
    BY <1>9, <2>2
  <2>4. Follows(left)
    BY <1>5, <2>3 DEF Follows
  <2>5. stepper' = left
    BY <1>7, <1>9
  <2> HIDE DEF sel
  <2> QED
    BY <1>4, <1>5, <1>6, <2>4, <2>5 DEF Goes, Holds
<1>10. Goes(stepper', stepper.index)
  BY <1>8, <1>9
<1>11. engineYAML' \in Engine /\ HasTarget(engineYAML') = HasTarget(engineYAML)
  BY <1>1, <1>3, <1>7, EngineWith
<1> QED
  BY <1>7, <1>10, <1>11, InSteady

LEMMA OpenFormInv ==
  ASSUME TuningInv, stepper.at = "steady",
         AddProbe \/ CloseProbe \/ \E k \in DOMAIN stepper.probes : EditProbe(k)
  PROVE  TuningInv' /\ EditStep
<1>1. stepper \in Steadies /\ Holds(stepper) /\ Opened(stepper) /\ engineYAML \in Engine
  BY SteadyOf
<1>2. UNCHANGED <<engines, options, engineYAML>>
  BY DEF AddProbe, CloseProbe, EditProbe
<1>3. ASSUME AddProbe PROVE Goes(stepper', stepper.index)
  <2>1. PICK p : p = [stepper EXCEPT !.edit = FALSE, !.open = TRUE, !.adding = TRUE]
    OBVIOUS
  <2>2. stepper' = Reload(p) /\ Len(stepper.probes) < MaxProbes
    BY <1>3, <2>1 DEF AddProbe
  <2>3. p \in Steadies
    BY <1>1, <2>1 DEF Steadies
  <2>4. p.index = stepper.index /\ p.probes = stepper.probes /\ p.open /\ ~ p.edit /\ p.adding
    BY <1>1, <2>1 DEF Steadies
  <2>5. Opened(p)
    BY <2>2, <2>4 DEF Opened
  <2> QED
    BY <2>2, <2>3, <2>4, <2>5, ReloadOf
<1>4. ASSUME CloseProbe PROVE Goes(stepper', stepper.index)
  <2>1. PICK p : p = [stepper EXCEPT !.open = FALSE, !.adding = FALSE]
    OBVIOUS
  <2>2. stepper' = IF stepper.adding THEN Shown(Reload(p)) ELSE p
    BY <1>4, <2>1 DEF CloseProbe
  <2>3. p \in Steadies
    BY <1>1, <2>1 DEF Steadies
  <2>4. /\ p.index = stepper.index /\ p.probes = stepper.probes /\ p.draft = stepper.draft
        /\ p.selected = stepper.selected /\ ~ p.open /\ ~ p.adding
    BY <1>1, <2>1 DEF Steadies
  <2>5. Opened(p)
    BY <2>4 DEF Opened
  <2>6. ~ stepper.adding => Goes(p, stepper.index)
    BY <1>1, <2>3, <2>4, <2>5 DEF Goes, Holds, Follows
  <2> QED
    BY <2>2, <2>3, <2>4, <2>5, <2>6, ReloadOf, ShownOf
<1>5. ASSUME NEW k \in DOMAIN stepper.probes, EditProbe(k) PROVE Goes(stepper', stepper.index)
  <2>1. PICK p : p = [stepper EXCEPT !.edit = TRUE, !.open = TRUE, !.selected = k]
    OBVIOUS
  <2>2. stepper' = Shown(IF k # stepper.selected THEN Reload(p) ELSE p) /\ ~ stepper.open
    BY <1>5, <2>1 DEF EditProbe, ShowsProbes
  <2>3. stepper.probes \in Seq(Listed) /\ k \in Nat /\ stepper.probes # <<>>
    BY <1>1, SteadyTypes
  <2>4. p \in Steadies
    BY <1>1, <2>1, <2>3 DEF Steadies
  <2>5. /\ p.index = stepper.index /\ p.probes = stepper.probes /\ p.draft = stepper.draft
        /\ p.selected = k /\ p.open /\ p.edit /\ p.adding = stepper.adding
    BY <1>1, <2>1 DEF Steadies
  <2>6. ~ stepper.adding
    BY <1>1, <2>2 DEF Opened
  <2>7. Opened(p)
    BY <2>3, <2>5, <2>6 DEF Opened
  <2>8. k = stepper.selected => Goes(p, stepper.index)
    BY <1>1, <2>3, <2>4, <2>5, <2>6, <2>7 DEF Goes, Holds, Follows
  <2> QED
    BY <2>2, <2>4, <2>5, <2>7, <2>8, ReloadOf, ShownOf
<1>6. Goes(stepper', stepper.index)
  BY <1>3, <1>4, <1>5
<1> QED
  BY <1>1, <1>2, <1>6, InSteady

\* What is typed changes the probe in the form, not which one it is.
LEMMA Typed ==
  ASSUME NEW p \in Steadies, Holds(p), NEW q \in Steadies,
         q.index = p.index, q.probes = p.probes, q.selected = p.selected, q.open = p.open,
         q.edit = p.edit, q.adding = p.adding, q.draft.of = p.draft.of
  PROVE  Goes(q, p.index)
BY DEF Goes, Holds, Opened, Follows

LEMMA TypedOf ==
  ASSUME NEW p \in Steadies, Holds(p), NEW d \in Probe, d.of = p.draft.of, NEW b \in BOOLEAN
  PROVE  LET q == [p EXCEPT !.draft = d, !.httpData = b] IN Goes(q, p.index)
<1> DEFINE q == [p EXCEPT !.draft = d, !.httpData = b]
<1>1. q \in Steadies
  BY DEF Steadies
<1>2. /\ q.index = p.index /\ q.probes = p.probes /\ q.selected = p.selected /\ q.open = p.open
      /\ q.edit = p.edit /\ q.adding = p.adding /\ q.draft = d
  BY DEF Steadies
<1> HIDE DEF q
<1>3. Goes(q, p.index)
  BY <1>1, <1>2, Typed
<1> QED
  BY <1>3 DEF q

LEMMA TypeInv ==
  ASSUME TuningInv, stepper.at = "steady",
         \/ \E type \in ProbeTypes : ChangeType(type)
         \/ handleHttp \/ handleCmd \/ handleK8s \/ handleProm \/ TypeMethod
  PROVE  TuningInv' /\ EditStep
<1>1. stepper \in Steadies /\ Holds(stepper) /\ engineYAML \in Engine
  BY SteadyOf
<1>2. PICK d : d = stepper.draft
  OBVIOUS
<1>3. d \in Probe /\ stepper.httpData \in BOOLEAN
  BY <1>1, <1>2, SteadyTypes
<1>4. /\ UNCHANGED <<engines, options, engineYAML>>
      /\ \/ \E type \in ProbeTypes : stepper' = [stepper EXCEPT !.draft.type = type, !.draft.has = {}]
         \/ stepper' = Shown([stepper EXCEPT !.draft.has = @ \cup {"inputs", "url"}])
         \/ stepper' = [stepper EXCEPT !.draft.has = @ \cup {"inputs", "method"}, !.httpData = TRUE]
  BY DEF ChangeType, handleHttp, handleCmd, handleK8s, handleProm, TypeInto, TypeMethod
<1>5. ASSUME NEW g \in Probe, g.of = d.of, NEW b \in BOOLEAN
      PROVE  Goes([stepper EXCEPT !.draft = g, !.httpData = b], stepper.index)
  BY <1>1, <1>2, <1>5, TypedOf
<1>6. ASSUME NEW type \in ProbeTypes, stepper' = [stepper EXCEPT !.draft.type = type, !.draft.has = {}]
      PROVE  Goes(stepper', stepper.index)
  <2>1. PICK g : g = [d EXCEPT !.type = type, !.has = {}]
    OBVIOUS
  <2>2. g \in Probe /\ g.of = d.of
    BY <1>3, <2>1 DEF Probe
  <2>3. stepper' = [stepper EXCEPT !.draft = g, !.httpData = stepper.httpData]
    BY <1>1, <1>2, <1>3, <1>6, <2>1 DEF Steadies, Probe
  <2> QED
    BY <1>3, <1>5, <2>2, <2>3
<1>7. ASSUME stepper' = Shown([stepper EXCEPT !.draft.has = @ \cup {"inputs", "url"}])
      PROVE  Goes(stepper', stepper.index)
  <2>1. PICK g : g = [d EXCEPT !.has = @ \cup {"inputs", "url"}]
    OBVIOUS
  <2>2. g \in Probe /\ g.of = d.of
    BY <1>3, <2>1 DEF Probe
  <2>3. PICK p : p = [stepper EXCEPT !.draft.has = @ \cup {"inputs", "url"}]
    OBVIOUS
  <2>4. p = [stepper EXCEPT !.draft = g, !.httpData = stepper.httpData]
    BY <1>1, <1>2, <1>3, <2>1, <2>3 DEF Steadies, Probe
  <2>5. Goes(p, stepper.index)
    BY <1>3, <1>5, <2>2, <2>4
  <2> QED
    BY <1>7, <2>3, <2>5, ShownOf
<1>8. ASSUME stepper' = [stepper EXCEPT !.draft.has = @ \cup {"inputs", "method"}, !.httpData = TRUE]
      PROVE  Goes(stepper', stepper.index)
  <2>1. PICK g : g = [d EXCEPT !.has = @ \cup {"inputs", "method"}]
    OBVIOUS
  <2>2. g \in Probe /\ g.of = d.of
    BY <1>3, <2>1 DEF Probe
  <2>3. stepper' = [stepper EXCEPT !.draft = g, !.httpData = TRUE]
    BY <1>1, <1>2, <1>3, <1>8, <2>1 DEF Steadies, Probe
  <2> QED
    BY <1>5, <2>2, <2>3
<1>9. Goes(stepper', stepper.index)
  BY <1>4, <1>6, <1>7, <1>8
<1> QED
  BY <1>1, <1>4, <1>9, InSteady

\* An edited probe goes back to its place, another one to the end.
LEMMA SubmitInv ==
  ASSUME TuningInv, stepper.at = "steady", SubmitProbe
  PROVE  TuningInv' /\ EditStep
<1>1. stepper \in Steadies /\ Holds(stepper) /\ Opened(stepper) /\ engineYAML \in Engine
  BY SteadyOf
<1>2. /\ stepper.probes \in Seq(Listed) /\ stepper.draft \in Probe /\ stepper.selected \in Nat
      /\ stepper.draft.of \in Nat
  BY <1>1, SteadyTypes
<1>3. stepper.open /\ UNCHANGED <<engines, options, engineYAML>>
  BY DEF SubmitProbe
<1>4. ASSUME stepper.edit PROVE Goes(stepper', stepper.index)
  <2>1. Follows(stepper)
    BY <1>1, <1>3, <1>4 DEF Holds, Opened
  <2>2. stepper.draft \in Listed
    BY <1>2, <2>1, ListedOf DEF Follows, Listed
  <2>3. PICK q : q = [stepper.probes EXCEPT ![stepper.selected] = stepper.draft]
    OBVIOUS
  <2>4. /\ q \in Seq(Listed) /\ DOMAIN q = DOMAIN stepper.probes
        /\ q[stepper.selected] = stepper.draft
    BY <1>2, <2>1, <2>2, <2>3 DEF Follows
  <2>5. PICK p : p = [stepper EXCEPT !.open = FALSE, !.adding = FALSE, !.probes = q]
    OBVIOUS
  <2>6. stepper' = p
    BY <1>1, <1>4, <2>3, <2>5 DEF SubmitProbe, Steadies
  <2>7. p \in Steadies
    BY <1>1, <2>4, <2>5 DEF Steadies
  <2>8. /\ p.index = stepper.index /\ p.probes = q /\ p.selected = stepper.selected
        /\ p.draft = stepper.draft /\ ~ p.open /\ ~ p.adding
    BY <1>1, <2>5 DEF Steadies
  <2>9. Follows(p)
    BY <2>1, <2>4, <2>8 DEF Follows
  <2> QED
    BY <2>6, <2>7, <2>8, <2>9 DEF Goes, Holds, Opened
<1>5. ASSUME ~ stepper.edit PROVE Goes(stepper', stepper.index)
  <2>1. Len(stepper.probes) < MaxProbes
    BY <1>1, <1>3, <1>5 DEF Opened
  <2>2. PICK n \in Nat : n # 0 /\ n = NewProbe
    BY <1>2, <2>1, NewProbeOf
  <2>3. PICK g : g = [stepper.draft EXCEPT !.of = n]
    OBVIOUS
  <2>4. g \in Listed
    BY <1>2, <2>2, <2>3 DEF Listed, Probe
  <2>5. PICK q : q = Append(stepper.probes, g)
    OBVIOUS
  <2>6. q \in Seq(Listed)
    BY <1>2, <2>4, <2>5
  <2>7. PICK p : p = [stepper EXCEPT !.open = FALSE, !.adding = FALSE, !.probes = q, !.draft = BlankProbe]
    OBVIOUS
  <2>8. stepper' = Shown(Reload(p))
    BY <1>1, <1>5, <2>2, <2>3, <2>5, <2>7 DEF SubmitProbe, Steadies
  <2>9. p \in Steadies
    BY <1>1, <2>6, <2>7, Constants DEF Steadies
  <2>10. p.index = stepper.index /\ ~ p.open /\ ~ p.adding
    BY <1>1, <2>7 DEF Steadies
  <2>11. Opened(p)
    BY <2>10 DEF Opened
  <2> QED
    BY <2>8, <2>9, <2>10, <2>11, ReloadOf, ShownOf
<1>6. Goes(stepper', stepper.index)
  BY <1>4, <1>5
<1> QED
  BY <1>1, <1>3, <1>6, InSteady

-----------------------------------------------------------------------------
(* The theorems.                                                           *)

LEMMA TuningInitInv == TuningInit => TuningInv /\ Edit!EditInit
<1> SUFFICES ASSUME TuningInit PROVE TuningInv /\ Edit!EditInit
  OBVIOUS
<1>1. engines = Engines /\ options = 0 /\ stepper = TuneTable
  BY DEF TuningInit
<1>2. stepper.at \notin Steps /\ stepper.at # "steady" /\ stepper.at # "target" /\ stepper.index = 0
  BY <1>1 DEF TuneTable, Steps
<1> QED
  BY <1>1, <1>2, Constants DEF TuningInv, Edit!EditInit

LEMMA TuningStep ==
  ASSUME TuningInv, TuningNext
  PROVE  TuningInv' /\ EditStep
<1>1. ASSUME NEW i \in DOMAIN engines, OpenEngine(i) PROVE TuningInv' /\ EditStep
  BY <1>1, OpenInv
<1>2. ASSUME CloseStepper \/ ReloadPage PROVE TuningInv' /\ EditStep
  <2>1. engines' = engines /\ options' \in Val /\ stepper' = TuneTable
    BY <1>2 DEF CloseStepper, ReloadPage, TuningInv
  <2> QED
    BY <2>1, BackToTable
<1>3. ASSUME NEW v \in Values, EditField(v) \/ TypeOption(v) PROVE TuningInv' /\ EditStep
  BY <1>3, FieldInv, SwitchInv
<1>4. ASSUME TargetNext \/ SteadyNext \/ EnvNext \/ StepBack PROVE TuningInv' /\ EditStep
  BY <1>4, NextInv
<1>5. ASSUME AtStep("steady"), NEW k \in DOMAIN stepper.probes, DeleteProbe(k) \/ EditProbe(k)
      PROVE  TuningInv' /\ EditStep
  BY <1>5, DeleteInv, OpenFormInv DEF AtStep
<1>6. ASSUME AddProbe \/ CloseProbe PROVE TuningInv' /\ EditStep
  <2>1. stepper.at = "steady"
    BY <1>6 DEF AddProbe, CloseProbe, ShowsProbes, AtStep
  <2> QED
    BY <1>6, <2>1, OpenFormInv
<1>7. ASSUME \/ \E type \in ProbeTypes : ChangeType(type)
             \/ handleHttp \/ handleCmd \/ handleK8s \/ handleProm \/ TypeMethod
      PROVE  TuningInv' /\ EditStep
  <2>1. stepper.at = "steady"
    BY <1>7 DEF ChangeType, handleHttp, handleCmd, handleK8s, handleProm, TypeInto, TypeMethod, AtStep
  <2> QED
    BY <1>7, <2>1, TypeInv
<1>8. ASSUME SubmitProbe PROVE TuningInv' /\ EditStep
  BY <1>8, SubmitInv DEF SubmitProbe, AtStep
<1>9. ASSUME Switch \/ Finish \/ OpenOptions \/ CloseOptions \/ SaveOptions
      PROVE  TuningInv' /\ EditStep
  BY <1>9, SwitchInv, FinishInv, OptionsInv
<1> QED
  BY <1>1, <1>2, <1>3, <1>4, <1>5, <1>6, <1>7, <1>8, <1>9 DEF TuningNext

LEMMA TuningInvariance == TuningSpec => []TuningInv
<1>1. TuningInit => TuningInv
  BY TuningInitInv
<1>2. TuningInv /\ [TuningNext]_tuningVars => TuningInv'
  <2>1. ASSUME TuningInv, TuningNext PROVE TuningInv'
    BY <2>1, TuningStep
  <2>2. ASSUME TuningInv, UNCHANGED tuningVars PROVE TuningInv'
    BY <2>2 DEF tuningVars, TuningInv, Holds, Opened, Follows
  <2> QED
    BY <2>1, <2>2
<1> QED
  BY <1>1, <1>2, PTL DEF TuningSpec

\* The form that edits a probe holds that probe and will put it back in its
\* place, whatever was added, deleted, cancelled and left before, for any
\* number of probes and any values.
THEOREM TuningEditsTheSelected == TuningSpec => []EditsTheSelectedProbe
<1>1. TuningInv => EditsTheSelectedProbe
  BY DEF TuningInv, Holds, Opened, Follows, EditsTheSelectedProbe, AtStep
<1> QED
  BY <1>1, TuningInvariance, PTL

\* The wizard implements the abstract edit of one engine: the manifest changes
\* when an edit is finished and not before, in the engine that was opened
\* alone, which keeps or lacks its target as it did.
THEOREM TuningEditsOne == TuningSpec => EditsOneEngine
<1>1. TuningInit => Edit!EditInit
  BY TuningInitInv
<1>2. TuningInv /\ [TuningNext]_tuningVars => [Edit!EditNext]_<<engines, stepper.index>>
  <2>1. ASSUME TuningInv, TuningNext PROVE [Edit!EditNext]_<<engines, stepper.index>>
    BY <2>1, TuningStep DEF EditStep
  <2>2. ASSUME UNCHANGED tuningVars PROVE [Edit!EditNext]_<<engines, stepper.index>>
    BY <2>2 DEF tuningVars
  <2> QED
    BY <2>1, <2>2
<1> QED
  BY <1>1, <1>2, TuningInvariance, PTL DEF TuningSpec, EditsOneEngine, Edit!EditSpec

-----------------------------------------------------------------------------
(* The session: which page of which project a user is on, and as what.     *)

Places == Projects \cup {NoProject}
Roles  == {"Owner", "Viewer", "", "undefined"}
Urls   == [path : Paths, project : Places, role : Roles]
Apps   == [project : Places, role : Roles, loading : BOOLEAN, validation : BOOLEAN]
Asked  == [kind : {"owner", "role", "login", "user", "create"}, base : Paths,
           project : Places, role : Roles]
States == [url : Urls, app : Apps, asks : SUBSET Asked]

\* What the user was granted: a project and a role in it.
Granting == {x \in Places \X Roles : x[2] = "Owner" => standing[x[1]] = "Owner"}
\* Any role in a project of his own, or what is being asked for.
OwnOr(r) == {x \in Places \X Roles : standing[x[1]] = "Owner" \/ x = <<r.project, r.role>>}

\* The state of Routes and the URL name a project and a role in it of A; at
\* the login page Routes does not follow the URL.
Within(s, A) ==
  s.app.project # NoProject =>
    /\ <<s.app.project, s.app.role>> \in A
    /\ s.url.path # "login" =>
         s.url.project = s.app.project /\ <<s.url.project, s.url.role>> \in A

\* Nobody but the owner stays on the settings of a project.
OwnerSettles(s) ==
  /\ s.app.project # NoProject /\ ~ s.app.loading /\ ~ s.app.validation
  /\ s.url.path = "settings"
  => s.app.role = "Owner"

cur == Now(app, asks)

\* Without a role to be told, what is shown was granted; until then it is a
\* project of the user's own, or the one that was asked for.
Fit(s) ==
  /\ token /\ ~ s.app.validation => Within(s, Granting)
  /\ \A r \in s.asks : r.kind = "role" =>
       /\ s.app.validation /\ (s.app.loading => s.app.project = NoProject)
       /\ Within(s, OwnOr(r))
  /\ \A q, r \in s.asks : q.kind = "role" /\ r.kind = "role" => q = r

SessionInv == cur \in States /\ Fit(cur) /\ (token => OwnerSettles(cur))

LEMMA StateTypes ==
  ASSUME NEW s \in States
  PROVE  /\ s.url \in Urls /\ s.app \in Apps /\ s.asks \subseteq Asked
         /\ s.url.path \in Paths /\ s.url.project \in Places /\ s.url.role \in Roles
         /\ s.app.project \in Places /\ s.app.role \in Roles
         /\ s.app.loading \in BOOLEAN /\ s.app.validation \in BOOLEAN
BY DEF States, Urls, Apps

\* What a redirect leaves: the project and the role, or no project.
After(s, t) ==
  /\ t \in States
  /\ \A A : Within(s, A) => Within(t, A)
  /\ t.app.validation = s.app.validation
  /\ s.app.project = NoProject => t.app.project = NoProject
  /\ s.asks \subseteq t.asks
  /\ \A r \in t.asks \ s.asks : r.kind = "owner" /\ t.app.project = NoProject

LEMMA MovedOf ==
  ASSUME NEW signedIn \in BOOLEAN, NEW s \in States, NEW u \in Urls
  PROVE  LET t == Moved(signedIn, s, u) IN
         /\ t \in States /\ t.url = u /\ s.asks \subseteq t.asks
         /\ t.app.validation = s.app.validation /\ t.app.loading = s.app.loading
         /\ u.path = "login" => t.app = s.app
         /\ u.path # "login" => t.app.project = u.project /\ t.app.role = u.role
         /\ \A r \in t.asks \ s.asks : r.kind = "owner" /\ t.app.project = NoProject
<1>1. PICK a : a = Follow(u, s.app)
  OBVIOUS
<1>2. PICK g : g = Ask("owner", u.path, NoProject, "")
  OBVIOUS
<1>3. PICK q : q = IF signedIn /\ s.app.project # NoProject /\ a.project = NoProject
                   THEN s.asks \cup {g} ELSE s.asks
  OBVIOUS
<1>4. PICK t : t = [url |-> u, app |-> a, asks |-> q]
  OBVIOUS
<1>5. Moved(signedIn, s, u) = t
  BY <1>1, <1>2, <1>3, <1>4 DEF Moved
<1>6. /\ u.path \in Paths /\ u.project \in Places /\ u.role \in Roles
      /\ s.app \in Apps /\ s.asks \subseteq Asked
  BY StateTypes DEF Urls
<1>7. /\ a \in Apps /\ a.validation = s.app.validation /\ a.loading = s.app.loading
      /\ u.path = "login" => a = s.app
      /\ u.path # "login" => a.project = u.project /\ a.role = u.role
  BY <1>1, <1>6 DEF Follow, WithParams, Apps
<1>8. g \in Asked /\ g.kind = "owner"
  BY <1>2, <1>6 DEF Ask, Asked, Places, Roles
<1>9. q \subseteq Asked /\ s.asks \subseteq q
      /\ \A r \in q \ s.asks : r.kind = "owner" /\ a.project = NoProject
  BY <1>3, <1>6, <1>8
<1>10. t \in States /\ t.url = u /\ t.app = a /\ t.asks = q
  BY <1>4, <1>7, <1>9 DEF States
<1> QED
  BY <1>5, <1>7, <1>9, <1>10

LEMMA AtOf ==
  ASSUME NEW path \in Paths, NEW project \in Places, NEW role \in Roles
  PROVE  LET u == At(path, project, role) IN
         u \in Urls /\ u.path = path /\ u.project = project /\ u.role = role
BY DEF At, Urls

LEMMA BareOf ==
  ASSUME NEW path \in Paths
  PROVE  LET u == Bare(path) IN
         u \in Urls /\ u.path = path /\ u.project = NoProject /\ u.role = ""
<1>1. NoProject \in Places /\ "" \in Roles
  BY DEF Places, Roles
<1> QED
  BY <1>1 DEF Bare, At, Urls

LEMMA Named == /\ {"", "login", "getStarted", "home", "404", "settings"} \subseteq Paths
               /\ NoProject \in Places /\ {"", "Owner", "Viewer", "undefined"} \subseteq Roles
BY DEF Paths, Places, Roles

\* Where a route leads.
LEMMA RouteTo ==
  ASSUME NEW signedIn \in BOOLEAN, NEW s \in States
  PROVE  LET u == RouteOf(signedIn, s.url, s.app) IN
         /\ u \in Urls
         /\ \/ u = s.url
            \/ u.path = "login" /\ ~ signedIn
            \/ u.path # "login" /\ u.project = NoProject
            \/ /\ u.path = "home" /\ u.project = s.app.project /\ u.role = s.app.role
               /\ s.app.project # NoProject
         /\ signedIn /\ u.path = "settings" /\ s.app.project # NoProject
            /\ ~ s.app.loading /\ ~ s.app.validation
            => s.app.role = "Owner"
<1> DEFINE u == RouteOf(signedIn, s.url, s.app)
<1>1. s.url \in Urls /\ s.app.project \in Places /\ s.app.role \in Roles
  BY StateTypes
<1>2. CASE ~ signedIn
  <2>1. u = s.url \/ u = Bare("login")
    BY <1>2 DEF RouteOf
  <2> HIDE DEF u
  <2>2. u \in Urls /\ (u = s.url \/ u.path = "login")
    BY <1>1, <2>1, BareOf, Named
  <2> QED
    BY <1>2, <2>2 DEF u
<1>3. CASE signedIn /\ s.app.project = NoProject
  <2>1. u = s.url \/ u = Bare("getStarted")
    BY <1>3 DEF RouteOf
  <2> HIDE DEF u
  <2>2. u \in Urls /\ (u = s.url \/ (u.path # "login" /\ u.project = NoProject))
    BY <1>1, <2>1, BareOf, Named
  <2> QED
    BY <1>3, <2>2 DEF u
<1>4. CASE signedIn /\ s.app.project # NoProject
  <2>1. CASE s.app.loading \/ s.app.validation
    <3>1. u = s.url
      BY <1>4, <2>1 DEF RouteOf
    <3> HIDE DEF u
    <3> QED
      BY <1>1, <2>1, <3>1 DEF u
  <2>2. CASE ~ s.app.loading /\ ~ s.app.validation
    <3>1. u = PageOf(s.url, s.app)
      BY <1>4, <2>2 DEF RouteOf
    <3> HIDE DEF u
    <3>2. \/ u = s.url /\ (s.url.path = "settings" => s.app.role = "Owner")
          \/ u = Bare("home") \/ u = Bare("404")
          \/ u = At("home", s.app.project, s.app.role)
      BY <3>1 DEF PageOf
    <3>3. ASSUME u = Bare("home") \/ u = Bare("404")
          PROVE  u \in Urls /\ u.path \in {"home", "404"} /\ u.project = NoProject
      BY <3>3, BareOf, Named
    <3>4. ASSUME u = At("home", s.app.project, s.app.role)
          PROVE  u \in Urls /\ u.path = "home" /\ u.project = s.app.project /\ u.role = s.app.role
      <4>1. "home" \in Paths
        BY Named
      <4> QED
        BY <1>1, <3>4, <4>1 DEF At, Urls
    <3> QED
      BY <1>1, <1>4, <2>2, <3>2, <3>3, <3>4 DEF u
  <2> QED
    BY <2>1, <2>2
<1> QED
  BY <1>2, <1>3, <1>4

LEMMA RedirectedOf ==
  ASSUME NEW signedIn \in BOOLEAN, NEW s \in States
  PROVE  LET t == Redirected(signedIn, s) IN
         /\ After(s, t) /\ t.app.loading = s.app.loading
         /\ signedIn => OwnerSettles(t)
<1>1. PICK u : u = RouteOf(signedIn, s.url, s.app)
  OBVIOUS
<1>2. /\ u \in Urls
      /\ \/ u = s.url
         \/ u.path = "login" /\ ~ signedIn
         \/ u.path # "login" /\ u.project = NoProject
         \/ /\ u.path = "home" /\ u.project = s.app.project /\ u.role = s.app.role
            /\ s.app.project # NoProject
      /\ signedIn /\ u.path = "settings" /\ s.app.project # NoProject
         /\ ~ s.app.loading /\ ~ s.app.validation
         => s.app.role = "Owner"
  BY <1>1, RouteTo
<1>3. PICK t : t = Redirected(signedIn, s)
  OBVIOUS
<1>4. CASE u = s.url
  <2>1. t = s
    BY <1>1, <1>3, <1>4 DEF Redirected
  <2>2. signedIn => OwnerSettles(s)
    BY <1>2, <1>4 DEF OwnerSettles
  <2>3. After(s, s)
    BY DEF After
  <2> QED
    BY <1>3, <2>1, <2>2, <2>3
<1>5. CASE u # s.url
  <2>1. t = Moved(signedIn, s, u)
    BY <1>1, <1>3, <1>5 DEF Redirected
  <2>2. /\ t \in States /\ t.url = u /\ s.asks \subseteq t.asks
        /\ t.app.validation = s.app.validation /\ t.app.loading = s.app.loading
        /\ u.path = "login" => t.app = s.app
        /\ u.path # "login" => t.app.project = u.project /\ t.app.role = u.role
        /\ \A r \in t.asks \ s.asks : r.kind = "owner" /\ t.app.project = NoProject
    BY <1>2, <2>1, MovedOf
  <2>3. \/ u.path = "login" /\ ~ signedIn /\ t.app = s.app
        \/ u.path # "login" /\ t.app.project = NoProject
        \/ /\ u.path = "home" /\ t.app.project = s.app.project /\ t.app.role = s.app.role
           /\ t.url.project = s.app.project /\ t.url.role = s.app.role
           /\ s.app.project # NoProject
    BY <1>2, <1>5, <2>2
  <2>4. ASSUME NEW A, Within(s, A) PROVE Within(t, A)
    BY <2>2, <2>3, <2>4 DEF Within
  <2>5. s.app.project = NoProject => t.app.project = NoProject
    BY <2>3
  <2>6. After(s, t)
    BY <2>2, <2>4, <2>5 DEF After
  <2>7. signedIn => OwnerSettles(t)
    BY <1>2, <2>2, <2>3 DEF OwnerSettles
  <2> QED
    BY <1>3, <2>2, <2>6, <2>7
<1> QED
  BY <1>4, <1>5

LEMMA AfterThat ==
  ASSUME NEW s, NEW t, NEW v, After(s, t), After(t, v)
  PROVE  After(s, v)
BY DEF After

\* What has landed also asks for the user.
Landing(s, t) ==
  /\ t \in States
  /\ \A A : Within(s, A) => Within(t, A)
  /\ t.app.validation = s.app.validation
  /\ t.app.loading => s.app.loading \/ t.app.project = NoProject
  /\ s.app.project = NoProject => t.app.project = NoProject
  /\ s.asks \subseteq t.asks
  /\ \A r \in t.asks \ s.asks : r.kind # "role"

LEMMA LandedOf ==
  ASSUME NEW signedIn \in BOOLEAN, NEW s \in States
  PROVE  LET t == Landed(signedIn, s) IN
         Landing(s, t) /\ (signedIn => OwnerSettles(t))
<1>1. PICK s1 : s1 = Redirected(signedIn, s)
  OBVIOUS
<1>2. After(s, s1) /\ s1.app.loading = s.app.loading /\ s1 \in States
  BY <1>1, RedirectedOf DEF After
<1>3. PICK s2 : s2 = Redirected(signedIn, s1)
  OBVIOUS
<1>4. After(s1, s2) /\ s2.app.loading = s1.app.loading /\ s2 \in States
  BY <1>2, <1>3, RedirectedOf DEF After
<1>5. PICK end : end = Redirected(signedIn, s2)
  OBVIOUS
<1>6. After(s2, end) /\ end.app.loading = s2.app.loading /\ (signedIn => OwnerSettles(end))
  BY <1>4, <1>5, RedirectedOf
<1>7. After(s, end) /\ end \in States
  BY <1>2, <1>4, <1>6, AfterThat DEF After
<1>8. PICK more \in BOOLEAN : more = \E r \in end.asks \ s.asks : r.kind = "owner"
  OBVIOUS
<1>9. more => end.app.project = NoProject
  BY <1>7, <1>8 DEF After
<1>10. PICK b \in BOOLEAN : b = (end.app.loading \/ more)
  OBVIOUS
<1>11. PICK a : a = [end.app EXCEPT !.loading = b]
  OBVIOUS
<1>12. /\ a \in Apps /\ a.project = end.app.project /\ a.role = end.app.role
       /\ a.validation = end.app.validation /\ a.loading = b
  BY <1>7, <1>11, StateTypes DEF Apps
<1>13. PICK g : g = Ask("user", "", NoProject, "")
  OBVIOUS
<1>14. g \in Asked /\ g.kind = "user"
  BY <1>13, Named DEF Ask, Asked
<1>15. PICK q : q \in {end.asks, end.asks \cup {g}} /\
                q = IF signedIn /\ a.project = NoProject /\ ~ a.loading
                       /\ end.url.path = "getStarted"
                    THEN end.asks \cup {g} ELSE end.asks
  OBVIOUS
<1>16. PICK t : t = [end EXCEPT !.app = a, !.asks = q]
  OBVIOUS
<1>17. Landed(signedIn, s) = t
  <2>1. a = [end.app EXCEPT !.loading = end.app.loading \/ \E r \in end.asks \ s.asks : r.kind = "owner"]
    BY <1>8, <1>10, <1>11
  <2> QED
    BY <1>1, <1>3, <1>5, <1>13, <1>15, <1>16, <2>1 DEF Landed
<1>18. q \subseteq Asked /\ end.asks \subseteq q /\ \A r \in q \ end.asks : r.kind = "user"
  BY <1>7, <1>14, <1>15, StateTypes
<1>19. t \in States /\ t.url = end.url /\ t.app = a /\ t.asks = q
  BY <1>7, <1>12, <1>16, <1>18 DEF States
<1>20. OwnerSettles(end) => OwnerSettles(t)
  BY <1>10, <1>12, <1>19 DEF OwnerSettles
<1>21. ASSUME NEW A, Within(s, A) PROVE Within(t, A)
  <2>1. Within(end, A)
    BY <1>7, <1>21 DEF After
  <2> QED
    BY <1>12, <1>19, <2>1 DEF Within
<1>22. /\ t.app.validation = s.app.validation
       /\ s.app.project = NoProject => t.app.project = NoProject
  BY <1>7, <1>12, <1>19 DEF After
<1>23. t.app.loading => s.app.loading \/ t.app.project = NoProject
  BY <1>2, <1>4, <1>6, <1>9, <1>10, <1>12, <1>19
<1>24. s.asks \subseteq t.asks /\ \A r \in t.asks \ s.asks : r.kind # "role"
  <2>1. s.asks \subseteq end.asks /\ \A r \in end.asks \ s.asks : r.kind = "owner"
    BY <1>7 DEF After
  <2>2. \A r \in t.asks \ s.asks : r \in end.asks \ s.asks \/ r \in q \ end.asks
    BY <1>19
  <2> QED
    BY <1>18, <1>19, <2>1, <2>2
<1>25. Landing(s, t)
  BY <1>19, <1>21, <1>22, <1>23, <1>24 DEF Landing
<1> QED
  BY <1>6, <1>17, <1>20, <1>25

-----------------------------------------------------------------------------
(* The events.                                                             *)

NoRole(s) == \A r \in s.asks : r.kind # "role"

LEMMA CurOf ==
  ASSUME NEW t \in States, Becomes(t)
  PROVE  cur' = t
BY DEF Becomes, cur, Now, States

LEMMA CurIs ==
  /\ cur.url = url /\ cur.app = app /\ cur.asks = asks
  /\ cur \in States => url \in Urls /\ app \in Apps /\ asks \subseteq Asked
BY DEF cur, Now, States

LEMMA NowOf ==
  ASSUME NEW u \in Urls, NEW a \in Apps, NEW q \in SUBSET Asked
  PROVE  LET s == [url |-> u, app |-> a, asks |-> q] IN
         s \in States /\ s.url = u /\ s.app = a /\ s.asks = q
BY DEF States

\* What an event changes lands.
LEMMA Lands ==
  ASSUME NEW s \in States, Fit(s), UNCHANGED <<standing, token>>,
         Becomes(Landed(TRUE, s))
  PROVE  SessionInv'
<1>1. PICK t : t = Landed(TRUE, s)
  OBVIOUS
<1>2. Landing(s, t) /\ OwnerSettles(t)
  BY <1>1, LandedOf
<1>3. t \in States /\ cur' = t
  BY <1>1, <1>2, CurOf DEF Landing
<1>4. token' = token /\ Granting' = Granting /\ \A r : OwnOr(r)' = OwnOr(r)
  BY DEF Granting, OwnOr
<1>5. token /\ ~ t.app.validation => Within(t, Granting)
  BY <1>2 DEF Landing, Fit
<1>6. ASSUME NEW r \in t.asks, r.kind = "role"
      PROVE  /\ t.app.validation /\ (t.app.loading => t.app.project = NoProject)
             /\ Within(t, OwnOr(r)) /\ r \in s.asks
  <2>1. r \in s.asks
    BY <1>2, <1>6 DEF Landing
  <2>2. /\ s.app.validation /\ (s.app.loading => s.app.project = NoProject)
        /\ Within(s, OwnOr(r))
    BY <1>6, <2>1 DEF Fit
  <2> QED
    BY <1>2, <2>1, <2>2 DEF Landing
<1>7. \A q, r \in t.asks : q.kind = "role" /\ r.kind = "role" => q = r
  BY <1>6 DEF Fit
<1>8. Fit(cur)'
  BY <1>3, <1>4, <1>5, <1>6, <1>7 DEF Fit
<1>9. OwnerSettles(cur)'
  BY <1>2, <1>3 DEF OwnerSettles
<1> QED
  BY <1>3, <1>8, <1>9 DEF SessionInv

\* Without a project nothing is shown.
LEMMA Nowhere ==
  ASSUME NEW t \in States, t.app.project = NoProject, NoRole(t), Becomes(t)
  PROVE  SessionInv'
<1>1. cur' = t
  BY CurOf
<1>2. Fit(cur)' /\ OwnerSettles(cur)'
  BY <1>1 DEF Fit, OwnerSettles, Within, NoRole
<1> QED
  BY <1>1, <1>2 DEF SessionInv

\* Other requests come and go.
LEMMA AsksOnly ==
  ASSUME SessionInv, UNCHANGED <<standing, token, url, app>>, asks' \subseteq Asked,
         \A r \in asks' : r.kind = "role" => r \in asks
  PROVE  SessionInv'
<1>1. /\ cur.url = url /\ cur.app = app /\ cur.asks = asks
      /\ url \in Urls /\ app \in Apps
  BY CurIs DEF SessionInv
<1>2. cur' \in States /\ cur'.url = url /\ cur'.app = app /\ cur'.asks = asks'
  BY <1>1, NowOf DEF cur, Now
<1>3. token' = token /\ Granting' = Granting /\ \A r : OwnOr(r)' = OwnOr(r)
  BY DEF Granting, OwnOr
<1>4. \A A : Within(cur, A) => Within(cur', A)
  BY <1>1, <1>2 DEF Within
<1>5. Fit(cur)'
  BY <1>1, <1>2, <1>3, <1>4 DEF Fit, SessionInv
<1>6. OwnerSettles(cur) => OwnerSettles(cur)'
  BY <1>1, <1>2 DEF OwnerSettles
<1> QED
  BY <1>2, <1>3, <1>5, <1>6 DEF SessionInv

\* A page is loaded.
LEMMA LoadOf ==
  ASSUME NEW signedIn \in BOOLEAN, NEW u \in Urls, Load(signedIn, u), token' => signedIn
  PROVE  SessionInv'
<1>1. PICK s0 : s0 = [url |-> u, app |-> Routes(u), asks |-> {}]
  OBVIOUS
<1>2. u.project \in Places /\ u.role \in Roles /\ u.path \in Paths
  BY DEF Urls
<1>3. PICK a0 : a0 = Routes(u)
  OBVIOUS
<1>4. /\ Routes(u) = a0 /\ a0 \in Apps /\ ~ a0.loading
      /\ a0.project = u.project /\ a0.role = u.role
  <2>1. PICK x : x = [project |-> NoProject, role |-> "",
                      loading |-> FALSE, validation |-> FALSE]
    OBVIOUS
  <2>2. x \in Apps /\ ~ x.loading
    BY <2>1, Named DEF Apps
  <2>3. a0 = [x EXCEPT !.project = u.project, !.role = u.role]
    BY <1>3, <2>1 DEF Routes, WithParams
  <2> QED
    BY <1>2, <1>3, <2>2, <2>3 DEF Apps
<1>5. s0 \in States /\ s0.url = u /\ s0.app = a0 /\ s0.asks = {}
  BY <1>1, <1>4, NowOf
<1>6. PICK A : A = {<<u.project, u.role>>}
  OBVIOUS
<1>7. Within(s0, A)
  BY <1>4, <1>5, <1>6 DEF Within
<1>8. PICK s : s = Landed(signedIn, s0)
  OBVIOUS
<1>9. Landing(s0, s)
  BY <1>5, <1>8, LandedOf
<1>10. /\ s \in States /\ Within(s, A)
       /\ s.app.loading => s.app.project = NoProject
       /\ u.project = NoProject => s.app.project = NoProject
  BY <1>4, <1>5, <1>7, <1>9 DEF Landing
<1>11. PICK q : q = {r \in s.asks : r.kind = "owner"}
  OBVIOUS
<1>12. q \subseteq Asked /\ \A r \in q : r.kind = "owner"
  BY <1>10, <1>11, StateTypes
<1>13. PICK b \in BOOLEAN, v \in BOOLEAN :
         /\ b = (s.app.loading \/ (signedIn /\ u.project = NoProject))
         /\ v = (signedIn /\ u.project # NoProject)
  BY <1>10, StateTypes
<1>14. PICK a : a = [s.app EXCEPT !.loading = b, !.validation = v]
  OBVIOUS
<1>15. /\ a \in Apps /\ a.loading = b /\ a.validation = v
       /\ a.project = s.app.project /\ a.role = s.app.role
  BY <1>10, <1>14, StateTypes DEF Apps
<1>16. url' = s.url /\ app' = a
  BY <1>1, <1>8, <1>13, <1>14 DEF Load
<1>17. PICK o, g : /\ o = Ask("owner", u.path, NoProject, "")
                   /\ g = Ask("role", u.path, u.project, u.role)
  OBVIOUS
<1>18. /\ o \in Asked /\ o.kind = "owner"
       /\ g \in Asked /\ g.kind = "role" /\ g.project = u.project /\ g.role = u.role
  BY <1>2, <1>17, Named DEF Ask, Asked
<1>19. \/ ~ signedIn /\ asks' = {} \cup q
       \/ signedIn /\ u.project = NoProject /\ asks' = {o} \cup q
       \/ signedIn /\ u.project # NoProject /\ asks' = {g} \cup q
  BY <1>1, <1>8, <1>11, <1>17 DEF Load, getProjectValidation
<1>20. asks' \subseteq Asked
  BY <1>12, <1>18, <1>19
<1>21. s.url \in Urls
  BY <1>10, StateTypes
<1>22. /\ cur' \in States /\ cur'.url = s.url /\ cur'.app = a /\ cur'.asks = asks'
  BY <1>15, <1>16, <1>20, <1>21, NowOf DEF cur, Now
<1>23. CASE ~ signedIn \/ u.project = NoProject
  <2>1. \A r \in asks' : r.kind # "role"
    BY <1>12, <1>18, <1>19, <1>23
  <2>2. signedIn => a.project = NoProject
    BY <1>10, <1>15, <1>23
  <2>3. Fit(cur)' /\ (signedIn => OwnerSettles(cur)')
    BY <1>22, <2>1, <2>2 DEF Fit, Within, OwnerSettles
  <2> QED
    BY <1>22, <2>3 DEF SessionInv
<1>24. CASE signedIn /\ u.project # NoProject
  <2>1. v /\ (b => s.app.loading)
    BY <1>13, <1>24
  <2>2. \A r \in asks' : r.kind = "role" => r = g
    BY <1>12, <1>18, <1>19, <1>24
  <2>3. A \subseteq OwnOr(g)'
    BY <1>2, <1>6, <1>18 DEF OwnOr
  <2>4. Within(cur', OwnOr(g)')
    BY <1>10, <1>15, <1>22, <2>3 DEF Within
  <2>5. Fit(cur)'
    BY <1>10, <1>15, <1>22, <2>1, <2>2, <2>4 DEF Fit
  <2>6. OwnerSettles(cur)'
    BY <1>15, <1>22, <2>1 DEF OwnerSettles
  <2> QED
    BY <1>22, <2>5, <2>6 DEF SessionInv
<1> QED
  BY <1>23, <1>24

\* The same of a user who is signed in.
LEMMA MovedIn ==
  ASSUME NEW s \in States, NEW u \in Urls
  PROVE  LET t == Moved(TRUE, s, u) IN
         /\ t \in States /\ t.url = u
         /\ u.path = "login" => t.app = s.app
         /\ u.path # "login" => t.app.project = u.project /\ t.app.role = u.role
         /\ \A r \in t.asks \ s.asks : r.kind = "owner"
<1>1. PICK b \in BOOLEAN : b = TRUE
  OBVIOUS
<1>2. PICK t : t = Moved(b, s, u)
  OBVIOUS
<1>3. /\ t \in States /\ t.url = u
      /\ u.path = "login" => t.app = s.app
      /\ u.path # "login" => t.app.project = u.project /\ t.app.role = u.role
      /\ \A r \in t.asks \ s.asks : r.kind = "owner"
  BY <1>2, MovedOf
<1>4. t = Moved(TRUE, s, u)
  BY <1>1, <1>2
<1> QED
  BY <1>3, <1>4

LEMMA MovedFit ==
  ASSUME NEW s \in States, NEW u \in Urls, NoRole(s), Within(s, Granting),
         u.path # "login" => <<u.project, u.role>> \in Granting
  PROVE  LET t == Moved(TRUE, s, u) IN t \in States /\ Fit(t)
<1>1. PICK t : t = Moved(TRUE, s, u)
  OBVIOUS
<1>2. /\ t \in States /\ t.url = u
      /\ u.path = "login" => t.app = s.app
      /\ u.path # "login" => t.app.project = u.project /\ t.app.role = u.role
      /\ \A r \in t.asks \ s.asks : r.kind = "owner"
  BY <1>1, MovedIn
<1>3. Within(t, Granting)
  BY <1>2 DEF Within
<1>4. \A r \in t.asks : r.kind # "role"
  BY <1>2 DEF NoRole
<1>5. Fit(t)
  BY <1>3, <1>4 DEF Fit
<1> QED
  BY <1>1, <1>2, <1>5

LEMMA NoRoleFit == ASSUME NEW s, NoRole(s), Within(s, Granting) PROVE Fit(s)
BY DEF Fit, NoRole

\* A request that is answered.
LEMMA AskOf ==
  ASSUME SessionInv, NEW r \in asks
  PROVE  /\ r \in Asked /\ r.base \in Paths /\ r.project \in Places /\ r.role \in Roles
         /\ url \in Urls /\ app \in Apps /\ asks \ {r} \in SUBSET Asked
         /\ r.kind = "role" => \A q \in asks \ {r} : q.kind # "role"
<1>1. url \in Urls /\ app \in Apps /\ asks \subseteq Asked /\ cur.asks = asks
  BY CurIs DEF SessionInv
<1>2. r.base \in Paths /\ r.project \in Places /\ r.role \in Roles
  BY <1>1 DEF Asked
<1> QED
  BY <1>1, <1>2 DEF SessionInv, Fit

LEMMA OwnerInv ==
  ASSUME SessionInv, NEW r \in asks,
         \/ OwnerProjects(r)
         \/ RequestFailed(r) /\ r.kind = "owner"
  PROVE  SessionInv'
<1>1. /\ r \in Asked /\ r.base \in Paths /\ url \in Urls /\ app \in Apps
      /\ asks \ {r} \in SUBSET Asked
  BY AskOf
<1>2. PICK rest : rest = asks \ {r}
  OBVIOUS
<1>3. UNCHANGED <<standing, token>> /\ rest \in SUBSET Asked /\ rest \subseteq asks
  BY <1>1, <1>2 DEF OwnerProjects, RequestFailed
<1>4. cur.url = url /\ cur.app = app /\ cur.asks = asks
  BY CurIs
<1>5. ASSUME Becomes(Landed(TRUE, Now([app EXCEPT !.loading = FALSE], rest)))
      PROVE  SessionInv'
  <2>1. PICK a : a = [app EXCEPT !.loading = FALSE]
    OBVIOUS
  <2>2. /\ a \in Apps /\ ~ a.loading /\ a.validation = app.validation
        /\ a.project = app.project /\ a.role = app.role
    BY <1>1, <2>1 DEF Apps
  <2>3. PICK s : s = [url |-> url, app |-> a, asks |-> rest]
    OBVIOUS
  <2>4. s \in States /\ s.url = url /\ s.app = a /\ s.asks = rest
    BY <1>1, <1>3, <2>2, <2>3, NowOf
  <2>5. \A A : Within(cur, A) => Within(s, A)
    BY <1>4, <2>2, <2>4 DEF Within
  <2>6. Fit(s)
    BY <1>3, <1>4, <2>2, <2>4, <2>5 DEF SessionInv, Fit
  <2>7. Becomes(Landed(TRUE, s))
    BY <1>5, <2>1, <2>3 DEF Now
  <2> QED
    BY <1>3, <2>4, <2>6, <2>7, Lands
<1>6. ASSUME NEW p \in Owned(standing),
             Becomes(Landed(TRUE,
               [url |-> At(r.base, p, "Owner"), asks |-> rest,
                app |-> [app EXCEPT !.loading = FALSE, !.project = p, !.role = "Owner"]]))
      PROVE  SessionInv'
  <2>1. p \in Places /\ standing[p] = "Owner" /\ "Owner" \in Roles
    BY Named DEF Owned, Places
  <2>2. PICK a : a = [app EXCEPT !.loading = FALSE, !.project = p, !.role = "Owner"]
    OBVIOUS
  <2>3. /\ a \in Apps /\ ~ a.loading /\ a.validation = app.validation
        /\ a.project = p /\ a.role = "Owner"
    BY <1>1, <2>1, <2>2 DEF Apps
  <2>4. PICK u : u = At(r.base, p, "Owner")
    OBVIOUS
  <2>5. u \in Urls /\ u.project = p /\ u.role = "Owner"
    BY <1>1, <2>1, <2>4 DEF At, Urls
  <2>6. PICK s : s = [url |-> u, app |-> a, asks |-> rest]
    OBVIOUS
  <2>7. s \in States /\ s.url = u /\ s.app = a /\ s.asks = rest
    BY <1>3, <2>3, <2>5, <2>6, NowOf
  <2>8. Within(s, Granting)
    BY <2>1, <2>3, <2>5, <2>7 DEF Within, Granting
  <2>9. \A q : Within(s, OwnOr(q))
    BY <2>1, <2>3, <2>5, <2>7 DEF Within, OwnOr
  <2>10. Fit(s)
    BY <1>3, <1>4, <2>3, <2>7, <2>8, <2>9 DEF SessionInv, Fit
  <2>11. Becomes(Landed(TRUE, s))
    BY <1>6, <2>2, <2>4, <2>6
  <2> QED
    BY <1>3, <2>7, <2>10, <2>11, Lands
<1> QED
  BY <1>2, <1>5, <1>6 DEF OwnerProjects, RequestFailed

\* The project is forgotten, and perhaps looked up.
LEMMA ForgottenOf ==
  ASSUME SessionInv, NEW r \in asks, r.kind = "role", NEW a \in Apps
  PROVE  LET t == WithLoading(Forgotten(a, r)) IN
         t \in States /\ t.app.project = NoProject /\ NoRole(t)
<1>1. /\ url \in Urls /\ asks \ {r} \in SUBSET Asked /\ \A q \in asks \ {r} : q.kind # "role"
  BY AskOf
<1>2. PICK c : c = [a EXCEPT !.project = NoProject, !.role = ""]
  OBVIOUS
<1>3. c \in Apps /\ c.project = NoProject
  BY <1>2, Named DEF Apps
<1>4. PICK o : o = Ask("owner", url.path, NoProject, "")
  OBVIOUS
<1>5. o \in Asked /\ o.kind = "owner"
  BY <1>1, <1>4, Named DEF Ask, Asked, Urls
<1>6. PICK q : q = (asks \ {r}) \cup (IF app.project # NoProject THEN {o} ELSE {})
  OBVIOUS
<1>7. q \in SUBSET Asked /\ \A x \in q : x.kind # "role"
  BY <1>1, <1>5, <1>6
<1>8. PICK s : s = [url |-> url, app |-> c, asks |-> q]
  OBVIOUS
<1>9. s \in States /\ s.app = c /\ s.asks = q
  BY <1>1, <1>3, <1>7, <1>8, NowOf
<1>10. PICK f : f = Landed(TRUE, s)
  OBVIOUS
<1>11. Forgotten(a, r) = f
  BY <1>2, <1>4, <1>6, <1>8, <1>10 DEF Forgotten, Cleared, Now
<1>12. f \in States /\ f.app.project = NoProject /\ \A x \in f.asks : x.kind # "role"
  BY <1>3, <1>7, <1>9, <1>10, LandedOf DEF Landing
<1>13. PICK b \in BOOLEAN : b = (f.app.loading \/ \E x \in f.asks : x.kind = "owner")
  OBVIOUS
<1>14. PICK g : g = [f.app EXCEPT !.loading = b]
  OBVIOUS
<1>15. g \in Apps /\ g.project = f.app.project
  BY <1>12, <1>14, StateTypes DEF Apps
<1>16. PICK t : t = [f EXCEPT !.app = g]
  OBVIOUS
<1>17. WithLoading(f) = t
  BY <1>12, <1>13, <1>14, <1>16 DEF WithLoading, States
<1>18. t \in States /\ t.app = g /\ t.asks = f.asks
  BY <1>12, <1>15, <1>16 DEF States
<1> QED
  BY <1>11, <1>12, <1>15, <1>17, <1>18 DEF NoRole

LEMMA RoleInv ==
  ASSUME SessionInv, NEW r \in asks, ProjectRole(r)
  PROVE  SessionInv'
<1>1. /\ r \in Asked /\ r.base \in Paths /\ r.project \in Places /\ r.role \in Roles
      /\ url \in Urls /\ app \in Apps /\ r.kind = "role"
      /\ UNCHANGED <<standing, token>>
  BY AskOf DEF ProjectRole
<1>2. PICK rest : rest = asks \ {r}
  OBVIOUS
<1>3. rest \in SUBSET Asked /\ \A q \in rest : q.kind # "role"
  BY <1>1, <1>2, AskOf
<1>4. Within(cur, OwnOr(r)) /\ cur.url = url /\ cur.app = app
  BY <1>1, CurIs DEF SessionInv, Fit
<1>5. ASSUME NEW role \in {"Owner", "Viewer"}, standing[r.project] = role,
             Becomes(Granted(r, role))
      PROVE  SessionInv'
  <2>1. PICK a : a = [app EXCEPT !.role = role, !.validation = FALSE]
    OBVIOUS
  <2>2. a \in Apps /\ ~ a.validation /\ a.project = app.project /\ a.role = role
    BY <1>1, <2>1, Named DEF Apps
  <2>3. PICK s : s = [url |-> url, app |-> a, asks |-> rest]
    OBVIOUS
  <2>4. s \in States /\ s.url = url /\ s.app = a /\ s.asks = rest /\ NoRole(s)
    BY <1>1, <1>3, <2>2, <2>3, NowOf DEF NoRole
  <2>5. s = Now(a, rest)
    BY <2>3 DEF Now
  <2>6. app.project # NoProject =>
          app.project \in Places /\ (role = "Owner" => standing[app.project] = "Owner")
    BY <1>4, <1>5 DEF Within, OwnOr
  <2>7. a.project # NoProject => <<a.project, a.role>> \in Granting
    BY <2>2, <2>6, Named DEF Granting
  <2>8. CASE role = r.role
    <3>1. /\ app.project # NoProject /\ url.path # "login" =>
               url.project = app.project /\ <<url.project, url.role>> \in Granting
      BY <1>4, <1>5, <2>8 DEF Within, OwnOr, Granting
    <3>2. Within(s, Granting)
      BY <2>2, <2>4, <2>7, <3>1 DEF Within
    <3>3. Becomes(Landed(TRUE, s))
      BY <1>2, <1>5, <2>1, <2>5, <2>8 DEF Granted
    <3> QED
      BY <1>1, <2>4, <3>2, <3>3, Lands, NoRoleFit
  <2>9. CASE role # r.role
    <3>1. PICK u : u = At(r.base, r.project, role)
      OBVIOUS
    <3>2. u \in Urls /\ u.path = r.base /\ u.project = r.project /\ u.role = role
      BY <1>1, <3>1, Named DEF At, Urls
    <3>3. <<u.project, u.role>> \in Granting
      BY <1>1, <1>5, <3>2, Named DEF Granting
    <3>4. PICK t : t = Moved(TRUE, s, u)
      OBVIOUS
    <3>5. /\ t \in States /\ t.url = u
          /\ u.path = "login" => t.app = s.app
          /\ u.path # "login" => t.app.project = u.project /\ t.app.role = u.role
          /\ \A x \in t.asks \ s.asks : x.kind = "owner"
      BY <2>4, <3>2, <3>4, MovedIn
    <3>6. Within(t, Granting)
      BY <2>4, <2>7, <3>3, <3>5 DEF Within
    <3>7. NoRole(t)
      BY <2>4, <3>5 DEF NoRole
    <3>8. Becomes(Landed(TRUE, t))
      BY <1>2, <1>5, <2>1, <2>5, <2>9, <3>1, <3>4 DEF Granted
    <3> QED
      BY <1>1, <3>5, <3>6, <3>7, <3>8, Lands, NoRoleFit
  <2> QED
    BY <2>8, <2>9
<1>6. PICK a : a = [app EXCEPT !.validation = FALSE]
  OBVIOUS
<1>7. a \in Apps
  BY <1>1, <1>6 DEF Apps
<1>8. PICK s : s = WithLoading(Forgotten(a, r))
  OBVIOUS
<1>9. s \in States /\ s.app.project = NoProject /\ NoRole(s)
  BY <1>1, <1>7, <1>8, ForgottenOf
<1>10. ASSUME Becomes(s) PROVE SessionInv'
  BY <1>9, <1>10, Nowhere
<1>11. PICK u : u = At(r.base, r.project, "undefined")
  OBVIOUS
<1>12. ASSUME Becomes(Landed(TRUE, Moved(TRUE, s, u))) PROVE SessionInv'
  <2>1. u \in Urls /\ <<u.project, u.role>> \in Granting
    BY <1>1, <1>11, Named DEF At, Urls, Granting
  <2>2. Within(s, Granting)
    BY <1>9 DEF Within
  <2> QED
    BY <1>1, <1>9, <1>12, <2>1, <2>2, MovedFit, Lands
<1>13. \/ /\ standing[r.project] \in {"Owner", "Viewer"}
          /\ Becomes(Granted(r, standing[r.project]))
       \/ Becomes(s)
       \/ Becomes(Landed(TRUE, Moved(TRUE, s, u)))
  BY <1>6, <1>8, <1>11 DEF ProjectRole
<1> QED
  BY <1>5, <1>10, <1>12, <1>13

LEMMA PushInv ==
  ASSUME SessionInv, Pages, NEW u \in Urls, <<u.project, u.role>> \in Granting,
         Push(u), UNCHANGED <<standing, token>>
  PROVE  SessionInv'
<1>1. /\ cur \in States /\ cur.app = app /\ cur.asks = asks
      /\ token /\ ~ app.validation
  BY CurIs DEF SessionInv, Pages
<1>2. NoRole(cur) /\ Within(cur, Granting)
  BY <1>1 DEF SessionInv, Fit, NoRole
<1>3. Becomes(Landed(TRUE, Moved(TRUE, cur, u)))
  BY DEF Push, cur
<1> QED
  BY <1>1, <1>2, <1>3, MovedFit, Lands

LEMMA PagesInv ==
  ASSUME SessionInv,
         \/ \E path \in Paths : SideBar(path)
         \/ \E p \in Projects : SelectProject(p)
  PROVE  SessionInv'
<1>1. url \in Urls /\ Pages /\ UNCHANGED <<standing, token>>
  BY CurIs DEF SessionInv, SideBar, SelectProject
<1>2. url.path \in Paths /\ url.project \in Places /\ url.role \in Roles
  BY <1>1 DEF Urls
<1>3. <<url.project, url.role>> \in Granting
  <2>1. Within(cur, Granting) /\ cur.url = url /\ cur.app = app
    BY <1>1, CurIs DEF SessionInv, Fit, Pages
  <2> QED
    BY <1>1, <2>1 DEF Within, Pages
<1>4. ASSUME NEW path \in Paths, SideBar(path) PROVE SessionInv'
  <2>1. PICK u : u = At(path, url.project, url.role)
    OBVIOUS
  <2>2. u \in Urls /\ u.project = url.project /\ u.role = url.role
    BY <1>2, <2>1 DEF At, Urls
  <2>3. Push(u)
    BY <1>4, <2>1 DEF SideBar
  <2> QED
    BY <1>1, <1>3, <2>2, <2>3, PushInv
<1>5. ASSUME NEW p \in Projects, SelectProject(p) PROVE SessionInv'
  <2>1. standing[p] \in {"Owner", "Viewer"} /\ p \in Places /\ standing[p] \in Roles
    BY <1>5, Named DEF SelectProject, Places
  <2>2. PICK path \in Paths : path = IF standing[p] = "Owner" THEN url.path ELSE "home"
    BY <1>2, Named
  <2>3. PICK u : u = At(path, p, standing[p])
    OBVIOUS
  <2>4. u \in Urls /\ u.project = p /\ u.role = standing[p]
    BY <2>1, <2>3 DEF At, Urls
  <2>5. <<u.project, u.role>> \in Granting
    BY <2>1, <2>4 DEF Granting
  <2>6. Push(u)
    BY <1>5, <2>2, <2>3 DEF SelectProject
  <2> QED
    BY <1>1, <2>4, <2>5, <2>6, PushInv
<1> QED
  BY <1>4, <1>5

LEMMA LoadInv ==
  ASSUME SessionInv, token \in BOOLEAN,
         \/ \E u \in Urls : TypeUrl(u)
         \/ logout
         \/ \E r \in asks : \/ LoggedIn(r) \/ UserNotFound(r)
                            \/ \E p \in Projects : Created(r, p)
  PROVE  SessionInv' /\ token' \in BOOLEAN
<1>1. url \in Urls
  BY CurIs DEF SessionInv
<1>2. Bare("getStarted") \in Urls /\ Bare("home") \in Urls
  BY BareOf, Named
<1>3. \/ \E u \in Urls : Load(token, u) /\ token' = token
      \/ \E u \in Urls : Load(TRUE, u) /\ token' \in BOOLEAN
      \/ \E u \in Urls : Load(FALSE, u) /\ token' = FALSE
  BY <1>1, <1>2 DEF TypeUrl, logout, LoggedIn, UserNotFound,
                    Created, setCookie
<1>4. \E b \in BOOLEAN : \E u \in Urls :
        Load(b, u) /\ (token' => b) /\ token' \in BOOLEAN
  BY <1>3
<1> QED
  BY <1>4, LoadOf

LEMMA SessionStep ==
  ASSUME SessionInv, token \in BOOLEAN, SessionNext
  PROVE  SessionInv' /\ token' \in BOOLEAN
<1>1. asks \subseteq Asked /\ url \in Urls
  BY CurIs DEF SessionInv
<1>2. ASSUME UNCHANGED <<standing, token, url, app>>, asks' \subseteq Asked,
             \A r \in asks' : r.kind = "role" => r \in asks
      PROVE  SessionInv' /\ token' \in BOOLEAN
  BY <1>2, AsksOnly
<1>3. ASSUME NEW r \in asks, LoginRefused(r) \/ UserFound(r) \/ NotCreated(r)
      PROVE  SessionInv' /\ token' \in BOOLEAN
  <2>1. asks' = asks \ {r} /\ UNCHANGED <<standing, token, url, app>>
    BY <1>3 DEF LoginRefused, UserFound, NotCreated
  <2> QED
    BY <1>1, <1>2, <2>1
<1>4. ASSUME Login \/ createProject
      PROVE  SessionInv' /\ token' \in BOOLEAN
  <2>1. PICK A : A = {Ask(kind, "", NoProject, "") : kind \in {"login", "create", "user"}}
    OBVIOUS
  <2>2. \A x \in A : x \in Asked /\ x.kind # "role"
    <3>1. ASSUME NEW x \in A PROVE x \in Asked /\ x.kind # "role"
      <4>1. PICK kind \in {"login", "create", "user"} :
                    x = Ask(kind, "", NoProject, "")
        BY <2>1
      <4>2. x = [kind |-> kind, base |-> "", project |-> NoProject, role |-> ""]
        BY <4>1 DEF Ask
      <4>3. kind # "role" /\ kind \in {"owner", "role", "login", "user", "create"}
        OBVIOUS
      <4> QED
        BY <4>2, <4>3, Named DEF Asked
    <3> QED
      BY <3>1
  <2>3. UNCHANGED <<standing, token, url, app>> /\ asks' \subseteq asks \cup A
    BY <1>4, <2>1 DEF Login, createProject
  <2> QED
    BY <1>1, <1>2, <2>2, <2>3
<1>5. ASSUME NEW r \in asks, OwnerProjects(r) \/ ProjectRole(r)
      PROVE  SessionInv' /\ token' \in BOOLEAN
  <2>1. token' = token
    BY <1>5 DEF OwnerProjects, ProjectRole
  <2> QED
    BY <1>5, <2>1, OwnerInv, RoleInv
<1>6. ASSUME NEW r \in asks, RequestFailed(r)
      PROVE  SessionInv' /\ token' \in BOOLEAN
  <2>1. token' = token
    BY <1>6 DEF RequestFailed
  <2>2. CASE r.kind = "owner"
    BY <1>6, <2>1, <2>2, OwnerInv
  <2>3. CASE r.kind = "role"
    <3>1. app \in Apps
      BY AskOf
    <3>2. PICK t : t = WithLoading(Forgotten(app, r))
      OBVIOUS
    <3>3. t \in States /\ t.app.project = NoProject /\ NoRole(t)
      BY <2>3, <3>1, <3>2, ForgottenOf
    <3>4. Becomes(t)
      BY <1>6, <2>3, <3>2 DEF RequestFailed
    <3> QED
      BY <2>1, <3>3, <3>4, Nowhere
  <2>4. r.kind \in {"owner", "role"}
    BY <1>6 DEF RequestFailed
  <2> QED
    BY <2>2, <2>3, <2>4
<1>7. ASSUME NEW r \in asks, Answers(r) PROVE SessionInv' /\ token' \in BOOLEAN
  BY <1>3, <1>5, <1>6, <1>7, LoadInv DEF Answers
<1>8. ASSUME UserActs PROVE SessionInv' /\ token' \in BOOLEAN
  <2>1. ASSUME NEW path \in Paths, TypeUrl(Bare(path))
        PROVE  SessionInv' /\ token' \in BOOLEAN
    BY <2>1, BareOf, LoadInv
  <2>2. ASSUME NEW path \in Paths, NEW p \in Projects, NEW role \in {"Owner", "Viewer"},
               TypeUrl(At(path, p, role))
        PROVE  SessionInv' /\ token' \in BOOLEAN
    <3>1. PICK u : u = At(path, p, role)
      OBVIOUS
    <3>2. u \in Urls
      BY <3>1, Named DEF At, Urls, Places
    <3> QED
      BY <2>2, <3>1, <3>2, LoadInv
  <2>3. ASSUME \/ \E path \in Paths : SideBar(path)
               \/ \E p \in Projects : SelectProject(p)
        PROVE  SessionInv' /\ token' \in BOOLEAN
    <3>1. token' = token
      BY <2>3 DEF SideBar, SelectProject
    <3> QED
      BY <2>3, <3>1, PagesInv
  <2> QED
    BY <1>4, <1>8, <2>1, <2>2, <2>3, LoadInv DEF UserActs
<1> QED
  BY <1>7, <1>8 DEF SessionNext, AnswersCome

LEMMA SessionInitInv == SessionInit => SessionInv /\ token \in BOOLEAN
<1> SUFFICES ASSUME SessionInit PROVE SessionInv /\ token \in BOOLEAN
  OBVIOUS
<1>1. token = FALSE /\ url = Bare("login") /\ app = Routes(url) /\ asks = {}
  BY DEF SessionInit
<1>2. url \in Urls
  BY <1>1, BareOf, Named
<1>3. PICK x : x = [project |-> NoProject, role |-> "",
                    loading |-> FALSE, validation |-> FALSE]
  OBVIOUS
<1>4. x \in Apps
  BY <1>3, Named DEF Apps
<1>5. app = [x EXCEPT !.project = url.project, !.role = url.role]
  BY <1>1, <1>3 DEF Routes, WithParams
<1>6. app \in Apps
  BY <1>2, <1>4, <1>5 DEF Apps, Urls
<1>7. cur \in States /\ cur.asks = {}
  BY <1>1, <1>2, <1>6, NowOf DEF cur, Now
<1>8. Fit(cur)
  BY <1>1, <1>7 DEF Fit
<1> QED
  BY <1>1, <1>7, <1>8 DEF SessionInv

LEMMA SessionInvariance == SessionSpec => [](SessionInv /\ token \in BOOLEAN)
<1>1. (SessionInv /\ token \in BOOLEAN) /\ [SessionNext]_(sessionVars)
        => (SessionInv /\ token \in BOOLEAN)'
  <2>1. ASSUME SessionInv, token \in BOOLEAN, SessionNext
        PROVE  (SessionInv /\ token \in BOOLEAN)'
    BY <2>1, SessionStep
  <2>2. ASSUME SessionInv, token \in BOOLEAN, UNCHANGED sessionVars
        PROVE  (SessionInv /\ token \in BOOLEAN)'
    BY <2>2 DEF sessionVars, SessionInv, Fit, OwnerSettles, Within, Granting, OwnOr, cur, Now
  <2> QED
    BY <2>1, <2>2
<1> QED
  BY <1>1, SessionInitInv, PTL DEF SessionSpec

\* Whatever role and project are typed into the address, and whichever
\* lookups fail, overlap or come late: once the answers are there, the pages
\* and Routes are about one project and show no more than the user was
\* granted in it; for any projects, and whatever the user is in them.
THEOREM SessionShowsTheGranted == SessionSpec => []NoMoreThanGranted
<1>1. SessionInv => NoMoreThanGranted
  <2>1. SUFFICES ASSUME SessionInv, AtRest
        PROVE  /\ url.project = app.project
               /\ \A role \in {url.role, app.role} :
                    role = "Owner" => standing[app.project] = "Owner"
               /\ url.path = "settings" => standing[app.project] = "Owner"
    BY DEF NoMoreThanGranted
  <2>2. /\ cur.url = url /\ cur.app = app /\ token /\ app.project # NoProject
        /\ ~ app.loading /\ ~ app.validation /\ url.path # "login"
    BY <2>1, CurIs DEF AtRest, Pages
  <2>3. Within(cur, Granting) /\ OwnerSettles(cur)
    BY <2>1, <2>2 DEF SessionInv, Fit
  <2>4. /\ url.project = app.project /\ <<app.project, app.role>> \in Granting
        /\ <<url.project, url.role>> \in Granting
    BY <2>2, <2>3 DEF Within
  <2>5. \A role : <<app.project, role>> \in Granting /\ role = "Owner"
                   => standing[app.project] = "Owner"
    BY DEF Granting
  <2>6. url.path = "settings" => app.role = "Owner"
    BY <2>2, <2>3 DEF OwnerSettles
  <2> QED
    BY <2>4, <2>5, <2>6
<1> QED
  BY <1>1, SessionInvariance, PTL

-----------------------------------------------------------------------------
(* Redirects and lookups do not chase each other.  A lookup leads back to  *)
(* the page its project was lost on; Weight bounds the lookups that makes. *)

\* An owner is not redirected away from the other pages with his project.
Weight(path) == IF path \in {"", "getStarted", "login"} THEN 2 ELSE 1

Lookups(q) == {r \in q : r.kind = "owner"}

\* One lookup at a time, and nothing is shown until it is answered.
Waits(s) == /\ \A r \in Lookups(s.asks) : s.app.loading
            /\ \A q, r \in Lookups(s.asks) : q = r

\* Two lookups at most, those under way included.
InTime(s, n) ==
  \A r \in Lookups(s.asks) :
    /\ n + Weight(r.base) <= 2
    /\ s.app.project # NoProject /\ Owned(standing) = {} => n = 0

\* While a role is asked for there is time for one, which an owner leads to a
\* page he may stay on.
WhileAsked(s, n) ==
  \A r \in s.asks : r.kind = "role" =>
    /\ r.project # NoProject /\ n <= 1
    /\ \A q \in Lookups(s.asks) : n + Weight(q.base) <= 1
    /\ n = 1 /\ s.app.project # NoProject =>
         Weight(s.url.path) = 1 /\ Owned(standing) # {}

Chasing(s, n) == n \in 0 .. 2 /\ Waits(s) /\ InTime(s, n) /\ WhileAsked(s, n)

Chase == Chasing(cur, lookups)

\* From s to t, by redirects: a lookup is asked for when the project is lost,
\* on a page an owner stays on, and so once.
Loses(signedIn, s, t) ==
  /\ t.app.loading = s.app.loading /\ t.app.validation = s.app.validation
  /\ s.app.project = NoProject => t.app.project = NoProject
  /\ signedIn /\ s.app.project # NoProject /\ (s.app.loading \/ s.app.validation) => t = s
  /\ s.asks \subseteq t.asks
  /\ \A r \in t.asks \ s.asks :
       /\ r.kind = "owner" /\ Weight(r.base) = 1
       /\ signedIn /\ s.app.project # NoProject /\ t.app.project = NoProject
  /\ \A q, r \in t.asks \ s.asks : q = r

LEMMA Weights ==
  ASSUME NEW path
  PROVE  /\ path \in {"", "getStarted", "login"} => Weight(path) = 2
         /\ path \notin {"", "getStarted", "login"} => Weight(path) = 1
BY DEF Weight

\* What Routes asks when it moves.
LEMMA MovedAsks ==
  ASSUME NEW signedIn \in BOOLEAN, NEW s \in States, NEW u \in Urls,
         NEW r \in Moved(signedIn, s, u).asks, r \notin s.asks
  PROVE  /\ r.kind = "owner" /\ r.base = u.path
         /\ signedIn /\ s.app.project # NoProject
         /\ Moved(signedIn, s, u).app.project = NoProject
         /\ \A q \in Moved(signedIn, s, u).asks : q \in s.asks \/ q = r
<1>1. PICK a : a = Follow(u, s.app)
  OBVIOUS
<1>2. PICK g : g = Ask("owner", u.path, NoProject, "")
  OBVIOUS
<1>3. g.kind = "owner" /\ g.base = u.path
  BY <1>2 DEF Ask
<1>4. PICK x : x = IF signedIn /\ s.app.project # NoProject /\ a.project = NoProject
                   THEN s.asks \cup {g} ELSE s.asks
  OBVIOUS
<1>5. PICK t : t = [url |-> u, app |-> a, asks |-> x]
  OBVIOUS
<1>6. Moved(signedIn, s, u) = t
  BY <1>1, <1>2, <1>4, <1>5 DEF Moved
<1>7. t.app = a /\ t.asks = x
  BY <1>5
<1>8. r = g /\ signedIn /\ s.app.project # NoProject /\ a.project = NoProject
  BY <1>4, <1>6, <1>7
<1>9. \A q \in x : q \in s.asks \/ q = g
  BY <1>4
<1> QED
  BY <1>3, <1>6, <1>7, <1>8, <1>9

\* Where a signed-in user's project gets lost.
LEMMA RouteLoses ==
  ASSUME NEW s \in States, s.app.project # NoProject
  PROVE  LET u == RouteOf(TRUE, s.url, s.app) IN
         /\ s.app.loading \/ s.app.validation => u = s.url
         /\ u # s.url => u.path \in {"home", "404"}
         /\ s.app.role = "Owner" /\ Weight(s.url.path) = 1 /\ s.url.project = s.app.project
            => u.project = s.app.project /\ Weight(u.path) = 1
<1>1. PICK u : u = RouteOf(TRUE, s.url, s.app)
  OBVIOUS
<1>2. CASE s.app.loading \/ s.app.validation
  <2>1. u = s.url
    BY <1>1, <1>2 DEF RouteOf
  <2> QED
    BY <1>1, <2>1
<1>3. CASE ~ s.app.loading /\ ~ s.app.validation
  <2>1. u = PageOf(s.url, s.app)
    BY <1>1, <1>3 DEF RouteOf
  <2>2. PICK v, w, x : /\ v = Bare("home") /\ w = Bare("404")
                       /\ x = At("home", s.app.project, s.app.role)
    OBVIOUS
  <2>3. v.path = "home" /\ w.path = "404" /\ x.path = "home" /\ x.project = s.app.project
    BY <2>2 DEF Bare, At
  <2>4. u \in {s.url, v, w, x}
    BY <2>1, <2>2 DEF PageOf
  <2>5. ASSUME s.app.role = "Owner", Weight(s.url.path) = 1
        PROVE  u \in {s.url, x}
    <3>1. s.url.path \in Paths \ {"", "login", "getStarted"}
      <4>1. Weight(s.url.path) # 2
        BY <2>5
      <4>2. s.url.path \notin {"", "getStarted", "login"}
        BY <4>1, Weights
      <4>3. s.url.path \in Paths
        BY StateTypes
      <4> QED
        BY <4>2, <4>3
    <3>2. s.url.path \in {"home", "scenarios", "settings", "usage-statistics", "404"}
      BY <3>1 DEF Paths
    <3> QED
      BY <2>1, <2>2, <2>5, <3>2 DEF PageOf
  <2>6. Weight(x.path) = 1
    BY <2>3 DEF Weight
  <2> QED
    BY <1>1, <1>3, <2>3, <2>4, <2>5, <2>6
<1> QED
  BY <1>2, <1>3

LEMMA RedirectedLoses ==
  ASSUME NEW signedIn \in BOOLEAN, NEW s \in States
  PROVE  LET t == Redirected(signedIn, s) IN t \in States /\ Loses(signedIn, s, t)
<1>1. PICK u : u = RouteOf(signedIn, s.url, s.app)
  OBVIOUS
<1>2. PICK t : t = Redirected(signedIn, s)
  OBVIOUS
<1>3. After(s, t) /\ t \in States /\ t.app.loading = s.app.loading
  BY <1>2, RedirectedOf DEF After
<1>4. CASE u = s.url
  <2>1. t = s
    BY <1>1, <1>2, <1>4 DEF Redirected
  <2> QED
    BY <1>2, <1>3, <2>1 DEF Loses
<1>5. CASE u # s.url
  <2>1. t = Moved(signedIn, s, u)
    BY <1>1, <1>2, <1>5 DEF Redirected
  <2>2. u \in Urls
    BY <1>1, RouteTo
  <2>3. ASSUME NEW r \in t.asks \ s.asks
        PROVE  /\ r.kind = "owner" /\ r.base = u.path
               /\ signedIn /\ s.app.project # NoProject /\ t.app.project = NoProject
               /\ \A q \in t.asks \ s.asks : q = r
    BY <2>1, <2>2, MovedAsks
  <2>4. signedIn /\ s.app.project # NoProject =>
          ~ (s.app.loading \/ s.app.validation) /\ u.path \in {"home", "404"}
    BY <1>1, <1>5, RouteLoses
  <2>5. u.path \in {"home", "404"} => Weight(u.path) = 1
    BY DEF Weight
  <2>6. \A r \in t.asks \ s.asks : r.kind = "owner" /\ Weight(r.base) = 1
    BY <2>3, <2>4, <2>5
  <2>7. \A q, r \in t.asks \ s.asks : q = r
    BY <2>3
  <2>8. signedIn /\ s.app.project # NoProject /\ (s.app.loading \/ s.app.validation) => t = s
    BY <2>4
  <2>9. /\ t.app.validation = s.app.validation /\ s.asks \subseteq t.asks
        /\ s.app.project = NoProject => t.app.project = NoProject
    BY <1>3 DEF After
  <2> QED
    BY <1>2, <1>3, <2>3, <2>6, <2>7, <2>8, <2>9 DEF Loses
<1> QED
  BY <1>4, <1>5

LEMMA LosesOnce ==
  ASSUME NEW b, NEW s, NEW t, NEW v, Loses(b, s, t), Loses(b, t, v)
  PROVE  Loses(b, s, v)
<1>1. \A r \in v.asks \ s.asks : r \in t.asks \ s.asks \/ r \in v.asks \ t.asks
  OBVIOUS
<1>2. \A q \in t.asks \ s.asks, r \in v.asks \ t.asks : FALSE
  BY DEF Loses
<1>3. \A q, r \in v.asks \ s.asks : q = r
  BY <1>1, <1>2 DEF Loses
<1>4. \A r \in v.asks \ s.asks :
        /\ r.kind = "owner" /\ Weight(r.base) = 1
        /\ b /\ s.app.project # NoProject /\ v.app.project = NoProject
  BY <1>1 DEF Loses
<1>5. b /\ s.app.project # NoProject /\ (s.app.loading \/ s.app.validation) => v = s
  BY DEF Loses
<1> QED
  BY <1>3, <1>4, <1>5 DEF Loses

\* The same of what lands; then its lookup is waited for.
Lost(signedIn, s, t) ==
  /\ t \in States
  /\ s.app.loading => t.app.loading
  /\ s.app.project = NoProject => t.app.project = NoProject
  /\ signedIn /\ s.app.project # NoProject /\ (s.app.loading \/ s.app.validation) =>
       t.url = s.url /\ t.app.project = s.app.project
  /\ s.asks \subseteq t.asks
  /\ \A r \in Lookups(t.asks) \ s.asks :
       /\ Weight(r.base) = 1 /\ signedIn /\ ~ s.app.loading /\ ~ s.app.validation
       /\ s.app.project # NoProject /\ t.app.project = NoProject /\ t.app.loading
  /\ \A q, r \in Lookups(t.asks) \ s.asks : q = r
  /\ \A r \in t.asks \ s.asks : r.kind # "role"

\* What is not redirected further than to a page an owner may stay on.
Stays(s) == /\ s.app.project # NoProject /\ s.app.role = "Owner"
            /\ s.url.project = s.app.project /\ Weight(s.url.path) = 1

\* What is left of an event once its redirects are followed.
LEMMA LandedIs ==
  ASSUME NEW signedIn \in BOOLEAN, NEW s \in States, NEW end \in States,
         end = Redirected(signedIn, Redirected(signedIn, Redirected(signedIn, s)))
  PROVE  LET t == Landed(signedIn, s) IN
         /\ t \in States /\ t.url = end.url /\ t.app.project = end.app.project
         /\ end.app.loading => t.app.loading
         /\ (\E r \in end.asks \ s.asks : r.kind = "owner") => t.app.loading
         /\ end.asks \subseteq t.asks /\ \A r \in t.asks \ end.asks : r.kind = "user"
<1>1. PICK b \in BOOLEAN :
        b = (end.app.loading \/ \E r \in end.asks \ s.asks : r.kind = "owner")
  OBVIOUS
<1>2. PICK a : a = [end.app EXCEPT !.loading = b]
  OBVIOUS
<1>3. a \in Apps /\ a.project = end.app.project /\ a.loading = b
  BY <1>2, StateTypes DEF Apps
<1>4. PICK g : g = Ask("user", "", NoProject, "")
  OBVIOUS
<1>5. g \in Asked /\ g.kind = "user"
  BY <1>4, Named DEF Ask, Asked
<1>6. PICK q : q \in {end.asks, end.asks \cup {g}} /\
               q = IF signedIn /\ a.project = NoProject /\ ~ a.loading
                      /\ end.url.path = "getStarted"
                   THEN end.asks \cup {g} ELSE end.asks
  OBVIOUS
<1>7. PICK t : t = [end EXCEPT !.app = a, !.asks = q]
  OBVIOUS
<1>8. Landed(signedIn, s) = t
  <2>1. a = [end.app EXCEPT !.loading =
               end.app.loading \/ \E r \in end.asks \ s.asks : r.kind = "owner"]
    BY <1>1, <1>2
  <2> QED
    BY <1>4, <1>6, <1>7, <2>1 DEF Landed
<1>9. q \subseteq Asked /\ end.asks \subseteq q /\ \A r \in q \ end.asks : r.kind = "user"
  BY <1>5, <1>6, StateTypes
<1>10. t \in States /\ t.url = end.url /\ t.app = a /\ t.asks = q
  BY <1>3, <1>7, <1>9 DEF States
<1> QED
  BY <1>1, <1>3, <1>8, <1>9, <1>10

LEMMA LandedLoses ==
  ASSUME NEW signedIn \in BOOLEAN, NEW s \in States
  PROVE  Lost(signedIn, s, Landed(signedIn, s))
<1>1. PICK s1 : s1 = Redirected(signedIn, s)
  OBVIOUS
<1>2. s1 \in States /\ Loses(signedIn, s, s1)
  BY <1>1, RedirectedLoses
<1>3. PICK s2 : s2 = Redirected(signedIn, s1)
  OBVIOUS
<1>4. s2 \in States /\ Loses(signedIn, s1, s2)
  BY <1>2, <1>3, RedirectedLoses
<1>5. PICK end : end = Redirected(signedIn, s2)
  OBVIOUS
<1>6. end \in States /\ Loses(signedIn, s2, end)
  BY <1>4, <1>5, RedirectedLoses
<1>7. Loses(signedIn, s, end)
  BY <1>2, <1>4, <1>6, LosesOnce
<1>8. PICK t : t = Landed(signedIn, s)
  OBVIOUS
<1>9. /\ t \in States /\ t.url = end.url /\ t.app.project = end.app.project
      /\ end.app.loading => t.app.loading
      /\ (\E r \in end.asks \ s.asks : r.kind = "owner") => t.app.loading
      /\ end.asks \subseteq t.asks /\ \A r \in t.asks \ end.asks : r.kind = "user"
  <2>1. end = Redirected(signedIn, Redirected(signedIn, Redirected(signedIn, s)))
    BY <1>1, <1>3, <1>5
  <2> QED
    BY <1>6, <1>8, <2>1, LandedIs
<1>10. \A r \in Lookups(t.asks) \ s.asks : r \in end.asks \ s.asks /\ r.kind = "owner"
  BY <1>9 DEF Lookups
<1>11. ASSUME NEW r \in Lookups(t.asks) \ s.asks
       PROVE  /\ Weight(r.base) = 1 /\ signedIn /\ ~ s.app.loading /\ ~ s.app.validation
              /\ s.app.project # NoProject /\ t.app.project = NoProject /\ t.app.loading
  <2>1. r \in end.asks \ s.asks /\ r.kind = "owner"
    BY <1>10
  <2>2. end # s
    BY <2>1
  <2> QED
    BY <1>7, <1>9, <2>1, <2>2 DEF Loses
<1>12. \A q, r \in Lookups(t.asks) \ s.asks : q = r
  BY <1>7, <1>10 DEF Loses
<1>13. \A r \in t.asks \ s.asks : r.kind # "role"
  BY <1>7, <1>9 DEF Loses
<1>14. /\ s.app.loading => t.app.loading
       /\ s.app.project = NoProject => t.app.project = NoProject
       /\ signedIn /\ s.app.project # NoProject /\ (s.app.loading \/ s.app.validation) =>
            t.url = s.url /\ t.app.project = s.app.project
       /\ s.asks \subseteq t.asks
  BY <1>7, <1>9 DEF Loses
<1> QED
  BY <1>8, <1>9, <1>11, <1>12, <1>13, <1>14 DEF Lost

LEMMA RedirectedStays ==
  ASSUME NEW s \in States, Stays(s)
  PROVE  LET t == Redirected(TRUE, s) IN t \in States /\ Stays(t) /\ t.asks = s.asks
<1>1. PICK b \in BOOLEAN : b = TRUE
  OBVIOUS
<1>2. PICK u : u = RouteOf(b, s.url, s.app)
  OBVIOUS
<1>3. PICK t : t = Redirected(b, s)
  OBVIOUS
<1>4. u \in Urls /\ u.project = s.app.project /\ Weight(u.path) = 1
  BY <1>1, <1>2, RouteTo, RouteLoses DEF Stays
<1>5. \/ u = s.url
      \/ /\ u.path = "home" /\ u.project = s.app.project /\ u.role = s.app.role
  BY <1>1, <1>2, <1>4, RouteTo DEF Stays
<1>6. CASE u = s.url
  <2>1. t = s
    BY <1>2, <1>3, <1>6 DEF Redirected
  <2> QED
    BY <1>1, <1>3, <2>1
<1>7. CASE u # s.url
  <2>1. t = Moved(b, s, u)
    BY <1>2, <1>3, <1>7 DEF Redirected
  <2>2. /\ t \in States /\ t.url = u /\ s.asks \subseteq t.asks
        /\ u.path # "login" => t.app.project = u.project /\ t.app.role = u.role
    BY <1>4, <2>1, MovedOf
  <2>3. u.path = "home" /\ u.role = s.app.role
    BY <1>5, <1>7
  <2>4. \A r \in t.asks \ s.asks : t.app.project = NoProject
    BY <1>4, <2>1, MovedAsks
  <2>5. Stays(t)
    BY <1>4, <2>2, <2>3 DEF Stays
  <2>6. t.asks = s.asks
    BY <2>2, <2>4, <2>5 DEF Stays
  <2> QED
    BY <1>1, <1>3, <2>2, <2>5, <2>6
<1> QED
  BY <1>6, <1>7

LEMMA LandedStays ==
  ASSUME NEW s \in States, Stays(s)
  PROVE  Lookups(Landed(TRUE, s).asks) \subseteq s.asks
<1>1. PICK s1 : s1 = Redirected(TRUE, s)
  OBVIOUS
<1>2. s1 \in States /\ Stays(s1) /\ s1.asks = s.asks
  BY <1>1, RedirectedStays
<1>3. PICK s2 : s2 = Redirected(TRUE, s1)
  OBVIOUS
<1>4. s2 \in States /\ Stays(s2) /\ s2.asks = s.asks
  BY <1>2, <1>3, RedirectedStays
<1>5. PICK end : end = Redirected(TRUE, s2)
  OBVIOUS
<1>6. end \in States /\ end.asks = s.asks
  BY <1>4, <1>5, RedirectedStays
<1>7. PICK b \in BOOLEAN : b = TRUE
  OBVIOUS
<1>8. PICK t : t = Landed(b, s)
  OBVIOUS
<1>9. \A r \in t.asks \ end.asks : r.kind = "user"
  <2>1. end = Redirected(b, Redirected(b, Redirected(b, s)))
    BY <1>1, <1>3, <1>5, <1>7
  <2> QED
    BY <1>6, <1>8, <2>1, LandedIs
<1> QED
  BY <1>6, <1>7, <1>8, <1>9 DEF Lookups

\* What an event changes lands in time.
LEMMA LandsInTime ==
  ASSUME NEW s \in States, NEW n, Chasing(s, n),
         \A r \in s.asks : r.kind = "role" => s.app.validation,
         n = 2 /\ s.app.project # NoProject => Stays(s)
  PROVE  Chasing(Landed(TRUE, s), n)
<1>1. PICK b \in BOOLEAN : b = TRUE
  OBVIOUS
<1>2. PICK t : t = Landed(b, s)
  OBVIOUS
<1>3. Lost(b, s, t)
  BY <1>2, LandedLoses
<1>4. ASSUME NEW r \in Lookups(t.asks) \ s.asks
      PROVE  /\ Weight(r.base) = 1 /\ n # 2 /\ t.app.loading /\ t.app.project = NoProject
             /\ ~ s.app.loading /\ ~ s.app.validation
  <2>1. /\ Weight(r.base) = 1 /\ t.app.loading /\ t.app.project = NoProject
        /\ ~ s.app.loading /\ ~ s.app.validation /\ s.app.project # NoProject
    BY <1>3 DEF Lost
  <2>2. ~ Stays(s)
    BY <1>1, <1>2, LandedStays
  <2> QED
    BY <2>1, <2>2
<1>5. \A r \in Lookups(t.asks) : r \in Lookups(s.asks) \/ r \in Lookups(t.asks) \ s.asks
  BY DEF Lookups
<1>6. Waits(t)
  <2>1. ASSUME NEW r \in Lookups(t.asks) PROVE t.app.loading
    BY <1>3, <1>4, <1>5 DEF Chasing, Waits, Lost
  <2>2. ASSUME NEW q \in Lookups(t.asks), NEW r \in Lookups(t.asks) PROVE q = r
    <3>1. CASE q \in Lookups(s.asks) /\ r \in Lookups(s.asks)
      BY <3>1 DEF Chasing, Waits
    <3>2. CASE q \in Lookups(t.asks) \ s.asks /\ r \in Lookups(t.asks) \ s.asks
      BY <1>3, <3>2 DEF Lost
    <3>3. ASSUME NEW x \in Lookups(s.asks), NEW y \in Lookups(t.asks) \ s.asks PROVE FALSE
      BY <1>4 DEF Chasing, Waits
    <3> QED
      BY <1>5, <3>1, <3>2, <3>3
  <2> QED
    BY <2>1, <2>2 DEF Waits
<1>7. t.app.project # NoProject => s.app.project # NoProject
  BY <1>3 DEF Lost
<1>8. n \in 0 .. 2
  BY DEF Chasing
<1>9. InTime(t, n)
  <2>1. ASSUME NEW r \in Lookups(s.asks)
        PROVE  /\ n + Weight(r.base) <= 2
               /\ t.app.project # NoProject /\ Owned(standing) = {} => n = 0
    BY <1>7, <2>1 DEF Chasing, InTime
  <2>2. ASSUME NEW r \in Lookups(t.asks) \ s.asks
        PROVE  n + Weight(r.base) <= 2 /\ t.app.project = NoProject
    <3>1. Weight(r.base) = 1 /\ n # 2 /\ t.app.project = NoProject
      BY <1>4
    <3> QED
      BY <1>8, <3>1
  <2> QED
    BY <1>5, <2>1, <2>2 DEF InTime
<1>10. WhileAsked(t, n)
  <2>1. SUFFICES ASSUME NEW r \in t.asks, r.kind = "role"
        PROVE  /\ r.project # NoProject /\ n <= 1
               /\ \A q \in Lookups(t.asks) : n + Weight(q.base) <= 1
               /\ n = 1 /\ t.app.project # NoProject =>
                    Weight(t.url.path) = 1 /\ Owned(standing) # {}
    BY DEF WhileAsked
  <2>2. r \in s.asks /\ s.app.validation
    BY <1>3, <2>1 DEF Lost
  <2>3. \A q \in Lookups(t.asks) : q \in Lookups(s.asks)
    BY <1>4, <1>5, <2>2
  <2>4. t.app.project # NoProject => t.url = s.url
    BY <1>1, <1>3, <1>7, <2>2 DEF Lost
  <2> QED
    BY <1>7, <2>1, <2>2, <2>3, <2>4 DEF Chasing, WhileAsked
<1>11. Chasing(t, n)
  BY <1>6, <1>8, <1>9, <1>10 DEF Chasing
<1> QED
  BY <1>1, <1>2, <1>11

LEMMA LandsChase ==
  ASSUME NEW s \in States, NEW n, Chasing(s, n),
         \A r \in s.asks : r.kind = "role" => s.app.validation,
         n = 2 /\ s.app.project # NoProject => Stays(s),
         Becomes(Landed(TRUE, s)), lookups' = n, UNCHANGED standing
  PROVE  Chase'
<1>1. PICK b \in BOOLEAN : b = TRUE
  OBVIOUS
<1>2. PICK t : t = Landed(b, s)
  OBVIOUS
<1>3. t \in States
  BY <1>2, LandedLoses DEF Lost
<1>4. Chasing(t, n)
  BY <1>1, <1>2, LandsInTime
<1>5. cur' = t
  BY <1>1, <1>2, <1>3, CurOf
<1> QED
  BY <1>4, <1>5 DEF Chase, Chasing, InTime, WhileAsked

LEMMA NoLookups ==
  ASSUME NEW s, NEW n \in 0 .. 2, Lookups(s.asks) = {},
         \A r \in s.asks : r.kind = "role" =>
           /\ r.project # NoProject /\ n <= 1
           /\ n = 1 /\ s.app.project # NoProject =>
                Weight(s.url.path) = 1 /\ Owned(standing) # {}
  PROVE  Chasing(s, n)
BY DEF Chasing, Waits, InTime, WhileAsked

\* What a lookup finds when it is answered.
LEMMA OwnerFinds ==
  ASSUME SessionInv, Chase, NEW r \in asks, r.kind = "owner"
  PROVE  /\ lookups \in 0 .. 2 /\ lookups + Weight(r.base) <= 2
         /\ app.project # NoProject /\ Owned(standing) = {} => lookups = 0
         /\ Lookups(asks \ {r}) = {}
         /\ \A q \in asks : q.kind = "role" =>
              /\ app.validation /\ app.project = NoProject
              /\ q.project # NoProject /\ lookups + Weight(r.base) <= 1
<1>1. cur.app = app /\ cur.asks = asks /\ r \in Lookups(asks)
  BY CurIs DEF Lookups
<1>2. app.loading /\ Lookups(asks \ {r}) = {}
  BY <1>1 DEF Chase, Chasing, Waits, Lookups
<1>3. /\ lookups \in 0 .. 2 /\ lookups + Weight(r.base) <= 2
      /\ app.project # NoProject /\ Owned(standing) = {} => lookups = 0
  BY <1>1 DEF Chase, Chasing, InTime
<1>4. ASSUME NEW q \in asks, q.kind = "role"
      PROVE  q.project # NoProject /\ lookups + Weight(r.base) <= 1
  BY <1>1, <1>4 DEF Chase, Chasing, WhileAsked
<1>5. ASSUME NEW q \in asks, q.kind = "role"
      PROVE  app.validation /\ app.project = NoProject
  BY <1>1, <1>2, <1>5 DEF SessionInv, Fit
<1> QED
  BY <1>2, <1>3, <1>4, <1>5

LEMMA OwnerChase ==
  ASSUME SessionInv, Chase, NEW r \in asks,
         \/ OwnerProjects(r)
         \/ RequestFailed(r) /\ r.kind = "owner"
  PROVE  Chase'
<1>1. /\ r \in Asked /\ r.base \in Paths /\ url \in Urls /\ app \in Apps
      /\ asks \ {r} \in SUBSET Asked /\ r.kind = "owner" /\ UNCHANGED standing
  BY AskOf DEF OwnerProjects, RequestFailed
<1>2. PICK rest : rest = asks \ {r}
  OBVIOUS
<1>3. PICK k, w : k = lookups /\ w = Weight(r.base)
  OBVIOUS
<1>4. /\ k \in 0 .. 2 /\ k + w <= 2 /\ w \in {1, 2}
      /\ app.project # NoProject /\ Owned(standing) = {} => k = 0
      /\ Lookups(rest) = {} /\ rest \subseteq asks /\ rest \in SUBSET Asked
  BY <1>1, <1>2, <1>3, OwnerFinds, Weights
<1>5. \A q \in rest : q.kind = "role" =>
        app.project = NoProject /\ q.project # NoProject /\ k + w <= 1
  BY <1>1, <1>2, <1>3, OwnerFinds
<1>6. \A q \in rest : q.kind = "role" => app.validation
  BY <1>1, <1>2, OwnerFinds
<1>7. ASSUME NEW n \in 0 .. 2, n = k \/ n = k + 1, lookups' = n,
             n = 2 => app.project = NoProject,
             Becomes(Landed(TRUE, Now([app EXCEPT !.loading = FALSE], rest)))
      PROVE  Chase'
  <2>1. PICK a : a = [app EXCEPT !.loading = FALSE]
    OBVIOUS
  <2>2. a \in Apps /\ a.validation = app.validation /\ a.project = app.project
    BY <1>1, <2>1 DEF Apps
  <2>3. PICK s : s = [url |-> url, app |-> a, asks |-> rest]
    OBVIOUS
  <2>4. s \in States /\ s.url = url /\ s.app = a /\ s.asks = rest
    BY <1>1, <1>4, <2>2, <2>3, NowOf
  <2>5. \A q \in rest : q.kind = "role" => n <= 1 /\ q.project # NoProject
    BY <1>4, <1>5, <1>7
  <2>6. Chasing(s, n)
    BY <1>4, <1>5, <1>7, <2>2, <2>4, <2>5, NoLookups
  <2>7. Becomes(Landed(TRUE, s))
    BY <1>7, <2>1, <2>3 DEF Now
  <2>8. n = 2 => s.app.project = NoProject
    BY <1>7, <2>2, <2>4
  <2> QED
    BY <1>1, <1>6, <1>7, <2>2, <2>4, <2>6, <2>7, <2>8, LandsChase
<1>8. ASSUME NEW p \in Owned(standing), lookups' = k + 1,
             Becomes(Landed(TRUE,
               [url |-> At(r.base, p, "Owner"), asks |-> rest,
                app |-> [app EXCEPT !.loading = FALSE, !.project = p, !.role = "Owner"]]))
      PROVE  Chase'
  <2>1. p \in Places /\ "Owner" \in Roles
    BY Named DEF Owned, Places
  <2>2. PICK a : a = [app EXCEPT !.loading = FALSE, !.project = p, !.role = "Owner"]
    OBVIOUS
  <2>3. a \in Apps /\ a.validation = app.validation /\ a.project = p /\ a.role = "Owner"
    BY <1>1, <2>1, <2>2 DEF Apps
  <2>4. PICK u : u = At(r.base, p, "Owner")
    OBVIOUS
  <2>5. u \in Urls /\ u.path = r.base /\ u.project = p
    BY <1>1, <2>1, <2>4 DEF At, Urls
  <2>6. PICK s : s = [url |-> u, app |-> a, asks |-> rest]
    OBVIOUS
  <2>7. s \in States /\ s.url = u /\ s.app = a /\ s.asks = rest
    BY <1>4, <2>3, <2>5, <2>6, NowOf
  <2>8. PICK n : n = k + 1
    OBVIOUS
  <2>9. n \in 0 .. 2 /\ (n = 2 => w = 1)
    BY <1>4, <2>8
  <2>10. \A q \in rest : q.kind = "role" => q.project # NoProject /\ n <= 1 /\ w = 1
    BY <1>4, <1>5, <2>8
  <2>11. Weight(s.url.path) = w /\ Owned(standing) # {}
    BY <1>3, <1>8, <2>5, <2>7
  <2>12. Chasing(s, n)
    BY <1>4, <2>7, <2>9, <2>10, <2>11, NoLookups
  <2>13. n = 2 /\ s.app.project # NoProject => Stays(s)
    BY <2>3, <2>5, <2>7, <2>9, <2>11 DEF Stays
  <2>14. Becomes(Landed(TRUE, s)) /\ lookups' = n
    BY <1>8, <2>2, <2>4, <2>6, <2>8
  <2> QED
    BY <1>1, <1>6, <2>3, <2>7, <2>12, <2>13, <2>14, LandsChase
<1>9. CASE RequestFailed(r)
  <2>1. lookups' = k /\ Becomes(Landed(TRUE, Now([app EXCEPT !.loading = FALSE], rest)))
    BY <1>1, <1>2, <1>3, <1>9 DEF RequestFailed
  <2>2. k # 2
    BY <1>4
  <2> QED
    BY <1>4, <1>7, <2>1, <2>2
<1>10. CASE OwnerProjects(r)
  <2>1. lookups' = k + 1 /\ k + 1 \in 0 .. 2
    <3>1. lookups' = k + 1
      BY <1>3, <1>10 DEF OwnerProjects
    <3>2. k + 1 \in 0 .. 2
      BY <1>4
    <3> QED
      BY <3>1, <3>2
  <2>2. CASE Owned(standing) = {}
    <3>1. Becomes(Landed(TRUE, Now([app EXCEPT !.loading = FALSE], rest)))
      BY <1>2, <1>10, <2>2 DEF OwnerProjects
    <3>2. k + 1 = 2 => app.project = NoProject
      BY <1>4, <2>2
    <3> QED
      BY <1>7, <2>1, <3>1, <3>2
  <2>3. CASE Owned(standing) # {}
    BY <1>2, <1>8, <1>10, <2>1, <2>3 DEF OwnerProjects
  <2> QED
    BY <2>2, <2>3
<1> QED
  BY <1>9, <1>10

\* What a role that is told finds.
LEMMA RoleFinds ==
  ASSUME SessionInv, Chase, NEW r \in asks, r.kind = "role"
  PROVE  /\ lookups \in 0 .. 1 /\ r.project \in Projects
         /\ Waits(cur)
         /\ \A q \in Lookups(asks) : lookups + Weight(q.base) <= 1 /\ app.project = NoProject
         /\ lookups = 1 /\ app.project # NoProject =>
              Weight(url.path) = 1 /\ Owned(standing) # {}
<1>1. cur.url = url /\ cur.app = app /\ cur.asks = asks
  BY CurIs
<1>2. /\ lookups \in 0 .. 2 /\ lookups <= 1 /\ r.project # NoProject
      /\ \A q \in Lookups(asks) : lookups + Weight(q.base) <= 1
      /\ lookups = 1 /\ app.project # NoProject =>
           Weight(url.path) = 1 /\ Owned(standing) # {}
  BY <1>1 DEF Chase, Chasing, WhileAsked
<1>3. Waits(cur) /\ \A q \in Lookups(asks) : app.project = NoProject
  BY <1>1 DEF Chase, Chasing, Waits, SessionInv, Fit
<1>4. r.project \in Projects
  BY <1>2, AskOf DEF Places
<1> QED
  BY <1>2, <1>3, <1>4

LEMMA ForgottenChase ==
  ASSUME SessionInv, Chase, NEW r \in asks, r.kind = "role", NEW a \in Apps
  PROVE  LET t == WithLoading(Forgotten(a, r)) IN
         /\ t \in States /\ t.app.project = NoProject /\ NoRole(t) /\ Waits(t)
         /\ \A q \in Lookups(t.asks) :
              /\ lookups + Weight(q.base) <= 2
              /\ Owned(standing) = {} => lookups = 0
<1>1. /\ url \in Urls /\ asks \ {r} \in SUBSET Asked /\ \A q \in asks \ {r} : q.kind # "role"
  BY AskOf
<1>2. PICK c : c = [a EXCEPT !.project = NoProject, !.role = ""]
  OBVIOUS
<1>3. c \in Apps /\ c.project = NoProject
  BY <1>2, Named DEF Apps
<1>4. PICK o : o = Ask("owner", url.path, NoProject, "")
  OBVIOUS
<1>5. o \in Asked /\ o.kind = "owner" /\ o.base = url.path
  BY <1>1, <1>4, Named DEF Ask, Asked, Urls
<1>6. PICK x : x = (asks \ {r}) \cup (IF app.project # NoProject THEN {o} ELSE {})
  OBVIOUS
<1>7. x \in SUBSET Asked
  BY <1>1, <1>5, <1>6
<1>8. PICK s : s = [url |-> url, app |-> c, asks |-> x]
  OBVIOUS
<1>9. s \in States /\ s.app = c /\ s.asks = x
  BY <1>1, <1>3, <1>7, <1>8, NowOf
<1>10. PICK b \in BOOLEAN : b = TRUE
  OBVIOUS
<1>11. PICK f : f = Landed(b, s)
  OBVIOUS
<1>12. Forgotten(a, r) = f
  BY <1>2, <1>4, <1>6, <1>8, <1>10, <1>11 DEF Forgotten, Cleared, Now
<1>13. f \in States /\ Lookups(f.asks) \subseteq x
  BY <1>3, <1>9, <1>11, LandedLoses DEF Lost
<1>14. PICK l \in BOOLEAN : l = (f.app.loading \/ \E q \in f.asks : q.kind = "owner")
  OBVIOUS
<1>15. PICK g : g = [f.app EXCEPT !.loading = l]
  OBVIOUS
<1>16. g.loading = l
  BY <1>13, <1>15, StateTypes DEF Apps
<1>17. PICK t : t = [f EXCEPT !.app = g]
  OBVIOUS
<1>18. WithLoading(f) = t
  BY <1>13, <1>14, <1>15, <1>17 DEF WithLoading, States
<1>19. t.app = g /\ t.asks = f.asks
  BY <1>13, <1>17 DEF States
<1>20. \A q \in Lookups(t.asks) : t.app.loading
  BY <1>14, <1>16, <1>19 DEF Lookups
<1>21. \A q \in Lookups(t.asks) : q \in Lookups(asks) \/ (app.project # NoProject /\ q = o)
  BY <1>6, <1>13, <1>19 DEF Lookups
<1>22. \A p, q \in Lookups(t.asks) : p = q
  <2>1. \A p, q \in Lookups(asks) : p = q
    BY CurIs, RoleFinds DEF Waits
  <2>2. \A p \in Lookups(asks) : app.project = NoProject
    BY RoleFinds
  <2> QED
    BY <1>21, <2>1, <2>2
<1>23. ASSUME NEW q \in Lookups(t.asks)
       PROVE  lookups + Weight(q.base) <= 2 /\ (Owned(standing) = {} => lookups = 0)
  <2>1. lookups \in 0 .. 1 /\ Weight(q.base) \in {1, 2}
    BY RoleFinds, Weights
  <2>2. CASE q \in Lookups(asks)
    <3>1. lookups + Weight(q.base) <= 1
      BY <2>2, RoleFinds
    <3> QED
      BY <2>1, <3>1
  <2>3. CASE app.project # NoProject /\ q = o
    <3>1. lookups = 1 => Weight(q.base) = 1 /\ Owned(standing) # {}
      BY <1>5, <2>3, RoleFinds
    <3> QED
      BY <2>1, <3>1
  <2> QED
    BY <1>21, <2>2, <2>3
<1>24. t \in States /\ t.app.project = NoProject /\ NoRole(t)
  BY <1>12, <1>18, ForgottenOf
<1>25. Waits(t)
  BY <1>20, <1>22 DEF Waits
<1> QED
  BY <1>12, <1>18, <1>23, <1>24, <1>25

LEMMA RoleChase ==
  ASSUME SessionInv, Chase, NEW r \in asks,
         \/ ProjectRole(r)
         \/ RequestFailed(r) /\ r.kind = "role"
  PROVE  Chase'
<1>1. /\ r \in Asked /\ r.base \in Paths /\ r.project \in Places /\ r.role \in Roles
      /\ url \in Urls /\ app \in Apps /\ r.kind = "role" /\ UNCHANGED <<standing, lookups>>
  BY AskOf DEF ProjectRole, RequestFailed
<1>2. PICK rest : rest = asks \ {r}
  OBVIOUS
<1>3. rest \in SUBSET Asked /\ rest \subseteq asks /\ \A q \in rest : q.kind # "role"
  BY <1>1, <1>2, AskOf
<1>4. PICK n : n = lookups
  OBVIOUS
<1>5. /\ n \in 0 .. 1 /\ lookups' = n /\ r.project # NoProject /\ Waits(cur)
      /\ \A q \in Lookups(asks) : n + Weight(q.base) <= 1 /\ app.project = NoProject
  BY <1>1, <1>4, RoleFinds, ProjectsAssumption
<1>6. \A q \in Lookups(rest) : q \in Lookups(asks)
  BY <1>3 DEF Lookups
<1>7. \A q \in Lookups(rest) : app.loading
  BY <1>5, <1>6, CurIs DEF Waits
<1>8. \A p, q \in Lookups(rest) : p = q
  BY <1>5, <1>6, CurIs DEF Waits
<1>9. \A q \in Lookups(rest) : n + Weight(q.base) <= 2 /\ n = 0
  <2>1. ASSUME NEW q \in Lookups(rest) PROVE n + Weight(q.base) <= 2 /\ n = 0
    <3>1. n + Weight(q.base) <= 1 /\ Weight(q.base) \in {1, 2}
      BY <1>5, <1>6, Weights
    <3> QED
      BY <1>5, <3>1
  <2> QED
    BY <2>1
<1>10. ASSUME NEW s \in States, s.asks = rest, s.app.loading = app.loading
       PROVE  Chasing(s, n) /\ NoRole(s)
  <2>1. Waits(s)
    BY <1>7, <1>8, <1>10 DEF Waits
  <2>2. InTime(s, n)
    BY <1>9, <1>10 DEF InTime
  <2>3. WhileAsked(s, n) /\ NoRole(s)
    BY <1>3, <1>10 DEF WhileAsked, NoRole
  <2>4. n \in 0 .. 2
    BY <1>5
  <2> QED
    BY <2>1, <2>2, <2>3, <2>4 DEF Chasing
<1>11. ASSUME NEW s \in States, Chasing(s, n), NoRole(s), Becomes(Landed(TRUE, s))
       PROVE  Chase'
  <2>1. n # 2
    BY <1>5
  <2> QED
    BY <1>1, <1>5, <1>11, <2>1, LandsChase DEF NoRole
<1>12. ASSUME NEW role \in {"Owner", "Viewer"}, Becomes(Granted(r, role))
       PROVE  Chase'
  <2>1. PICK a : a = [app EXCEPT !.role = role, !.validation = FALSE]
    OBVIOUS
  <2>2. a \in Apps /\ a.loading = app.loading
    BY <1>1, <2>1, Named DEF Apps
  <2>3. PICK s : s = [url |-> url, app |-> a, asks |-> rest]
    OBVIOUS
  <2>4. s \in States /\ s.app = a /\ s.asks = rest
    BY <1>1, <1>3, <2>2, <2>3, NowOf
  <2>5. s = Now(a, rest)
    BY <2>3 DEF Now
  <2>6. CASE role = r.role
    <3>1. Becomes(Landed(TRUE, s))
      BY <1>2, <1>12, <2>1, <2>5, <2>6 DEF Granted
    <3> QED
      BY <1>10, <1>11, <2>2, <2>4, <3>1
  <2>7. CASE role # r.role
    <3>1. PICK u : u = At(r.base, r.project, role)
      OBVIOUS
    <3>2. u \in Urls /\ u.project = r.project
      BY <1>1, <3>1, Named DEF At, Urls
    <3>3. PICK b \in BOOLEAN : b = TRUE
      OBVIOUS
    <3>4. PICK t : t = Moved(b, s, u)
      OBVIOUS
    <3>5. /\ t \in States /\ t.app.loading = s.app.loading /\ s.asks \subseteq t.asks
          /\ u.path = "login" => t.app = s.app
          /\ u.path # "login" => t.app.project = u.project
      BY <2>4, <3>2, <3>4, MovedOf
    <3>6. \A q \in t.asks \ s.asks : s.app.project # NoProject /\ t.app.project = NoProject
      BY <2>4, <3>2, <3>4, MovedAsks
    <3>7. t.asks = rest
      BY <1>5, <2>4, <3>2, <3>5, <3>6
    <3>8. Becomes(Landed(TRUE, t))
      BY <1>2, <1>12, <2>1, <2>5, <2>7, <3>1, <3>3, <3>4 DEF Granted
    <3>9. t.app.loading = app.loading
      BY <2>2, <2>4, <3>5
    <3> QED
      BY <1>10, <1>11, <3>5, <3>7, <3>8, <3>9
  <2> QED
    BY <2>6, <2>7
<1>13. ASSUME NEW a \in Apps
       PROVE  LET s == WithLoading(Forgotten(a, r)) IN
              /\ Becomes(s) => Chase'
              /\ Becomes(Landed(TRUE, Moved(TRUE, s, At(r.base, r.project, "undefined")))) => Chase'
  <2>1. PICK s : s = WithLoading(Forgotten(a, r))
    OBVIOUS
  <2>2. /\ s \in States /\ s.app.project = NoProject /\ NoRole(s) /\ Waits(s)
        /\ \A q \in Lookups(s.asks) :
             n + Weight(q.base) <= 2 /\ (Owned(standing) = {} => n = 0)
    BY <1>1, <1>4, <2>1, ForgottenChase
  <2>3. ASSUME NEW t \in States, t.asks = s.asks, t.app.loading = s.app.loading
        PROVE  Chasing(t, n) /\ NoRole(t)
    <3>1. Waits(t)
      BY <2>2, <2>3 DEF Waits
    <3>2. InTime(t, n)
      BY <2>2, <2>3 DEF InTime
    <3>3. WhileAsked(t, n) /\ NoRole(t)
      BY <2>2, <2>3 DEF WhileAsked, NoRole
    <3>4. n \in 0 .. 2
      BY <1>5
    <3> QED
      BY <3>1, <3>2, <3>3, <3>4 DEF Chasing
  <2>4. ASSUME Becomes(s) PROVE Chase'
    <3>1. cur' = s
      BY <2>2, <2>4, CurOf
    <3>2. Chasing(s, n)
      BY <2>2, <2>3
    <3> QED
      BY <1>1, <1>5, <3>1, <3>2 DEF Chase, Chasing, InTime, WhileAsked
  <2>5. PICK u : u = At(r.base, r.project, "undefined")
    OBVIOUS
  <2>6. u \in Urls
    BY <1>1, <2>5, Named DEF At, Urls
  <2>7. PICK b \in BOOLEAN : b = TRUE
    OBVIOUS
  <2>8. PICK t : t = Moved(b, s, u)
    OBVIOUS
  <2>9. t \in States /\ t.app.loading = s.app.loading /\ s.asks \subseteq t.asks
    BY <2>2, <2>6, <2>8, MovedOf
  <2>10. \A q \in t.asks \ s.asks : s.app.project # NoProject
    BY <2>2, <2>6, <2>8, MovedAsks
  <2>11. t.asks = s.asks
    BY <2>2, <2>9, <2>10
  <2>12. ASSUME Becomes(Landed(TRUE, Moved(TRUE, s, u))) PROVE Chase'
    <3>1. Becomes(Landed(TRUE, t))
      BY <2>7, <2>8, <2>12
    <3> QED
      BY <1>11, <2>3, <2>9, <2>11, <3>1
  <2> QED
    BY <2>1, <2>4, <2>5, <2>12
<1>14. CASE RequestFailed(r)
  <2>1. Becomes(WithLoading(Forgotten(app, r)))
    BY <1>1, <1>14 DEF RequestFailed
  <2> QED
    BY <1>1, <1>13, <2>1
<1>15. CASE ProjectRole(r)
  <2>1. PICK a : a = [app EXCEPT !.validation = FALSE]
    OBVIOUS
  <2>2. a \in Apps
    BY <1>1, <2>1 DEF Apps
  <2>3. \/ /\ standing[r.project] \in {"Owner", "Viewer"}
           /\ Becomes(Granted(r, standing[r.project]))
        \/ Becomes(WithLoading(Forgotten(a, r)))
        \/ Becomes(Landed(TRUE, Moved(TRUE, WithLoading(Forgotten(a, r)),
                                      At(r.base, r.project, "undefined"))))
    BY <1>15, <2>1 DEF ProjectRole
  <2> QED
    BY <1>12, <1>13, <2>2, <2>3
<1> QED
  BY <1>14, <1>15

\* A page is loaded.
LEMMA LoadChase ==
  ASSUME NEW signedIn \in BOOLEAN, NEW u \in Urls, Load(signedIn, u)
  PROVE  Chase'
<1>1. PICK s0 : s0 = [url |-> u, app |-> Routes(u), asks |-> {}]
  OBVIOUS
<1>2. u.project \in Places /\ u.role \in Roles /\ u.path \in Paths
  BY DEF Urls
<1>3. PICK a0 : a0 = Routes(u)
  OBVIOUS
<1>4. Routes(u) = a0 /\ a0 \in Apps /\ a0.project = u.project
  <2>1. PICK x : x = [project |-> NoProject, role |-> "",
                      loading |-> FALSE, validation |-> FALSE]
    OBVIOUS
  <2>2. x \in Apps
    BY <2>1, Named DEF Apps
  <2>3. a0 = [x EXCEPT !.project = u.project, !.role = u.role]
    BY <1>3, <2>1 DEF Routes, WithParams
  <2> QED
    BY <1>2, <1>3, <2>2, <2>3 DEF Apps
<1>5. s0 \in States /\ s0.url = u /\ s0.app = a0 /\ s0.asks = {}
  BY <1>1, <1>4, NowOf
<1>6. PICK s : s = Landed(signedIn, s0)
  OBVIOUS
<1>7. Lost(signedIn, s0, s)
  BY <1>5, <1>6, LandedLoses
<1>8. s \in States
  BY <1>7 DEF Lost
<1>9. PICK b \in BOOLEAN, v \in BOOLEAN :
        /\ b = (s.app.loading \/ (signedIn /\ u.project = NoProject))
        /\ v = (signedIn /\ u.project # NoProject)
  BY <1>8, StateTypes
<1>10. PICK a : a = [s.app EXCEPT !.loading = b, !.validation = v]
  OBVIOUS
<1>11. a.loading = b
  BY <1>8, <1>10, StateTypes DEF Apps
<1>12. app' = a /\ lookups' = 0
  BY <1>1, <1>6, <1>9, <1>10 DEF Load
<1>13. PICK o, g : /\ o = Ask("owner", u.path, NoProject, "")
                   /\ g = Ask("role", u.path, u.project, u.role)
  OBVIOUS
<1>14. o.kind = "owner" /\ g.kind = "role" /\ g.project = u.project
  BY <1>13 DEF Ask
<1>15. PICK q : q = {r \in s.asks : r.kind = "owner"}
  OBVIOUS
<1>16. /\ \A r \in q : /\ r.kind = "owner" /\ Weight(r.base) = 1
                       /\ signedIn /\ u.project # NoProject /\ s.app.loading
       /\ \A x, y \in q : x = y
  <2>1. q = Lookups(s.asks) \ s0.asks
    BY <1>5, <1>15 DEF Lookups
  <2> QED
    BY <1>4, <1>5, <1>7, <1>15, <2>1 DEF Lost
<1>17. \/ ~ signedIn /\ asks' = {} \cup q
       \/ signedIn /\ u.project = NoProject /\ asks' = {o} \cup q
       \/ signedIn /\ u.project # NoProject /\ asks' = {g} \cup q
  BY <1>1, <1>6, <1>13, <1>15 DEF Load, getProjectValidation
<1>18. Lookups(asks') = {} \/ (Lookups(asks') = {o} /\ b) \/ (Lookups(asks') = q /\ (q # {} => b))
  BY <1>9, <1>14, <1>16, <1>17 DEF Lookups
<1>19. cur'.app = a /\ cur'.asks = asks'
  BY <1>12 DEF cur, Now
<1>20. Waits(cur')
  BY <1>11, <1>16, <1>18, <1>19 DEF Waits
<1>21. \A r \in Lookups(asks') : 0 + Weight(r.base) <= 2
  <2>1. ASSUME NEW r \in Lookups(asks') PROVE 0 + Weight(r.base) <= 2
    <3>1. Weight(r.base) \in {1, 2}
      BY Weights
    <3> QED
      BY <3>1
  <2> QED
    BY <2>1
<1>22. InTime(cur, lookups)'
  BY <1>12, <1>19, <1>21 DEF InTime
<1>23. ASSUME NEW r \in asks', r.kind = "role"
       PROVE  r.project # NoProject /\ \A x \in Lookups(asks') : Weight(x.base) = 1
  <2>1. r = g /\ u.project # NoProject /\ asks' = {g} \cup q
    BY <1>14, <1>16, <1>17, <1>23
  <2>2. \A x \in Lookups(asks') : x \in q
    BY <1>14, <2>1 DEF Lookups
  <2> QED
    BY <1>14, <1>16, <2>1, <2>2
<1>24. WhileAsked(cur, lookups)'
  BY <1>12, <1>19, <1>23 DEF WhileAsked
<1> QED
  BY <1>12, <1>20, <1>22, <1>24 DEF Chase, Chasing, Waits

LEMMA PushChase ==
  ASSUME SessionInv, Chase, Pages, NEW u \in Urls, u.project # NoProject,
         Push(u), UNCHANGED standing, lookups' = 0
  PROVE  Chase'
<1>1. /\ cur \in States /\ cur.app = app /\ cur.asks = asks
      /\ ~ app.validation /\ ~ app.loading /\ app.project # NoProject
  BY CurIs DEF SessionInv, Pages
<1>2. NoRole(cur) /\ Lookups(asks) = {}
  BY <1>1 DEF SessionInv, Fit, NoRole, Chase, Chasing, Waits
<1>3. PICK b \in BOOLEAN : b = TRUE
  OBVIOUS
<1>4. PICK t : t = Moved(b, cur, u)
  OBVIOUS
<1>5. /\ t \in States /\ cur.asks \subseteq t.asks
      /\ u.path = "login" => t.app = cur.app
      /\ u.path # "login" => t.app.project = u.project
  BY <1>1, <1>4, MovedOf
<1>6. \A q \in t.asks \ cur.asks : t.app.project = NoProject
  BY <1>1, <1>4, MovedAsks
<1>7. t.asks = asks
  BY <1>1, <1>5, <1>6
<1>8. NoRole(t)
  BY <1>1, <1>2, <1>7 DEF NoRole
<1>9. Chasing(t, 0)
  BY <1>2, <1>7, <1>8, NoLookups DEF NoRole
<1>10. Becomes(Landed(TRUE, t))
  BY <1>3, <1>4 DEF Push, cur
<1>11. PICK n : n = 0
  OBVIOUS
<1>12. Chasing(t, n) /\ n # 2 /\ lookups' = n
  BY <1>9, <1>11
<1> QED
  BY <1>5, <1>8, <1>10, <1>12, LandsChase DEF NoRole

LEMMA PagesChase ==
  ASSUME SessionInv, Chase,
         \/ \E path \in Paths : SideBar(path)
         \/ \E p \in Projects : SelectProject(p)
  PROVE  Chase'
<1>1. url \in Urls /\ Pages /\ UNCHANGED standing /\ lookups' = 0
  BY CurIs DEF SessionInv, SideBar, SelectProject
<1>2. url.path \in Paths /\ url.project \in Places /\ url.role \in Roles
  BY <1>1 DEF Urls
<1>3. url.project # NoProject
  <2>1. Within(cur, Granting) /\ cur.url = url /\ cur.app = app
    BY <1>1, CurIs DEF SessionInv, Fit, Pages
  <2> QED
    BY <1>1, <2>1 DEF Within, Pages
<1>4. ASSUME NEW path \in Paths, SideBar(path) PROVE Chase'
  <2>1. PICK u : u = At(path, url.project, url.role)
    OBVIOUS
  <2>2. u \in Urls /\ u.project = url.project
    BY <1>2, <2>1 DEF At, Urls
  <2>3. Push(u)
    BY <1>4, <2>1 DEF SideBar
  <2> QED
    BY <1>1, <1>3, <2>2, <2>3, PushChase
<1>5. ASSUME NEW p \in Projects, SelectProject(p) PROVE Chase'
  <2>1. p \in Places /\ standing[p] \in Roles /\ p # NoProject
    BY <1>5, Named, ProjectsAssumption DEF SelectProject, Places
  <2>2. PICK path \in Paths : path = IF standing[p] = "Owner" THEN url.path ELSE "home"
    BY <1>2, Named
  <2>3. PICK u : u = At(path, p, standing[p])
    OBVIOUS
  <2>4. u \in Urls /\ u.project = p
    BY <2>1, <2>3 DEF At, Urls
  <2>5. Push(u)
    BY <1>5, <2>2, <2>3 DEF SelectProject
  <2> QED
    BY <1>1, <2>1, <2>4, <2>5, PushChase
<1> QED
  BY <1>4, <1>5

\* Other requests come and go.
LEMMA AsksChase ==
  ASSUME Chase, UNCHANGED <<standing, url, app, lookups>>,
         \A r \in asks' : r.kind \in {"owner", "role"} => r \in asks
  PROVE  Chase'
<1>1. /\ cur.url = url /\ cur.app = app /\ cur.asks = asks
      /\ cur'.url = url /\ cur'.app = app /\ cur'.asks = asks'
  BY DEF cur, Now
<1>2. \A r \in Lookups(asks') : r \in Lookups(asks)
  BY DEF Lookups
<1>3. Waits(cur')
  BY <1>1, <1>2 DEF Chase, Chasing, Waits
<1>4. InTime(cur, lookups)'
  BY <1>1, <1>2 DEF Chase, Chasing, InTime
<1>5. WhileAsked(cur, lookups)'
  BY <1>1, <1>2 DEF Chase, Chasing, WhileAsked
<1> QED
  BY <1>3, <1>4, <1>5 DEF Chase, Chasing, Waits

LEMMA ChaseStep ==
  ASSUME SessionInv, token \in BOOLEAN, Chase, SessionNext
  PROVE  Chase'
<1>1. url \in Urls
  BY CurIs DEF SessionInv
<1>2. Bare("getStarted") \in Urls /\ Bare("home") \in Urls
  BY BareOf, Named
<1>3. ASSUME NEW u \in Urls, NEW b \in BOOLEAN, Load(b, u) PROVE Chase'
  BY <1>3, LoadChase
<1>4. ASSUME NEW r \in asks, LoginRefused(r) \/ UserFound(r) \/ NotCreated(r)
      PROVE  Chase'
  BY <1>4, AsksChase DEF LoginRefused, UserFound, NotCreated
<1>5. ASSUME Login \/ createProject PROVE Chase'
  <2>1. PICK A : A = {Ask(kind, "", NoProject, "") : kind \in {"login", "create", "user"}}
    OBVIOUS
  <2>2. ASSUME NEW x \in A PROVE x.kind \notin {"owner", "role"}
    <3>1. PICK kind \in {"login", "create", "user"} : x = Ask(kind, "", NoProject, "")
      BY <2>1
    <3>2. x.kind = kind
      BY <3>1 DEF Ask
    <3> QED
      BY <3>2
  <2>3. UNCHANGED <<standing, url, app, lookups>> /\ asks' \subseteq asks \cup A
    BY <1>5, <2>1 DEF Login, createProject
  <2> QED
    BY <2>2, <2>3, AsksChase
<1>6. ASSUME NEW r \in asks, OwnerProjects(r) \/ ProjectRole(r) \/ RequestFailed(r)
      PROVE  Chase'
  <2>1. RequestFailed(r) => r.kind \in {"owner", "role"}
    BY DEF RequestFailed
  <2> QED
    BY <1>6, <2>1, OwnerChase, RoleChase
<1>7. ASSUME NEW r \in asks, LoggedIn(r) \/ UserNotFound(r) \/ \E p \in Projects : Created(r, p)
      PROVE  Chase'
  <2>1. \/ Load(TRUE, Bare("getStarted"))
        \/ Load(FALSE, url)
        \/ Load(TRUE, Bare("home"))
    BY <1>7 DEF LoggedIn, UserNotFound, Created
  <2>2. TRUE \in BOOLEAN /\ FALSE \in BOOLEAN
    OBVIOUS
  <2> QED
    BY <1>1, <1>2, <1>3, <2>1, <2>2
<1>8. ASSUME NEW r \in asks, Answers(r) PROVE Chase'
  BY <1>4, <1>6, <1>7, <1>8 DEF Answers
<1>9. ASSUME UserActs PROVE Chase'
  <2>1. ASSUME NEW path \in Paths, TypeUrl(Bare(path)) PROVE Chase'
    BY <1>3, <2>1, BareOf DEF TypeUrl
  <2>2. ASSUME NEW path \in Paths, NEW p \in Projects, NEW role \in {"Owner", "Viewer"},
               TypeUrl(At(path, p, role))
        PROVE  Chase'
    <3>1. PICK u : u = At(path, p, role)
      OBVIOUS
    <3>2. u \in Urls
      BY <3>1, Named DEF At, Urls, Places
    <3> QED
      BY <1>3, <2>2, <3>1, <3>2 DEF TypeUrl
  <2>3. ASSUME logout PROVE Chase'
    <3>1. Load(FALSE, url) /\ FALSE \in BOOLEAN
      BY <2>3 DEF logout
    <3> QED
      BY <1>1, <1>3, <3>1
  <2> QED
    BY <1>5, <1>9, <2>1, <2>2, <2>3, PagesChase DEF UserActs
<1> QED
  BY <1>8, <1>9 DEF SessionNext, AnswersCome

\* Redirects that lose the project and lookups that lead back to a page do
\* not chase each other: whatever is typed into the address, and whichever
\* answers fail, overlap or come late, a project is looked up twice at most;
\* for any projects, and whatever the user is in them.
THEOREM SessionComesToRest == SessionSpec => []ComesToRest
<1>1. SessionInit => Chase
  <2> SUFFICES ASSUME SessionInit PROVE Chase
    OBVIOUS
  <2>1. cur.asks = {} /\ lookups = 0
    BY DEF SessionInit, cur, Now
  <2>2. Lookups(cur.asks) = {} /\ 0 \in 0 .. 2
    BY <2>1 DEF Lookups
  <2> QED
    BY <2>1, <2>2, NoLookups DEF Chase
<1>2. (SessionInv /\ token \in BOOLEAN) /\ Chase /\ [SessionNext]_(sessionVars) => Chase'
  <2>1. ASSUME SessionInv, token \in BOOLEAN, Chase, SessionNext PROVE Chase'
    BY <2>1, ChaseStep
  <2>2. ASSUME Chase, UNCHANGED sessionVars PROVE Chase'
    BY <2>2 DEF sessionVars, Chase, Chasing, Waits, InTime, WhileAsked, cur, Now
  <2> QED
    BY <2>1, <2>2
<1>3. Chase => ComesToRest
  BY DEF Chase, Chasing, ComesToRest
<1> QED
  BY <1>1, <1>2, <1>3, SessionInvariance, PTL DEF SessionSpec

-----------------------------------------------------------------------------
(* The page of a run: what is selected in the graph, in the store and in   *)
(* the panel of logs.                                                      *)

Nodes     == Runs \X DOMAIN Types
Pods      == Nodes \cup {NoPod, UndefinedPod}
TypeNames == {Types[i] : i \in DOMAIN Types}
LogPanels == {NoLogs} \cup [pod : Nodes, chaos : Nodes \cup {NoPod}, type : TypeNames, tab : {0, 1}]

Selections == [pod : Pods, type : TypeNames \cup {""}, tab : {0, 1}, visits : Nat]
RunPages == [at : Runs, answer : 0 .. Unread, events : 0 .. Unread, details : BOOLEAN,
             failed : BOOLEAN, toggled : BOOLEAN, graph : Pods, modal : BOOLEAN, logs : LogPanels]

CrashedPage == [NoPage EXCEPT !.at = "crashed"]

\* The store has the type of its node.
TypeKnown(s) == s.pod \in Nodes => s.type = TypeOf(s.pod)

\* The page pg shows a run that got to p, and as long as it does not, it has
\* neither a graph nor logs.
Sees(pg, s, p) == p # Unread /\ s.pod # NoPod /\ pg.details
NothingOpen(pg) == pg.graph = NoPod /\ pg.logs = NoLogs

\* The graph, while it is there, has selected what the store has.
GraphSelects(pg, s) == pg.graph = IF s.tab = 0 THEN s.pod ELSE NoPod

LogsSelected(pg, s, p) ==
  pg.logs # NoLogs =>
    /\ pg.logs.pod = s.pod /\ s.pod \in NodesAt(pg.at, p)
    /\ pg.logs.type = TypeOf(s.pod) /\ s.type = TypeOf(s.pod)
    /\ pg.logs.chaos = IF HasChaos(s.pod, p) THEN s.pod ELSE NoPod
    /\ pg.logs.tab = 1 => TypeOf(s.pod) = "ChaosEngine"

\* The modal is in the second tab only, where there is no graph.
OfRun(pg, s, p) ==
  /\ pg.modal => s.tab = 1
  /\ Sees(pg, s, p) => GraphSelects(pg, s)
  /\ ~ Sees(pg, s, p) => NothingOpen(pg)
  /\ LogsSelected(pg, s, p)

DetailsInv ==
  /\ reached \in [Runs -> 0 .. End] /\ cached \in [Runs -> 0 .. Unread]
  /\ selectedNode \in Selections /\ TypeKnown(selectedNode)
  /\ \/ hooks \in {NoPage, CrashedPage}
     \/ hooks \in RunPages /\ OfRun(hooks, selectedNode, cached[hooks.at])

\* What a render of the page pg with a run that got to p leads to.
Leads(pg, p) ==
  /\ selectedNode' \in Selections /\ TypeKnown(selectedNode')
  /\ \/ hooks' = CrashedPage
     \/ hooks' \in RunPages /\ hooks'.at = pg.at /\ OfRun(hooks', selectedNode', p)

\* The tab of chaos results is open for a chaos engine only.
ResultsTab(pg) == pg.logs # NoLogs /\ pg.logs.tab = 1 => selectedNode.type = "ChaosEngine"

LEMMA RunNodes ==
  /\ End \in Nat /\ Unread \in Nat /\ 0 .. End = 0 .. Unread \ {Unread} /\ Unread \notin 0 .. End
  /\ 1 \in DOMAIN Types /\ NoPod # UndefinedPod
  /\ NoPod \notin Nodes /\ UndefinedPod \notin Nodes
  /\ "" \notin Runs /\ "crashed" \notin Runs
<1>1. Len(Types) \in Nat /\ Len(Types) > 0 /\ DOMAIN Types = 1 .. Len(Types)
  BY TypesAssumption
<1>2. "" \notin Runs /\ "crashed" \notin Runs
  BY RunsAssumption
<1>3. /\ End \in Nat /\ Unread \in Nat /\ 0 .. End = 0 .. Unread \ {Unread}
      /\ Unread \notin 0 .. End /\ 1 \in DOMAIN Types
  BY <1>1 DEF End, Unread
<1>4. NoPod # UndefinedPod
  BY DEF NoPod, UndefinedPod
<1>5. NoPod \notin Nodes /\ UndefinedPod \notin Nodes
  BY <1>2 DEF NoPod, UndefinedPod, Nodes
<1> QED
  BY <1>2, <1>3, <1>4, <1>5

LEMMA StepNumbers ==
  /\ End \in Nat /\ Unread = End + 1
  /\ 0 .. End \subseteq 0 .. Unread /\ Unread \in 0 .. Unread
  /\ \A n \in 0 .. Unread : n \in Nat /\ n + 1 \in Nat
<1>1. End \in Nat /\ Unread = End + 1
  BY RunNodes DEF Unread
<1> QED
  BY <1>1

LEMMA TypeOfNode ==
  ASSUME NEW node \in Nodes
  PROVE  TypeOf(node) \in TypeNames
BY DEF Nodes, TypeOf, TypeNames

LEMMA NodesOf ==
  ASSUME NEW r \in Runs, NEW p
  PROVE  NodesAt(r, p) \subseteq Nodes
BY DEF NodesAt, Nodes

LEMMA FirstOf ==
  ASSUME NEW r \in Runs, NEW p
  PROVE  First(r, p) \in Nodes \cup {UndefinedPod} /\ First(r, p) # NoPod
<1>1. <<r, 1>> \in Nodes
  BY RunNodes DEF Nodes
<1>2. First(r, p) = UndefinedPod \/ First(r, p) = <<r, 1>>
  BY DEF First
<1> QED
  BY <1>1, <1>2, RunNodes

LEMMA SelectOf ==
  ASSUME NEW s \in Selections, NEW node \in Nodes \cup {UndefinedPod}
  PROVE  LET t == selectNode(s, node) IN
         /\ t \in Selections /\ TypeKnown(t) /\ t.pod = node /\ t.tab = s.tab
<1>1. PICK k : k = IF node = UndefinedPod THEN s.type ELSE TypeOf(node)
  OBVIOUS
<1>2. k \in TypeNames \cup {""}
  <2>1. s.type \in TypeNames \cup {""}
    BY DEF Selections
  <2>2. node # UndefinedPod => TypeOf(node) \in TypeNames
    BY TypeOfNode
  <2> QED
    BY <1>1, <2>1, <2>2
<1>3. node \in Pods
  BY DEF Pods
<1>4. PICK t : t = [s EXCEPT !.pod = node, !.type = k]
  OBVIOUS
<1>5. selectNode(s, node) = t
  BY <1>1, <1>4 DEF selectNode
<1>6. t \in Selections /\ t.pod = node /\ t.tab = s.tab /\ t.type = k
  BY <1>2, <1>3, <1>4 DEF Selections
<1>7. TypeKnown(t)
  BY <1>1, <1>6, RunNodes DEF TypeKnown
<1> QED
  BY <1>5, <1>6, <1>7

LEMMA PagesOf ==
  ASSUME NEW pg \in RunPages
  PROVE  /\ pg.at \in Runs /\ pg.graph \in Pods /\ pg.logs \in LogPanels
         /\ pg.answer \in 0 .. Unread /\ pg.events \in 0 .. Unread
BY DEF RunPages

\* The panel of logs asks for the selected node.
LEMMA LogsOf ==
  ASSUME NEW pg \in RunPages, NEW s \in Selections, TypeKnown(s), NEW p, ResultsTab(pg),
         LogsShown(pg, s, p) => s.pod \in NodesAt(pg.at, p)
  PROVE  LET l == LogsSwitcher(pg, s, p) IN
         /\ l \in LogPanels
         /\ l # NoLogs =>
              /\ l.pod = s.pod /\ s.pod \in NodesAt(pg.at, p)
              /\ l.type = TypeOf(s.pod) /\ s.type = TypeOf(s.pod)
              /\ l.chaos = IF HasChaos(s.pod, p) THEN s.pod ELSE NoPod
              /\ l.tab = 1 => TypeOf(s.pod) = "ChaosEngine"
<1>1. CASE ~ LogsShown(pg, s, p)
  BY <1>1 DEF LogsSwitcher, LogPanels
<1>2. CASE LogsShown(pg, s, p)
  <2>1. s.pod \in NodesAt(pg.at, p) /\ s.pod \in Nodes
    BY <1>2, NodesOf, PagesOf
  <2>2. s.type = TypeOf(s.pod) /\ TypeOf(s.pod) \in TypeNames
    BY <2>1, TypeOfNode DEF TypeKnown
  <2>3. PICK k : k = IF pg.logs = NoLogs \/ s.type # selectedNode.type THEN 0 ELSE pg.logs.tab
    OBVIOUS
  <2>4. k \in {0, 1}
    <3>1. pg.logs # NoLogs => pg.logs.tab \in {0, 1}
      BY PagesOf DEF LogPanels
    <3> QED
      BY <2>3, <3>1
  <2>5. k = 1 => TypeOf(s.pod) = "ChaosEngine"
    BY <2>2, <2>3 DEF ResultsTab
  <2>6. PICK c : c = IF HasChaos(s.pod, p) THEN s.pod ELSE NoPod
    OBVIOUS
  <2>7. c \in Nodes \cup {NoPod}
    BY <2>1, <2>6
  <2>8. PICK l : l = [pod |-> s.pod, chaos |-> c, type |-> TypeOf(s.pod), tab |-> k]
    OBVIOUS
  <2>9. LogsSwitcher(pg, s, p) = l
    BY <1>2, <2>3, <2>6, <2>8 DEF LogsSwitcher, chaosData
  <2>10. l \in LogPanels
    BY <2>1, <2>2, <2>4, <2>7, <2>8 DEF LogPanels
  <2>11. l.pod = s.pod /\ l.type = TypeOf(s.pod) /\ l.chaos = c /\ l.tab = k
    BY <2>8
  <2> QED
    BY <2>1, <2>2, <2>5, <2>6, <2>9, <2>10, <2>11
<1> QED
  BY <1>1, <1>2

LEMMA CommitOf ==
  ASSUME NEW pg \in RunPages, NEW s \in Selections, TypeKnown(s), NEW p \in 0 .. End,
         s.pod # NoPod, pg.details, pg.modal => s.tab = 1,
         s.tab = 0 => pg.graph = NoPod \/ pg.graph = s.pod,
         ResultsTab(pg), Commit(pg, s, p)
  PROVE  Leads(pg, p)
<1>1. /\ pg.at \in Runs /\ pg.graph \in Pods /\ s.tab \in {0, 1} /\ s.pod \in Pods
  BY PagesOf DEF Selections
<1>2. PICK f : f = First(pg.at, p)
  OBVIOUS
<1>3. f \in Nodes \cup {UndefinedPod} /\ f # NoPod
  BY <1>1, <1>2, FirstOf
<1>4. PICK g : g = IF s.tab # 0 THEN NoPod ELSE IF s.tab = 0 /\ pg.graph = NoPod THEN f ELSE pg.graph
  OBVIOUS
<1>5. PICK c : c = IF g \notin {NoPod, pg.graph} THEN selectNode(s, g) ELSE s
  OBVIOUS
<1>6. g \in Pods /\ (s.tab # 0 => g = NoPod)
  BY <1>1, <1>3, <1>4 DEF Pods
<1>7. /\ c \in Selections /\ TypeKnown(c) /\ c.tab = s.tab /\ c.pod # NoPod
      /\ s.tab = 0 => g = c.pod
  <2>1. CASE s.tab = 0 /\ pg.graph = NoPod
    <3>1. c = selectNode(s, g) /\ g = f
      BY <1>3, <1>4, <1>5, <2>1
    <3> QED
      BY <1>3, <3>1, SelectOf
  <2>2. CASE s.tab # 0 \/ pg.graph # NoPod
    <3>1. g \in {NoPod, pg.graph}
      BY <1>4, <2>2
    <3>2. c = s
      BY <1>5, <3>1
    <3>3. s.tab = 0 => g = s.pod
      BY <1>4, <2>2
    <3> QED
      BY <3>2, <3>3
  <2> QED
    BY <2>1, <2>2
<1>8. PICK n : n = [pg EXCEPT !.graph = g]
  OBVIOUS
<1>9. /\ n \in RunPages /\ n.at = pg.at /\ n.graph = g /\ n.details = pg.details
      /\ n.modal = pg.modal /\ n.logs = pg.logs
  BY <1>6, <1>8 DEF RunPages
<1>10. PICK l : l = LogsSwitcher(n, c, p)
  OBVIOUS
<1>11. /\ selectedNode' = c
       /\ hooks' = IF Crashes(n, c, p) THEN CrashedPage ELSE [n EXCEPT !.logs = l]
  BY <1>2, <1>4, <1>5, <1>8, <1>10 DEF Commit, CrashedPage
<1>12. CASE Crashes(n, c, p)
  BY <1>7, <1>11, <1>12 DEF Leads
<1>13. CASE ~ Crashes(n, c, p)
  <2>1. LogsShown(n, c, p) => c.pod \in NodesAt(n.at, p)
    BY <1>13 DEF Crashes
  <2>2. ResultsTab(n)
    BY <1>9 DEF ResultsTab
  <2>3. /\ l \in LogPanels
        /\ l # NoLogs =>
             /\ l.pod = c.pod /\ c.pod \in NodesAt(n.at, p)
             /\ l.type = TypeOf(c.pod) /\ c.type = TypeOf(c.pod)
             /\ l.chaos = IF HasChaos(c.pod, p) THEN c.pod ELSE NoPod
             /\ l.tab = 1 => TypeOf(c.pod) = "ChaosEngine"
    BY <1>7, <1>9, <1>10, <2>1, <2>2, LogsOf
  <2>4. PICK h : h = [n EXCEPT !.logs = l]
    OBVIOUS
  <2>5. /\ h \in RunPages /\ h.at = pg.at /\ h.graph = g /\ h.details = pg.details
        /\ h.modal = pg.modal /\ h.logs = l
    BY <1>9, <2>3, <2>4 DEF RunPages
  <2>6. LogsSelected(h, c, p)
    BY <1>9, <2>3, <2>5 DEF LogsSelected
  <2>7. GraphSelects(h, c)
    BY <1>6, <1>7, <2>5 DEF GraphSelects
  <2>8. Sees(h, c, p)
    BY <1>7, <2>5, RunNodes DEF Sees
  <2>9. OfRun(h, c, p)
    BY <1>7, <2>5, <2>6, <2>7, <2>8 DEF OfRun
  <2>10. hooks' = h
    BY <1>11, <1>13, <2>4
  <2> QED
    BY <1>7, <1>11, <2>5, <2>9, <2>10 DEF Leads
<1> QED
  BY <1>12, <1>13


\* A render of a page that shows nothing yet, or shows what is selected.
LEMMA RenderOf ==
  ASSUME NEW pg \in RunPages, NEW s \in Selections, TypeKnown(s), NEW p \in 0 .. Unread,
         pg.modal => s.tab = 1,
         NothingOpen(pg) \/ (Sees(pg, s, p) /\ GraphSelects(pg, s)),
         ResultsTab(pg), Render(pg, s, p)
  PROVE  Leads(pg, p)
<1>1. PICK b \in BOOLEAN : b = (p # Unread /\ s.pod = NoPod)
  OBVIOUS
<1>2. PICK f : f = IF b /\ p > 0 THEN selectNode(s, First(pg.at, p)) ELSE s
  OBVIOUS
<1>3. PICK d \in BOOLEAN : d = (pg.failed \/ (b /\ p = 0))
  BY DEF RunPages
<1>4. PICK n : n = [pg EXCEPT !.failed = d]
  OBVIOUS
<1>5. /\ n \in RunPages /\ n.at = pg.at /\ n.graph = pg.graph /\ n.details = pg.details
      /\ n.modal = pg.modal /\ n.logs = pg.logs
  BY <1>3, <1>4 DEF RunPages
<1>6. f \in Selections /\ TypeKnown(f) /\ f.tab = s.tab /\ (s.pod # NoPod => f = s)
  <2>1. First(pg.at, p) \in Nodes \cup {UndefinedPod}
    BY PagesOf, FirstOf
  <2>2. PICK x \in Nodes \cup {UndefinedPod} : x = First(pg.at, p)
    BY <2>1
  <2>3. CASE b /\ p > 0
    <3>1. f = selectNode(s, x)
      BY <1>2, <2>2, <2>3
    <3> QED
      BY <1>1, <2>3, <3>1, SelectOf
  <2>4. CASE ~ (b /\ p > 0)
    BY <1>2, <2>4
  <2> QED
    BY <2>3, <2>4
<1>7. IF p # Unread /\ f.pod # NoPod /\ pg.details THEN Commit(n, f, p)
      ELSE selectedNode' = f /\ hooks' = n
  BY <1>1, <1>2, <1>3, <1>4 DEF Render
<1>8. CASE p # Unread /\ f.pod # NoPod /\ pg.details
  <2>1. p \in 0 .. End
    BY <1>8, RunNodes
  <2>2. s.tab = 0 => n.graph = NoPod \/ n.graph = f.pod
    BY <1>5, <1>6 DEF NothingOpen, Sees, GraphSelects
  <2>3. ResultsTab(n)
    BY <1>5 DEF ResultsTab
  <2>4. Commit(n, f, p)
    BY <1>7, <1>8
  <2>5. Leads(n, p)
    BY <1>5, <1>6, <1>8, <2>1, <2>2, <2>3, <2>4, CommitOf
  <2> QED
    BY <1>5, <2>5 DEF Leads
<1>9. CASE ~ (p # Unread /\ f.pod # NoPod /\ pg.details)
  <2>1. ~ Sees(pg, s, p)
    BY <1>6, <1>9 DEF Sees
  <2>2. NothingOpen(n)
    BY <1>5, <2>1 DEF NothingOpen
  <2>3. ~ Sees(n, f, p)
    BY <1>5, <1>9 DEF Sees
  <2>4. OfRun(n, f, p)
    BY <1>5, <1>6, <2>2, <2>3 DEF OfRun, LogsSelected, NothingOpen
  <2>5. selectedNode' = f /\ hooks' = n
    BY <1>7, <1>9
  <2> QED
    BY <1>5, <1>6, <2>4, <2>5 DEF Leads
<1> QED
  BY <1>8, <1>9

LEMMA PageOrNone ==
  ASSUME DetailsInv, hooks # NoPage, hooks # CrashedPage
  PROVE  hooks \in RunPages /\ OfRun(hooks, selectedNode, cached[hooks.at])
BY DEF DetailsInv

LEMMA NoneOf ==
  /\ NoPage.at = "" /\ CrashedPage.at = "crashed"
  /\ NoPage.answer = Unread /\ CrashedPage.answer = Unread
  /\ NoPage.logs = NoLogs /\ CrashedPage.logs = NoLogs
BY DEF NoPage, CrashedPage

\* A run's page is neither closed nor crashed.
LEMMA RunPageOpen ==
  ASSUME DetailsInv, hooks.at \in Runs \/ hooks.answer # Unread \/ hooks.logs # NoLogs
  PROVE  /\ hooks \in RunPages /\ OfRun(hooks, selectedNode, cached[hooks.at])
         /\ hooks.at \in Runs
<1>1. hooks # NoPage /\ hooks # CrashedPage
  BY NoneOf, RunNodes
<1> QED
  BY <1>1, PageOrNone, PagesOf

LEMMA ResultsOfEngines ==
  ASSUME DetailsInv, hooks.at \in Runs
  PROVE  ResultsTab(hooks)
<1>1. LogsSelected(hooks, selectedNode, cached[hooks.at])
  BY RunPageOpen DEF OfRun
<1> QED
  BY <1>1 DEF LogsSelected, ResultsTab

\* A page that is rendered with a run that is now in the cache.
LEMMA Rendered ==
  ASSUME DetailsInv, NEW pg \in RunPages, NEW p \in 0 .. Unread, Leads(pg, p),
         reached' = reached, cached' = [cached EXCEPT ![pg.at] = p]
  PROVE  DetailsInv'
<1>1. pg.at \in Runs
  BY PagesOf
<1>2. cached' \in [Runs -> 0 .. Unread] /\ cached'[pg.at] = p
  BY <1>1 DEF DetailsInv
<1>3. reached' \in [Runs -> 0 .. End]
  BY DEF DetailsInv
<1>4. selectedNode' \in Selections /\ TypeKnown(selectedNode')
  BY DEF Leads
<1>5. \/ hooks' = CrashedPage
      \/ hooks' \in RunPages /\ OfRun(hooks', selectedNode', cached'[hooks'.at])
  BY <1>2 DEF Leads
<1> QED
  BY <1>2, <1>3, <1>4, <1>5 DEF DetailsInv

\* A page that is rendered with what the cache has.
LEMMA RenderedAgain ==
  ASSUME DetailsInv, NEW pg \in RunPages, Leads(pg, cached[pg.at]),
         reached' = reached, cached' = cached
  PROVE  DetailsInv'
<1>1. pg.at \in Runs /\ cached \in [Runs -> 0 .. Unread]
  BY PagesOf DEF DetailsInv
<1>2. cached[pg.at] \in 0 .. Unread /\ cached' = [cached EXCEPT ![pg.at] = cached[pg.at]]
  BY <1>1
<1> QED
  BY <1>1, <1>2, Rendered

\* New data of the run, or of its scenario, for the page that is open.
LEMMA RenderedAnew ==
  ASSUME DetailsInv, hooks.at \in Runs, NEW pg \in RunPages, NEW p \in 0 .. End,
         pg.at = hooks.at, hooks.details => pg.details, pg.graph = hooks.graph,
         pg.modal = hooks.modal, pg.logs = hooks.logs,
         Render(pg, selectedNode, p)
  PROVE  Leads(pg, p)
<1>1. OfRun(hooks, selectedNode, cached[hooks.at])
  BY RunPageOpen
<1>2. selectedNode \in Selections /\ TypeKnown(selectedNode)
  BY DEF DetailsInv
<1>3. p \in 0 .. Unread /\ p # Unread
  BY RunNodes
<1>4. pg.modal => selectedNode.tab = 1
  BY <1>1 DEF OfRun
<1>5. ResultsTab(pg)
  BY ResultsOfEngines DEF ResultsTab
<1>6. NothingOpen(pg) \/ (Sees(pg, selectedNode, p) /\ GraphSelects(pg, selectedNode))
  <2>1. CASE Sees(hooks, selectedNode, cached[hooks.at])
    BY <1>1, <1>3, <2>1 DEF OfRun, Sees, GraphSelects
  <2>2. CASE ~ Sees(hooks, selectedNode, cached[hooks.at])
    BY <1>1, <2>2 DEF OfRun, NothingOpen
  <2> QED
    BY <2>1, <2>2
<1> QED
  BY <1>2, <1>3, <1>4, <1>5, <1>6, RenderOf

\* Progress is counted up to the end of the run.
LEMMA ReadSoFar ==
  ASSUME DetailsInv, hooks.at \in Runs, NEW from \in Nat, NEW p \in from .. reached[hooks.at]
  PROVE  p \in 0 .. End
<1>1. PICK n \in 0 .. End : n = reached[hooks.at]
  BY DEF DetailsInv
<1>2. p \in from .. n
  BY <1>1
<1> QED
  BY <1>2, StepNumbers

LEMMA ProgressKeeps ==
  ASSUME DetailsInv, NEW r \in Runs, Progress(r)
  PROVE  DetailsInv'
<1>1. PICK n : n = reached[r]
  OBVIOUS
<1>2. n \in 0 .. End /\ n < End
  BY <1>1 DEF Progress, DetailsInv
<1>3. n + 1 \in 0 .. End
  BY <1>2, StepNumbers
<1>4. reached' = [reached EXCEPT ![r] = n + 1]
  BY <1>1 DEF Progress
<1>5. reached' \in [Runs -> 0 .. End]
  BY <1>3, <1>4 DEF DetailsInv
<1>6. cached' = cached /\ selectedNode' = selectedNode /\ hooks' = hooks
  BY DEF Progress
<1> QED
  BY <1>5, <1>6 DEF DetailsInv, TypeKnown, OfRun, Sees, NothingOpen, GraphSelects, LogsSelected

LEMMA LeaveKeeps ==
  ASSUME DetailsInv, LeaveRun
  PROVE  DetailsInv'
<1>1. cached' \in [Runs -> 0 .. Unread]
  <2>1. cached \in [Runs -> 0 .. Unread]
    BY DEF DetailsInv
  <2>2. [r \in Runs |-> Unread] \in [Runs -> 0 .. Unread]
    BY StepNumbers
  <2> QED
    BY <2>1, <2>2 DEF LeaveRun
<1>2. reached' = reached /\ selectedNode' = selectedNode /\ hooks' = NoPage
  BY DEF LeaveRun
<1> QED
  BY <1>1, <1>2 DEF DetailsInv, TypeKnown

\* The page opens in its first tab, with nothing of the run on the screen.
LEMMA OpenKeeps ==
  ASSUME DetailsInv, NEW r \in Runs, OpenRun(r)
  PROVE  DetailsInv'
<1>1. PICK e : e = IF Running(cached[r]) THEN reached[r] ELSE Unread
  OBVIOUS
<1>2. PICK pg : pg = [NoPage EXCEPT !.at = r, !.answer = reached[r], !.events = e]
  OBVIOUS
<1>3. PICK s : s = [selectedNode EXCEPT !.tab = 0, !.visits = @ + 1]
  OBVIOUS
<1>4. reached[r] \in 0 .. Unread /\ cached[r] \in 0 .. Unread
  BY RunNodes DEF DetailsInv
<1>5. e \in 0 .. Unread
  BY <1>1, <1>4, StepNumbers
<1>6. pg \in RunPages /\ pg.at = r /\ ~ pg.modal /\ NothingOpen(pg)
  BY <1>2, <1>4, <1>5 DEF RunPages, NoPage, Pods, LogPanels, NothingOpen
<1>7. s \in Selections /\ TypeKnown(s)
  <2>1. selectedNode \in Selections /\ TypeKnown(selectedNode)
    BY DEF DetailsInv
  <2>2. PICK v \in Nat : v = selectedNode.visits + 1
    <3>1. selectedNode.visits \in Nat
      BY <2>1 DEF Selections
    <3>2. selectedNode.visits + 1 \in Nat
      BY <3>1
    <3> QED
      BY <3>2
  <2>3. s = [selectedNode EXCEPT !.tab = 0, !.visits = v]
    BY <1>3, <2>2
  <2>4. s \in Selections /\ s.pod = selectedNode.pod /\ s.type = selectedNode.type
    BY <2>1, <2>3 DEF Selections
  <2> QED
    BY <2>1, <2>4 DEF TypeKnown
<1>8. Render(pg, s, cached[r]) /\ reached' = reached /\ cached' = cached
  BY <1>1, <1>2, <1>3 DEF OpenRun
<1>9. ResultsTab(pg)
  BY <1>6 DEF ResultsTab, NothingOpen
<1>10. Leads(pg, cached[r])
  BY <1>4, <1>6, <1>7, <1>8, <1>9, RenderOf
<1> QED
  BY <1>6, <1>8, <1>10, RenderedAgain

LEMMA AnswerKeeps ==
  ASSUME DetailsInv, WorkflowRunAnswered
  PROVE  DetailsInv'
<1>1. hooks.answer # Unread /\ reached' = reached
  BY DEF WorkflowRunAnswered
<1>2. hooks \in RunPages /\ hooks.at \in Runs
  BY <1>1, RunPageOpen
<1>3. hooks.answer \in Nat /\ hooks.events \in 0 .. Unread /\ reached[hooks.at] \in 0 .. Unread
  <2>1. hooks.answer \in 0 .. Unread /\ hooks.events \in 0 .. Unread
    BY <1>2, PagesOf
  <2>2. reached[hooks.at] \in 0 .. End
    BY <1>2 DEF DetailsInv
  <2> QED
    BY <2>1, <2>2, StepNumbers
<1>4. PICK p \in hooks.answer .. reached[hooks.at] : NewData(p)
  BY DEF WorkflowRunAnswered
<1>5. p \in 0 .. End /\ p \in 0 .. Unread
  BY <1>2, <1>3, ReadSoFar, RunNodes
<1>6. PICK e : e = IF hooks.events = Unread /\ Running(p) THEN reached[hooks.at] ELSE hooks.events
  OBVIOUS
<1>7. e \in 0 .. Unread
  BY <1>3, <1>6
<1>8. PICK pg : pg = [hooks EXCEPT !.answer = Unread, !.events = e]
  OBVIOUS
<1>9. /\ pg \in RunPages /\ pg.at = hooks.at /\ pg.details = hooks.details
      /\ pg.graph = hooks.graph /\ pg.modal = hooks.modal /\ pg.logs = hooks.logs
  <2>1. Unread \in 0 .. Unread
    BY StepNumbers
  <2> QED
    BY <1>2, <1>7, <1>8, <2>1 DEF RunPages
<1>10. Render(pg, selectedNode, p) /\ cached' = [cached EXCEPT ![pg.at] = p]
  BY <1>4, <1>6, <1>8, <1>9 DEF NewData
<1>11. Leads(pg, p)
  BY <1>2, <1>5, <1>9, <1>10, RenderedAnew
<1> QED
  BY <1>1, <1>5, <1>9, <1>10, <1>11, Rendered

LEMMA EventKeeps ==
  ASSUME DetailsInv, WorkflowEvent
  PROVE  DetailsInv'
<1>1. hooks.at \in Runs /\ hooks.events # Unread /\ reached' = reached
  BY DEF WorkflowEvent
<1>2. hooks \in RunPages
  BY <1>1, RunPageOpen
<1>3. hooks.events + 1 \in Nat
  <2>1. hooks.events \in 0 .. Unread
    BY <1>2, PagesOf
  <2> QED
    BY <2>1, StepNumbers
<1>4. PICK p \in hooks.events + 1 .. reached[hooks.at] :
         /\ cached' = [cached EXCEPT ![hooks.at] = p]
         /\ Render([hooks EXCEPT !.events = p], selectedNode, p)
  BY DEF WorkflowEvent
<1>5. p \in 0 .. End /\ p \in 0 .. Unread
  BY <1>1, <1>3, ReadSoFar, RunNodes
<1>6. PICK pg : pg = [hooks EXCEPT !.events = p]
  OBVIOUS
<1>7. /\ pg \in RunPages /\ pg.at = hooks.at /\ pg.details = hooks.details
      /\ pg.graph = hooks.graph /\ pg.modal = hooks.modal /\ pg.logs = hooks.logs
  BY <1>2, <1>5, <1>6 DEF RunPages
<1>8. Render(pg, selectedNode, p) /\ cached' = [cached EXCEPT ![pg.at] = p]
  BY <1>4, <1>6, <1>7
<1>9. Leads(pg, p)
  BY <1>1, <1>5, <1>7, <1>8, RenderedAnew
<1> QED
  BY <1>1, <1>5, <1>7, <1>8, <1>9, Rendered

LEMMA DescriptionKeeps ==
  ASSUME DetailsInv, DetailsAnswered
  PROVE  DetailsInv'
<1>1. hooks.at \in Runs /\ cached[hooks.at] # Unread /\ reached' = reached /\ cached' = cached
  BY DEF DetailsAnswered
<1>2. hooks \in RunPages
  BY <1>1, RunPageOpen
<1>3. PICK p \in 0 .. End : p = cached[hooks.at]
  BY <1>1, RunNodes DEF DetailsInv
<1>4. PICK pg : pg = [hooks EXCEPT !.details = TRUE]
  OBVIOUS
<1>5. /\ pg \in RunPages /\ pg.at = hooks.at /\ pg.details
      /\ pg.graph = hooks.graph /\ pg.modal = hooks.modal /\ pg.logs = hooks.logs
  BY <1>2, <1>4 DEF RunPages
<1>6. Render(pg, selectedNode, p)
  BY <1>3, <1>4 DEF DetailsAnswered
<1>7. Leads(pg, p)
  BY <1>1, <1>5, <1>6, RenderedAnew
<1> QED
  BY <1>1, <1>3, <1>5, <1>7, RenderedAgain

\* What is on the screen when the user acts.
LEMMA OnScreen ==
  ASSUME DetailsInv, UserSees
  PROVE  /\ hooks \in RunPages /\ hooks.at \in Runs /\ hooks.details
         /\ selectedNode \in Selections /\ TypeKnown(selectedNode) /\ selectedNode.pod # NoPod
         /\ cached[hooks.at] \in 0 .. End
         /\ hooks.graph = IF selectedNode.tab = 0 THEN selectedNode.pod ELSE NoPod
         /\ hooks.modal => selectedNode.tab = 1
         /\ ResultsTab(hooks)
<1>1. /\ hooks.at \in Runs /\ cached[hooks.at] # Unread /\ selectedNode.pod # NoPod
      /\ hooks.details
  BY DEF UserSees, RunShown
<1>2. hooks \in RunPages /\ OfRun(hooks, selectedNode, cached[hooks.at])
  BY <1>1, RunPageOpen
<1>3. Sees(hooks, selectedNode, cached[hooks.at])
  BY <1>1 DEF Sees
<1>4. cached[hooks.at] \in 0 .. End
  BY <1>1, RunNodes DEF DetailsInv
<1>5. selectedNode \in Selections /\ TypeKnown(selectedNode)
  BY DEF DetailsInv
<1>6. GraphSelects(hooks, selectedNode) /\ (hooks.modal => selectedNode.tab = 1)
  BY <1>2, <1>3 DEF OfRun
<1> QED
  BY <1>1, <1>2, <1>4, <1>5, <1>6, ResultsOfEngines DEF GraphSelects

\* What the user does is rendered at once, with what the cache has.
LEMMA Presented ==
  ASSUME DetailsInv, UserSees, NEW pg \in RunPages, NEW s \in Selections, TypeKnown(s),
         pg.at = hooks.at, pg.details = hooks.details, pg.logs = hooks.logs,
         s.pod # NoPod, pg.modal => s.tab = 1,
         s.tab = 0 => pg.graph = NoPod \/ pg.graph = s.pod,
         Present(pg, s)
  PROVE  DetailsInv'
<1>1. pg.details /\ cached[pg.at] \in 0 .. End
  BY OnScreen
<1>2. ResultsTab(pg)
  BY OnScreen DEF ResultsTab
<1>3. Commit(pg, s, cached[pg.at]) /\ reached' = reached /\ cached' = cached
  BY DEF Present
<1>4. Leads(pg, cached[pg.at])
  BY <1>1, <1>2, <1>3, CommitOf
<1> QED
  BY <1>3, <1>4, RenderedAgain

LEMMA TabKeeps ==
  ASSUME DetailsInv, NEW tab \in {0, 1}, handleChange(tab)
  PROVE  DetailsInv'
<1>1. UserSees /\ tab # selectedNode.tab /\ ~ hooks.modal
  BY DEF handleChange
<1>2. PICK s : s = [selectedNode EXCEPT !.tab = tab]
  OBVIOUS
<1>3. selectedNode \in Selections /\ TypeKnown(selectedNode) /\ selectedNode.pod # NoPod
  BY <1>1, OnScreen
<1>4. /\ s \in Selections /\ s.pod = selectedNode.pod /\ s.type = selectedNode.type
      /\ s.tab = tab
  BY <1>2, <1>3 DEF Selections
<1>5. TypeKnown(s)
  BY <1>3, <1>4 DEF TypeKnown
<1>6. s.tab = 0 => hooks.graph = NoPod
  BY <1>1, <1>4, OnScreen
<1>7. Present(hooks, s)
  BY <1>2 DEF handleChange
<1> QED
  BY <1>1, <1>3, <1>4, <1>5, <1>6, <1>7, OnScreen, Presented

LEMMA GraphKeeps ==
  ASSUME DetailsInv, NEW node, onNodeClick(node)
  PROVE  DetailsInv'
<1>1. UserSees /\ selectedNode.tab = 0 /\ node \in NodesAt(hooks.at, cached[hooks.at])
  BY DEF onNodeClick
<1>2. node \in Nodes /\ node \in Pods /\ node # NoPod
  BY <1>1, OnScreen, NodesOf, RunNodes DEF Pods
<1>3. PICK pg : pg = [hooks EXCEPT !.toggled = TRUE, !.graph = node]
  OBVIOUS
<1>4. hooks \in RunPages /\ ~ hooks.modal
  BY <1>1, OnScreen
<1>5. /\ pg \in RunPages /\ pg.at = hooks.at /\ pg.details = hooks.details
      /\ pg.logs = hooks.logs /\ pg.graph = node /\ pg.modal = hooks.modal
  BY <1>2, <1>3, <1>4 DEF RunPages
<1>6. PICK s : s = IF node = hooks.graph THEN selectedNode ELSE selectNode(selectedNode, node)
  OBVIOUS
<1>7. s \in Selections /\ TypeKnown(s) /\ s.pod = node
  <2>1. selectedNode \in Selections /\ TypeKnown(selectedNode) /\ hooks.graph = selectedNode.pod
    BY <1>1, OnScreen
  <2>2. CASE node = hooks.graph
    BY <1>6, <2>1, <2>2
  <2>3. CASE node # hooks.graph
    BY <1>2, <1>6, <2>1, <2>3, SelectOf
  <2> QED
    BY <2>2, <2>3
<1>8. Present(pg, s)
  BY <1>3, <1>6 DEF onNodeClick
<1> QED
  BY <1>1, <1>2, <1>4, <1>5, <1>7, <1>8, Presented

LEMMA ToggleKeeps ==
  ASSUME DetailsInv, setIsInfoToggled
  PROVE  DetailsInv'
<1>1. UserSees
  BY DEF setIsInfoToggled
<1>2. PICK pg : pg = [hooks EXCEPT !.toggled = FALSE]
  OBVIOUS
<1>3. hooks \in RunPages
  BY <1>1, OnScreen
<1>4. /\ pg \in RunPages /\ pg.at = hooks.at /\ pg.details = hooks.details
      /\ pg.logs = hooks.logs /\ pg.graph = hooks.graph /\ pg.modal = hooks.modal
  BY <1>2, <1>3 DEF RunPages
<1>5. Present(pg, selectedNode)
  BY <1>2 DEF setIsInfoToggled
<1> QED
  BY <1>1, <1>4, <1>5, OnScreen, Presented

LEMMA ViewLogsKeeps ==
  ASSUME DetailsInv, NEW node, onViewLogsClick(node)
  PROVE  DetailsInv'
<1>1. UserSees /\ selectedNode.tab = 1 /\ node \in NodesAt(hooks.at, cached[hooks.at])
  BY DEF onViewLogsClick
<1>2. node \in Nodes /\ node # NoPod
  BY <1>1, OnScreen, NodesOf, RunNodes
<1>3. PICK pg : pg = [hooks EXCEPT !.modal = TRUE]
  OBVIOUS
<1>4. hooks \in RunPages /\ selectedNode \in Selections
  BY <1>1, OnScreen
<1>5. /\ pg \in RunPages /\ pg.at = hooks.at /\ pg.details = hooks.details
      /\ pg.logs = hooks.logs
  BY <1>3, <1>4 DEF RunPages
<1>6. PICK s : s = selectNode(selectedNode, node)
  OBVIOUS
<1>7. s \in Selections /\ TypeKnown(s) /\ s.pod = node /\ s.tab = 1
  BY <1>1, <1>2, <1>4, <1>6, SelectOf
<1>8. Present(pg, s)
  BY <1>3, <1>6 DEF onViewLogsClick
<1> QED
  BY <1>1, <1>2, <1>5, <1>7, <1>8, Presented

LEMMA ChangeNodeKeeps ==
  ASSUME DetailsInv, NEW node, changeNodeLogs(node)
  PROVE  DetailsInv'
<1>1. UserSees /\ hooks.modal /\ node \in NodesAt(hooks.at, cached[hooks.at])
  BY DEF changeNodeLogs
<1>2. node \in Nodes /\ node # NoPod
  BY <1>1, OnScreen, NodesOf, RunNodes
<1>3. hooks \in RunPages /\ selectedNode \in Selections /\ selectedNode.tab = 1
  BY <1>1, OnScreen
<1>4. PICK s : s = selectNode(selectedNode, node)
  OBVIOUS
<1>5. s \in Selections /\ TypeKnown(s) /\ s.pod = node /\ s.tab = 1
  BY <1>2, <1>3, <1>4, SelectOf
<1>6. Present(hooks, s)
  BY <1>4 DEF changeNodeLogs
<1> QED
  BY <1>1, <1>2, <1>3, <1>5, <1>6, Presented

LEMMA CloseKeeps ==
  ASSUME DetailsInv, handleClose
  PROVE  DetailsInv'
<1>1. UserSees
  BY DEF handleClose
<1>2. PICK pg : pg = [hooks EXCEPT !.modal = FALSE]
  OBVIOUS
<1>3. hooks \in RunPages
  BY <1>1, OnScreen
<1>4. /\ pg \in RunPages /\ pg.at = hooks.at /\ pg.details = hooks.details
      /\ pg.logs = hooks.logs /\ pg.graph = hooks.graph /\ ~ pg.modal
  BY <1>2, <1>3 DEF RunPages
<1>5. Present(pg, selectedNode)
  BY <1>2 DEF handleClose
<1> QED
  BY <1>1, <1>4, <1>5, OnScreen, Presented

LEMMA LogsTabKeeps ==
  ASSUME DetailsInv, NEW tab \in {0, 1}, LogsTab(tab)
  PROVE  DetailsInv'
<1>1. hooks.logs # NoLogs /\ (tab = 1 => selectedNode.type = "ChaosEngine")
  BY DEF LogsTab
<1>2. /\ hooks \in RunPages /\ hooks.at \in Runs
      /\ OfRun(hooks, selectedNode, cached[hooks.at])
  BY <1>1, RunPageOpen
<1>3. PICK p : p = cached[hooks.at]
  OBVIOUS
<1>4. PICK l : l = [hooks.logs EXCEPT !.tab = tab]
  OBVIOUS
<1>5. hooks.logs \in [pod : Nodes, chaos : Nodes \cup {NoPod}, type : TypeNames, tab : {0, 1}]
  BY <1>1, <1>2, PagesOf DEF LogPanels
<1>6. /\ l \in LogPanels /\ l.tab = tab /\ l.pod = hooks.logs.pod
      /\ l.type = hooks.logs.type /\ l.chaos = hooks.logs.chaos
  BY <1>4, <1>5 DEF LogPanels
<1>7. PICK pg : pg = [hooks EXCEPT !.logs = l]
  OBVIOUS
<1>8. /\ pg \in RunPages /\ pg.at = hooks.at /\ pg.details = hooks.details
      /\ pg.graph = hooks.graph /\ pg.modal = hooks.modal /\ pg.logs = l
  BY <1>2, <1>6, <1>7 DEF RunPages
<1>9. /\ hooks.logs.pod = selectedNode.pod /\ selectedNode.pod \in NodesAt(hooks.at, p)
      /\ hooks.logs.type = TypeOf(selectedNode.pod)
      /\ selectedNode.type = TypeOf(selectedNode.pod)
      /\ hooks.logs.chaos = IF HasChaos(selectedNode.pod, p) THEN selectedNode.pod ELSE NoPod
  BY <1>1, <1>2, <1>3 DEF OfRun, LogsSelected
<1>10. LogsSelected(pg, selectedNode, p)
  BY <1>1, <1>6, <1>8, <1>9 DEF LogsSelected
<1>11. Sees(hooks, selectedNode, p)
  BY <1>1, <1>2, <1>3 DEF OfRun, NothingOpen
<1>12. Sees(pg, selectedNode, p) /\ GraphSelects(pg, selectedNode)
  BY <1>2, <1>3, <1>8, <1>11 DEF OfRun, Sees, GraphSelects
<1>13. OfRun(pg, selectedNode, p)
  BY <1>2, <1>8, <1>10, <1>12 DEF OfRun
<1>14. hooks' = pg /\ reached' = reached /\ cached' = cached /\ selectedNode' = selectedNode
  BY <1>4, <1>7 DEF LogsTab
<1>15. selectedNode' \in Selections /\ TypeKnown(selectedNode')
  BY <1>14 DEF DetailsInv
<1>16. hooks' \in RunPages /\ OfRun(hooks', selectedNode', cached'[hooks'.at])
  BY <1>3, <1>8, <1>13, <1>14
<1> QED
  BY <1>14, <1>15, <1>16 DEF DetailsInv

LEMMA DetailsBegin ==
  ASSUME DetailsInit
  PROVE  DetailsInv
<1>1. hooks = NoPage
  BY DEF DetailsInit
<1>2. reached \in [Runs -> 0 .. End]
  <2>1. 0 \in 0 .. End
    BY StepNumbers
  <2> QED
    BY <2>1 DEF DetailsInit
<1>3. cached \in [Runs -> 0 .. Unread]
  <2>1. Unread \in 0 .. Unread
    BY StepNumbers
  <2> QED
    BY <2>1 DEF DetailsInit
<1>4. selectedNode \in Selections /\ selectedNode.pod = NoPod
  BY DEF DetailsInit, Selections, Pods
<1>5. TypeKnown(selectedNode)
  BY <1>4, RunNodes DEF TypeKnown
<1> QED
  BY <1>1, <1>2, <1>3, <1>4, <1>5 DEF DetailsInv

LEMMA DetailsStep ==
  ASSUME DetailsInv, [DetailsNext]_detailsVars
  PROVE  DetailsInv'
<1>1. ASSUME NEW r \in Runs, Progress(r) PROVE DetailsInv'
  BY <1>1, ProgressKeeps
<1>2. ASSUME NEW r \in Runs, OpenRun(r) PROVE DetailsInv'
  BY <1>2, OpenKeeps
<1>3. ASSUME WorkflowRunAnswered PROVE DetailsInv'
  BY <1>3, AnswerKeeps
<1>4. ASSUME WorkflowEvent PROVE DetailsInv'
  BY <1>4, EventKeeps
<1>5. ASSUME DetailsAnswered PROVE DetailsInv'
  BY <1>5, DescriptionKeeps
<1>6. ASSUME LeaveRun PROVE DetailsInv'
  BY <1>6, LeaveKeeps
<1>7. ASSUME setIsInfoToggled PROVE DetailsInv'
  BY <1>7, ToggleKeeps
<1>8. ASSUME handleClose PROVE DetailsInv'
  BY <1>8, CloseKeeps
<1>9. ASSUME NEW node, onNodeClick(node) PROVE DetailsInv'
  BY <1>9, GraphKeeps
<1>10. ASSUME NEW node, onViewLogsClick(node) PROVE DetailsInv'
  BY <1>10, ViewLogsKeeps
<1>11. ASSUME NEW node, changeNodeLogs(node) PROVE DetailsInv'
  BY <1>11, ChangeNodeKeeps
<1>12. ASSUME NEW tab \in {0, 1}, handleChange(tab) PROVE DetailsInv'
  BY <1>12, TabKeeps
<1>13. ASSUME NEW tab \in {0, 1}, LogsTab(tab) PROVE DetailsInv'
  BY <1>13, LogsTabKeeps
<1>14. ASSUME UNCHANGED detailsVars PROVE DetailsInv'
  BY <1>14 DEF detailsVars, DetailsInv, TypeKnown, OfRun, Sees, NothingOpen, GraphSelects, LogsSelected
<1> QED
  BY <1>1, <1>2, <1>3, <1>4, <1>5, <1>6, <1>7, <1>8, <1>9, <1>10, <1>11, <1>12, <1>13, <1>14
  DEF DetailsNext

\* The logs on the screen are asked for the node that is selected, in the store and in
\* the graph: for any runs and any nodes, however often the page is opened, whatever
\* the user selects and in whatever order answers and events come (LogsSwitcher,
\* ArgoWorkflow).
THEOREM DetailsLogsOfTheSelected == DetailsSpec => []LogsOfTheSelected
<1>1. DetailsInit => DetailsInv
  BY DetailsBegin
<1>2. DetailsInv /\ [DetailsNext]_detailsVars => DetailsInv'
  BY DetailsStep
<1>3. DetailsInv => LogsOfTheSelected
  <2> SUFFICES ASSUME DetailsInv
               PROVE  LogsOfTheSelected
    OBVIOUS
  <2>1. UserSees /\ selectedNode.tab = 0 => hooks.graph = selectedNode.pod
    BY OnScreen
  <2>2. hooks.logs # NoLogs => LogsSelected(hooks, selectedNode, cached[hooks.at])
    BY RunPageOpen DEF OfRun
  <2> QED
    BY <2>1, <2>2 DEF LogsOfTheSelected, LogsSelected
<1> QED
  BY <1>1, <1>2, <1>3, PTL DEF DetailsSpec

-----------------------------------------------------------------------------
(* The form of a schedule: what the store holds when it may be left is     *)
(* what it shows, and the server's scenario asks for one schedule.         *)
(* FormInv says what holds between the flushes: a cron value on display    *)
(* that no effect is about to derive again is the one of the choice, and a *)
(* choice no effect is about to store is stored.                           *)

ScheduleValues == {"now", "recurringSchedule"}
OpenForms == [value : ScheduleValues, def : Periods \cup {""}, minute : Nat, day : Nat,
              date : Nat, time : Nat, cron : Seq(Int),
              due : SUBSET {"cronValue", "choice"}]
Scheds    == [cron : Seq(Int), once : ScheduleValues, rec : Periods \cup {""},
              minute : Nat, day : Nat, date : Nat, time : Nat]

FormTypes == /\ form = Closed \/ form \in OpenForms
             /\ sched \in Scheds

\* What the pickers set is in the form and in the store.
FieldsStored == /\ sched.minute = form.minute /\ sched.time = form.time
                /\ sched.day = form.day /\ sched.date = form.date

\* The effect on [valueDef, value] has run since the last choice.
ChoiceStored == /\ sched.once = form.value /\ sched.rec = form.def
                /\ form.value = "now" => form.def = ""
                /\ form.def \in Periods => form.cron = DerivedCron(form)

CronStored == ~ (form.value = "recurringSchedule" /\ form.def = "")
                  => sched.cron = StoredCron(form)

FormInv == /\ FormTypes
           /\ IsOpen => /\ FieldsStored
                        /\ "choice" \notin form.due => ChoiceStored
                        /\ form.due = {} => CronStored

-----------------------------------------------------------------------------
(* Cron values.                                                            *)

\* The pickers change a field or two of a cron value and leave the others.
LEMMA ExceptFields ==
    ASSUME NEW a, NEW b, NEW c, NEW d, NEW e, NEW x, NEW y, NEW z
    PROVE  /\ [<<a, b, c, d, e>> EXCEPT ![1] = x, ![2] = y] = <<x, y, c, d, e>>
           /\ [<<a, b, c, d, e>> EXCEPT ![1] = x, ![2] = y, ![5] = z] = <<x, y, c, d, z>>
           /\ [<<a, b, c, d, e>> EXCEPT ![4] = x, ![5] = y] = <<a, b, c, x, y>>
           /\ [<<a, b, c, d, e>> EXCEPT ![3] = x] = <<a, b, x, d, e>>
OBVIOUS

LEMMA TimeFields ==
    ASSUME NEW t \in Nat
    PROVE  t % 60 \in Int /\ t \div 60 \in Int
OBVIOUS

LEMMA FiveFields ==
    ASSUME NEW a \in Int, NEW b \in Int, NEW c \in Int, NEW d \in Int, NEW e \in Int
    PROVE  <<a, b, c, d, e>> \in Seq(Int)
OBVIOUS

\* The value derived for a form is a cron value.
LEMMA DerivedType ==
    ASSUME NEW f \in OpenForms
    PROVE  DerivedCron(f) \in Seq(Int)
<1>1. f.minute \in Nat /\ f.day \in Nat /\ f.date \in Nat /\ f.time \in Nat
  BY DEF OpenForms
<1>2. f.time % 60 \in Int /\ f.time \div 60 \in Int
  BY <1>1, TimeFields
<1>3. f.minute \in Int /\ f.day \in Int /\ f.date \in Int
  BY <1>1
<1>4. Star \in Int /\ Blank \in Int /\ AllHours \in Int /\ AllDays \in Int
  BY DEF Star, Blank, AllHours, AllDays
<1>5. CASE f.def = "hour"
  <2>1. DerivedCron(f) = <<f.minute, AllHours, Star, Star, Star>>
    BY <1>5 DEF DerivedCron
  <2> QED BY <1>3, <1>4, <2>1, FiveFields
<1>6. CASE f.def = "day"
  <2>1. DerivedCron(f) = <<f.time % 60, f.time \div 60, Star, Star, AllDays>>
    BY <1>6 DEF DerivedCron
  <2> QED BY <1>2, <1>4, <2>1, FiveFields
<1>7. CASE f.def = "week"
  <2>1. DerivedCron(f) = <<f.time % 60, f.time \div 60, Star, Star, f.day>>
    BY <1>7 DEF DerivedCron
  <2> QED BY <1>2, <1>3, <1>4, <2>1, FiveFields
<1>8. CASE f.def = "month"
  <2>1. DerivedCron(f) = <<f.time % 60, f.time \div 60, f.date, Star, Star>>
    BY <1>8 DEF DerivedCron
  <2> QED BY <1>2, <1>3, <1>4, <2>1, FiveFields
<1>9. CASE f.def \notin Periods
  <2>1. DerivedCron(f) = Blanks
    BY <1>9 DEF DerivedCron, Periods
  <2> QED BY <1>4, <2>1, FiveFields DEF Blanks
<1> QED
  BY <1>5, <1>6, <1>7, <1>8, <1>9 DEF Periods

-----------------------------------------------------------------------------
(* The form by itself.                                                     *)

LEMMA IsOpenForm ==
    ASSUME NEW f \in OpenForms
    PROVE  f.value # "closed"
BY DEF OpenForms, ScheduleValues

LEMMA FreshType ==
    ASSUME NEW cron \in Seq(Int), NEW once \in ScheduleValues, NEW t \in Times, NEW d \in Dates
    PROVE  FreshSched(cron, once, t, d) \in Scheds
BY InputsAssumption DEF FreshSched, Scheds

LEMMA FormInitInv == FormInit => FormInv
<1> SUFFICES ASSUME FormInit PROVE FormInv
  OBVIOUS
<1>1. NoCron \in Seq(Int) /\ "now" \in ScheduleValues
  BY DEF NoCron, ScheduleValues
<1>2. sched \in Scheds
  BY <1>1, FreshType DEF FormInit
<1> QED
  BY <1>2 DEF FormInit, FormInv, FormTypes, IsOpen, Closed

LEMMA FormOpenInv == FormInv /\ Open => FormInv'
<1> SUFFICES ASSUME FormInv, Open PROVE FormInv'
  OBVIOUS
<1>1. Stars \in Seq(Int)
  BY DEF Stars, Star
<1>2. sched \in Scheds /\ sched' = sched /\ form' = Mounted(sched)
  BY DEF FormInv, FormTypes, Open
<1>3. form' \in OpenForms
  BY <1>1, <1>2 DEF Mounted, Scheds, OpenForms
<1>4. FieldsStored' /\ form'.due = {"cronValue", "choice"}
  BY <1>2 DEF Mounted, FieldsStored
<1> QED
  BY <1>2, <1>3, <1>4 DEF FormInv, FormTypes

LEMMA FlushInv == FormInv /\ Flush => FormInv'
<1> SUFFICES ASSUME FormInv, Flush PROVE FormInv'
  OBVIOUS
<1> DEFINE choice  == "choice" \in form.due
           newDef  == IF choice /\ form.value = "now" THEN "" ELSE form.def
           newCron == choice /\ SetsCron(form)
<1>1. form \in OpenForms /\ sched \in Scheds /\ IsOpen
  <2>1. form # Closed
    BY DEF Flush, Closed
  <2>2. form \in OpenForms /\ sched \in Scheds
    BY <2>1 DEF FormInv, FormTypes
  <2> QED BY <2>2, IsOpenForm DEF IsOpen
<1>2. DerivedCron(form) \in Seq(Int)
  BY <1>1, DerivedType
<1>3. StoredCron(form) \in Seq(Int)
  <2>1. form.cron \in Seq(Int)
    BY <1>1 DEF OpenForms
  <2>2. NoCron \in Seq(Int)
    BY DEF NoCron
  <2> QED BY <2>1, <2>2 DEF StoredCron
<1>4. /\ sched' = [sched EXCEPT
             !.cron = IF "cronValue" \in form.due THEN StoredCron(form) ELSE @,
             !.once = IF choice THEN form.value ELSE @,
             !.rec  = IF choice THEN form.def ELSE @]
      /\ form' = [form EXCEPT
             !.def  = newDef,
             !.cron = IF newCron THEN DerivedCron(form) ELSE @,
             !.due  = (IF newCron THEN {"cronValue"} ELSE {})
                      \cup (IF newDef # form.def THEN {"choice"} ELSE {})]
  BY DEF Flush
<1>5. FormTypes' /\ FieldsStored'
  BY <1>1, <1>2, <1>3, <1>4 DEF FormTypes, FormInv, FieldsStored, OpenForms, Scheds, Periods
<1>6. ASSUME "choice" \notin form'.due PROVE ChoiceStored'
  <2>1. newDef = form.def
    BY <1>1, <1>4, <1>6 DEF OpenForms
  <2>2. form'.def = form.def /\ form'.value = form.value
    BY <1>1, <1>4, <2>1 DEF OpenForms
  <2>3. DerivedCron(form') = DerivedCron(form)
    BY <1>1, <1>4, <2>2 DEF DerivedCron, OpenForms
  <2>4. CASE choice
    BY <1>1, <1>4, <2>1, <2>2, <2>3, <2>4
       DEF ChoiceStored, SetsCron, OpenForms, Scheds, ScheduleValues, Periods
  <2>5. CASE ~ choice
    BY <1>1, <1>4, <2>2, <2>3, <2>5 DEF ChoiceStored, FormInv, OpenForms, Scheds
  <2> QED BY <2>4, <2>5
<1>7. ASSUME form'.due = {} PROVE CronStored'
  <2>1. newDef = form.def /\ ~ newCron
    BY <1>1, <1>4, <1>7 DEF OpenForms
  <2>2. StoredCron(form') = StoredCron(form)
    BY <1>1, <1>4, <2>1 DEF StoredCron, OpenForms
  <2>3. CASE choice
    BY <1>1, <1>4, <2>1, <2>3 DEF CronStored, SetsCron, OpenForms, ScheduleValues, Periods
  <2>4. CASE ~ choice
    <3>1. "cronValue" \in form.due
      BY <1>1, <2>4 DEF Flush, OpenForms
    <3> QED BY <1>1, <1>4, <2>2, <3>1 DEF CronStored, Scheds
  <2> QED BY <2>3, <2>4
<1> QED
  BY <1>5, <1>6, <1>7 DEF FormInv

LEMMA ChoiceInv == FormInv /\ ClickChoice => FormInv'
<1> SUFFICES ASSUME FormInv, ClickChoice PROVE FormInv'
  OBVIOUS
<1>1. Settled
  BY DEF ClickChoice, Choose, ChoosePeriod
<1>2. form \in OpenForms /\ sched \in Scheds /\ FieldsStored
  BY <1>1 DEF FormInv, FormTypes, Settled, IsOpen, Closed
<1>3. /\ \/ \E v \in ScheduleValues : form' = [form EXCEPT !.value = v, !.due = {"choice"}]
         \/ \E p \in Periods : form' = [form EXCEPT !.def = p, !.due = {"choice"}]
      /\ sched' = sched
  BY DEF ClickChoice, Choose, ChoosePeriod, ScheduleValues
<1>4. form' \in OpenForms /\ FieldsStored' /\ form'.due = {"choice"}
  BY <1>2, <1>3 DEF OpenForms, FieldsStored
<1> QED
  BY <1>2, <1>3, <1>4 DEF FormInv, FormTypes

-----------------------------------------------------------------------------
(* A picker that is shown changes a form whose effects have run.           *)

LEMMA ShownForm ==
    ASSUME NEW p \in Periods, FormInv, Shows(p)
    PROVE  /\ form \in OpenForms /\ sched \in Scheds /\ FieldsStored
           /\ form.value = "recurringSchedule" /\ form.def = p
           /\ sched.once = form.value /\ sched.rec = form.def
           /\ form.cron = DerivedCron(form)
BY DEF FormInv, FormTypes, Shows, Settled, IsOpen, Closed, ChoiceStored

\* After it only the effect on [cronValue] is due, and the new cron value is
\* the one of the choice.
LEMMA PickedInv ==
    ASSUME FormInv, NEW p \in Periods, Shows(p),
           form' \in OpenForms, sched' \in Scheds, FieldsStored',
           form'.value = form.value, form'.def = form.def,
           sched'.once = sched.once, sched'.rec = sched.rec,
           form'.due = {"cronValue"}, form'.cron = DerivedCron(form')
    PROVE  FormInv'
<1>1. form.value = "recurringSchedule" /\ sched.once = form.value /\ sched.rec = form.def
  BY ShownForm
<1>2. ChoiceStored'
  BY <1>1 DEF ChoiceStored
<1> QED
  BY <1>2 DEF FormInv, FormTypes

LEMMA PickMinuteInv ==
    ASSUME FormInv, NEW m \in Minutes, PickMinute(m)
    PROVE  FormInv'
<1>1. Shows("hour")
  BY DEF PickMinute
<1>2. /\ form \in OpenForms /\ sched \in Scheds /\ FieldsStored
      /\ form.def = "hour" /\ form.cron = DerivedCron(form)
  BY <1>1, ShownForm DEF Periods
<1>3. m \in Nat
  BY InputsAssumption
<1>4. /\ sched' = [sched EXCEPT !.minute = m]
      /\ form' = [form EXCEPT !.minute = m, !.due = {"cronValue"},
                              !.cron = [@ EXCEPT ![1] = m, ![2] = AllHours]]
  BY DEF PickMinute
<1>5. form.cron = <<form.minute, AllHours, Star, Star, Star>>
  BY <1>2 DEF DerivedCron
<1>6. [form.cron EXCEPT ![1] = m, ![2] = AllHours] = <<m, AllHours, Star, Star, Star>>
  BY <1>5, ExceptFields
<1>7. /\ form'.def = form.def /\ form'.value = form.value /\ form'.minute = m
      /\ form'.due = {"cronValue"} /\ form'.cron = <<m, AllHours, Star, Star, Star>>
  BY <1>2, <1>4, <1>6 DEF OpenForms
<1>8. form'.cron = DerivedCron(form')
  BY <1>2, <1>7 DEF DerivedCron
<1>9. <<m, AllHours, Star, Star, Star>> \in Seq(Int)
  BY <1>3, FiveFields DEF AllHours, Star
<1>10. form' \in OpenForms
  BY <1>2, <1>3, <1>4, <1>6, <1>9 DEF OpenForms
<1>11. /\ sched' \in Scheds /\ FieldsStored'
       /\ sched'.once = sched.once /\ sched'.rec = sched.rec
  BY <1>2, <1>3, <1>4 DEF Scheds, OpenForms, FieldsStored
<1> QED
  BY <1>1, <1>7, <1>8, <1>10, <1>11, PickedInv DEF Periods

LEMMA PickTimeOfDayInv ==
    ASSUME FormInv, NEW t \in Times, PickTimeOfDay(t)
    PROVE  FormInv'
<1>1. Shows("day")
  BY DEF PickTimeOfDay
<1>2. /\ form \in OpenForms /\ sched \in Scheds /\ FieldsStored
      /\ form.def = "day" /\ form.cron = DerivedCron(form)
  BY <1>1, ShownForm DEF Periods
<1>3. t \in Nat
  BY InputsAssumption
<1>4. /\ sched' = [sched EXCEPT !.time = t]
      /\ form' = [form EXCEPT !.time = t, !.due = {"cronValue"},
                              !.cron = [@ EXCEPT ![1] = t % 60, ![2] = t \div 60, ![5] = AllDays]]
  BY DEF PickTimeOfDay
<1>5. form.cron = <<form.time % 60, form.time \div 60, Star, Star, AllDays>>
  BY <1>2 DEF DerivedCron
<1>6. [form.cron EXCEPT ![1] = t % 60, ![2] = t \div 60, ![5] = AllDays] = <<t % 60, t \div 60, Star, Star, AllDays>>
  BY <1>5, ExceptFields
<1>7. /\ form'.def = form.def /\ form'.value = form.value /\ form'.time = t
      /\ form'.day = form.day /\ form'.date = form.date
      /\ form'.due = {"cronValue"}
      /\ form'.cron = <<t % 60, t \div 60, Star, Star, AllDays>>
  BY <1>2, <1>4, <1>6 DEF OpenForms
<1>8. form'.cron = DerivedCron(form')
  BY <1>2, <1>7 DEF DerivedCron
<1>9. form' \in OpenForms
  <2>1. form' = [form EXCEPT !.time = t, !.due = {"cronValue"}, !.cron = <<t % 60, t \div 60, Star, Star, AllDays>>]
    BY <1>4, <1>6
  <2>2. <<t % 60, t \div 60, Star, Star, AllDays>> \in Seq(Int)
    <3>1. t % 60 \in Int /\ t \div 60 \in Int
      BY <1>2, <1>3, TimeFields DEF OpenForms
    <3> QED BY <3>1, FiveFields DEF Star, AllHours, AllDays
  <2> QED BY <1>2, <1>3, <2>1, <2>2 DEF OpenForms
<1>10. /\ sched' \in Scheds /\ FieldsStored'
       /\ sched'.once = sched.once /\ sched'.rec = sched.rec
  BY <1>2, <1>3, <1>4 DEF Scheds, OpenForms, FieldsStored
<1> QED
  BY <1>1, <1>7, <1>8, <1>9, <1>10, PickedInv DEF Periods

LEMMA PickTimeInWeekInv ==
    ASSUME FormInv, NEW t \in Times, PickTime(t), Shows("week")
    PROVE  FormInv'
<1>1. Shows("week")
  BY DEF PickTime
<1>2. /\ form \in OpenForms /\ sched \in Scheds /\ FieldsStored
      /\ form.def = "week" /\ form.cron = DerivedCron(form)
  BY <1>1, ShownForm DEF Periods
<1>3. t \in Nat
  BY InputsAssumption
<1>4. /\ sched' = [sched EXCEPT !.time = t]
      /\ form' = [form EXCEPT !.time = t, !.due = {"cronValue"},
                              !.cron = [@ EXCEPT ![1] = t % 60, ![2] = t \div 60]]
  BY DEF PickTime
<1>5. form.cron = <<form.time % 60, form.time \div 60, Star, Star, form.day>>
  BY <1>2 DEF DerivedCron
<1>6. [form.cron EXCEPT ![1] = t % 60, ![2] = t \div 60] = <<t % 60, t \div 60, Star, Star, form.day>>
  BY <1>5, ExceptFields
<1>7. /\ form'.def = form.def /\ form'.value = form.value /\ form'.time = t
      /\ form'.day = form.day /\ form'.date = form.date
      /\ form'.due = {"cronValue"}
      /\ form'.cron = <<t % 60, t \div 60, Star, Star, form.day>>
  BY <1>2, <1>4, <1>6 DEF OpenForms
<1>8. form'.cron = DerivedCron(form')
  BY <1>2, <1>7 DEF DerivedCron
<1>9. form' \in OpenForms
  <2>1. form' = [form EXCEPT !.time = t, !.due = {"cronValue"}, !.cron = <<t % 60, t \div 60, Star, Star, form.day>>]
    BY <1>4, <1>6
  <2>2. <<t % 60, t \div 60, Star, Star, form.day>> \in Seq(Int)
    <3>1. t % 60 \in Int /\ t \div 60 \in Int /\ form.day \in Nat
      BY <1>2, <1>3, TimeFields DEF OpenForms
    <3> QED BY <3>1, FiveFields DEF Star, AllHours, AllDays
  <2> QED BY <1>2, <1>3, <2>1, <2>2 DEF OpenForms
<1>10. /\ sched' \in Scheds /\ FieldsStored'
       /\ sched'.once = sched.once /\ sched'.rec = sched.rec
  BY <1>2, <1>3, <1>4 DEF Scheds, OpenForms, FieldsStored
<1> QED
  BY <1>1, <1>7, <1>8, <1>9, <1>10, PickedInv DEF Periods

LEMMA PickTimeInMonthInv ==
    ASSUME FormInv, NEW t \in Times, PickTime(t), Shows("month")
    PROVE  FormInv'
<1>1. Shows("month")
  BY DEF PickTime
<1>2. /\ form \in OpenForms /\ sched \in Scheds /\ FieldsStored
      /\ form.def = "month" /\ form.cron = DerivedCron(form)
  BY <1>1, ShownForm DEF Periods
<1>3. t \in Nat
  BY InputsAssumption
<1>4. /\ sched' = [sched EXCEPT !.time = t]
      /\ form' = [form EXCEPT !.time = t, !.due = {"cronValue"},
                              !.cron = [@ EXCEPT ![1] = t % 60, ![2] = t \div 60]]
  BY DEF PickTime
<1>5. form.cron = <<form.time % 60, form.time \div 60, form.date, Star, Star>>
  BY <1>2 DEF DerivedCron
<1>6. [form.cron EXCEPT ![1] = t % 60, ![2] = t \div 60] = <<t % 60, t \div 60, form.date, Star, Star>>
  BY <1>5, ExceptFields
<1>7. /\ form'.def = form.def /\ form'.value = form.value /\ form'.time = t
      /\ form'.day = form.day /\ form'.date = form.date
      /\ form'.due = {"cronValue"}
      /\ form'.cron = <<t % 60, t \div 60, form.date, Star, Star>>
  BY <1>2, <1>4, <1>6 DEF OpenForms
<1>8. form'.cron = DerivedCron(form')
  BY <1>2, <1>7 DEF DerivedCron
<1>9. form' \in OpenForms
  <2>1. form' = [form EXCEPT !.time = t, !.due = {"cronValue"}, !.cron = <<t % 60, t \div 60, form.date, Star, Star>>]
    BY <1>4, <1>6
  <2>2. <<t % 60, t \div 60, form.date, Star, Star>> \in Seq(Int)
    <3>1. t % 60 \in Int /\ t \div 60 \in Int /\ form.date \in Nat
      BY <1>2, <1>3, TimeFields DEF OpenForms
    <3> QED BY <3>1, FiveFields DEF Star, AllHours, AllDays
  <2> QED BY <1>2, <1>3, <2>1, <2>2 DEF OpenForms
<1>10. /\ sched' \in Scheds /\ FieldsStored'
       /\ sched'.once = sched.once /\ sched'.rec = sched.rec
  BY <1>2, <1>3, <1>4 DEF Scheds, OpenForms, FieldsStored
<1> QED
  BY <1>1, <1>7, <1>8, <1>9, <1>10, PickedInv DEF Periods

LEMMA PickDayInv ==
    ASSUME FormInv, NEW d \in Days, PickDay(d)
    PROVE  FormInv'
<1>1. Shows("week")
  BY DEF PickDay
<1>2. /\ form \in OpenForms /\ sched \in Scheds /\ FieldsStored
      /\ form.def = "week" /\ form.cron = DerivedCron(form)
  BY <1>1, ShownForm DEF Periods
<1>3. d \in Nat
  BY InputsAssumption
<1>4. /\ sched' = [sched EXCEPT !.day = d]
      /\ form' = [form EXCEPT !.day = d, !.due = {"cronValue"},
                              !.cron = [@ EXCEPT ![4] = Star, ![5] = d]]
  BY DEF PickDay
<1>5. form.cron = <<form.time % 60, form.time \div 60, Star, Star, form.day>>
  BY <1>2 DEF DerivedCron
<1>6. [form.cron EXCEPT ![4] = Star, ![5] = d] = <<form.time % 60, form.time \div 60, Star, Star, d>>
  BY <1>5, ExceptFields
<1>7. /\ form'.def = form.def /\ form'.value = form.value /\ form'.day = d
      /\ form'.time = form.time
      /\ form'.due = {"cronValue"}
      /\ form'.cron = <<form.time % 60, form.time \div 60, Star, Star, d>>
  BY <1>2, <1>4, <1>6 DEF OpenForms
<1>8. form'.cron = DerivedCron(form')
  BY <1>2, <1>7 DEF DerivedCron
<1>9. form' \in OpenForms
  <2>1. form' = [form EXCEPT !.day = d, !.due = {"cronValue"}, !.cron = <<form.time % 60, form.time \div 60, Star, Star, d>>]
    BY <1>4, <1>6
  <2>2. <<form.time % 60, form.time \div 60, Star, Star, d>> \in Seq(Int)
    <3>1. form.time % 60 \in Int /\ form.time \div 60 \in Int
      BY <1>2, TimeFields DEF OpenForms
    <3>2. d \in Int
      BY <1>3
    <3> QED BY <3>1, <3>2, FiveFields DEF Star, AllHours, AllDays
  <2> QED BY <1>2, <1>3, <2>1, <2>2 DEF OpenForms
<1>10. /\ sched' \in Scheds /\ FieldsStored'
       /\ sched'.once = sched.once /\ sched'.rec = sched.rec
  BY <1>2, <1>3, <1>4 DEF Scheds, OpenForms, FieldsStored
<1> QED
  BY <1>1, <1>7, <1>8, <1>9, <1>10, PickedInv DEF Periods

LEMMA PickDateInv ==
    ASSUME FormInv, NEW d \in Dates, PickDate(d)
    PROVE  FormInv'
<1>1. Shows("month")
  BY DEF PickDate
<1>2. /\ form \in OpenForms /\ sched \in Scheds /\ FieldsStored
      /\ form.def = "month" /\ form.cron = DerivedCron(form)
  BY <1>1, ShownForm DEF Periods
<1>3. d \in Nat
  BY InputsAssumption
<1>4. /\ sched' = [sched EXCEPT !.date = d]
      /\ form' = [form EXCEPT !.date = d, !.due = {"cronValue"},
                              !.cron = [@ EXCEPT ![3] = d]]
  BY DEF PickDate
<1>5. form.cron = <<form.time % 60, form.time \div 60, form.date, Star, Star>>
  BY <1>2 DEF DerivedCron
<1>6. [form.cron EXCEPT ![3] = d] = <<form.time % 60, form.time \div 60, d, Star, Star>>
  BY <1>5, ExceptFields
<1>7. /\ form'.def = form.def /\ form'.value = form.value /\ form'.date = d
      /\ form'.time = form.time
      /\ form'.due = {"cronValue"}
      /\ form'.cron = <<form.time % 60, form.time \div 60, d, Star, Star>>
  BY <1>2, <1>4, <1>6 DEF OpenForms
<1>8. form'.cron = DerivedCron(form')
  BY <1>2, <1>7 DEF DerivedCron
<1>9. form' \in OpenForms
  <2>1. form' = [form EXCEPT !.date = d, !.due = {"cronValue"}, !.cron = <<form.time % 60, form.time \div 60, d, Star, Star>>]
    BY <1>4, <1>6
  <2>2. <<form.time % 60, form.time \div 60, d, Star, Star>> \in Seq(Int)
    <3>1. form.time % 60 \in Int /\ form.time \div 60 \in Int
      BY <1>2, TimeFields DEF OpenForms
    <3>2. d \in Int
      BY <1>3
    <3> QED BY <3>1, <3>2, FiveFields DEF Star, AllHours, AllDays
  <2> QED BY <1>2, <1>3, <2>1, <2>2 DEF OpenForms
<1>10. /\ sched' \in Scheds /\ FieldsStored'
       /\ sched'.once = sched.once /\ sched'.rec = sched.rec
  BY <1>2, <1>3, <1>4 DEF Scheds, OpenForms, FieldsStored
<1> QED
  BY <1>1, <1>7, <1>8, <1>9, <1>10, PickedInv DEF Periods

\* A choice that may be left has reached the store.
LEMMA FormShowsStored == FormInv => StoresWhatItShows
<1> SUFFICES ASSUME FormInv, Complete
             PROVE  /\ sched.cron = CronOf(form) /\ FieldsStored
                    /\ sched.once = form.value /\ sched.rec = form.def
  BY DEF StoresWhatItShows, FieldsStored
<1>1. form \in OpenForms /\ FieldsStored /\ ChoiceStored /\ sched.cron = StoredCron(form)
  <2>1. IsOpen /\ form.due = {} /\ "choice" \notin form.due
    BY DEF Complete, Settled
  <2>2. form \in OpenForms
    BY <2>1 DEF FormInv, FormTypes, IsOpen, Closed
  <2> QED BY <2>1, <2>2 DEF FormInv, Complete, CronStored
<1>2. CASE form.value = "now"
  BY <1>1, <1>2 DEF ChoiceStored, CronOf, StoredCron
<1>3. CASE form.value # "now"
  <2>1. form.value = "recurringSchedule" /\ form.def \in Periods
    BY <1>1, <1>3 DEF OpenForms, ScheduleValues, Complete
  <2>2. sched.cron = DerivedCron(form)
    BY <1>1, <1>3, <2>1 DEF ChoiceStored, StoredCron
  <2>3. DerivedCron(form) = CronOf(form)
    BY <2>1 DEF DerivedCron, CronOf, Periods
  <2> QED BY <1>1, <2>2, <2>3 DEF ChoiceStored
<1> QED
  BY <1>2, <1>3

LEMMA ClickTimeInv == FormInv /\ ClickTime => FormInv'
BY PickMinuteInv, PickTimeOfDayInv DEF ClickTime

LEMMA ClickDayInv == FormInv /\ ClickDay => FormInv'
<1> SUFFICES ASSUME FormInv, ClickDay PROVE FormInv'
  OBVIOUS
<1>1. CASE \E t \in Times : PickTime(t)
  BY <1>1, PickTimeInWeekInv, PickTimeInMonthInv DEF PickTime
<1>2. CASE \E d \in Days : PickDay(d)
  BY <1>2, PickDayInv
<1>3. CASE \E d \in Dates : PickDate(d)
  BY <1>3, PickDateInv
<1> QED
  BY <1>1, <1>2, <1>3 DEF ClickDay

LEMMA ClosedInv ==
    ASSUME FormInv, form' = Closed, sched' \in Scheds
    PROVE  FormInv'
BY DEF FormInv, FormTypes, IsOpen, Closed

\* The store holds what the form shows whenever the form may be left, for any
\* inputs and any sequence of clicks (the two effects of ScheduleWorkflow).
THEOREM FormStores == FormSpec => []StoresWhatItShows
<1>1. FormInv /\ [FormNext]_formVars => FormInv'
  <2> SUFFICES ASSUME FormInv, [FormNext]_formVars PROVE FormInv'
    OBVIOUS
  <2>1. CASE Close
    BY <2>1, ClosedInv DEF Close, FormInv, FormTypes
  <2>2. CASE Click
    BY <2>2, ChoiceInv, ClickTimeInv, ClickDayInv DEF Click
  <2>3. CASE UNCHANGED formVars
    BY <2>3 DEF formVars, FormInv, FormTypes, IsOpen, FieldsStored, ChoiceStored, CronStored
  <2> QED
    BY <2>1, <2>2, <2>3, FormOpenInv, FlushInv DEF FormNext
<1> QED
  BY <1>1, FormInitInv, FormShowsStored, PTL DEF FormSpec

-----------------------------------------------------------------------------
(* The page around the form.                                               *)

KindOf(cron) == IF cron = NoCron THEN "Workflow" ELSE "CronWorkflow"

\* A scenario, or a request to store one, that asks for one schedule.
Agreeing == {r \in [manifest : [kind : {"Workflow", "CronWorkflow"}, cron : Seq(Int)],
                    cronSyntax : Seq(Int)] :
                /\ r.manifest.cron = r.cronSyntax
                /\ r.manifest.kind = KindOf(r.cronSyntax)}

\* What the summary would save agrees; while the form is open only the
\* manifest is known to ask for one thing, for the effects change the rest.
PageInv ==
    /\ FormInv
    /\ stored \in Agreeing /\ saves \subseteq Agreeing
    /\ view = "form" <=> IsOpen
    /\ view \in {"summary", "form"} =>
         [manifest |-> manifest, cronSyntax |-> manifest.cron] \in Agreeing
    /\ view = "summary" => manifest.cron = sched.cron

LEMMA ScenarioAgrees ==
    ASSUME NEW cron \in Seq(Int)
    PROVE  Scenario(cron) \in Agreeing
BY DEF Scenario, Agreeing, KindOf

LEMMA PageInit == ScheduleInit => PageInv
<1> SUFFICES ASSUME ScheduleInit PROVE PageInv
  OBVIOUS
<1>1. NoCron \in Seq(Int) /\ "now" \in ScheduleValues
  BY DEF NoCron, ScheduleValues
<1>2. FirstCron \in Seq(Int)
  BY FiveFields DEF FirstCron, Star
<1>3. FormInv
  BY <1>1, FreshType DEF ScheduleInit, FormInv, FormTypes, IsOpen, Closed
<1>4. stored \in Agreeing
  BY <1>1, <1>2, ScenarioAgrees DEF ScheduleInit
<1> QED
  BY <1>3, <1>4 DEF PageInv, ScheduleInit, IsOpen, Closed

\* Where the form is not shown it is closed.
LEMMA NotShown == PageInv /\ view # "form" => form = Closed /\ sched \in Scheds
BY IsOpenForm DEF PageInv, FormInv, FormTypes, IsOpen

LEMMA AnswerInv == PageInv /\ DetailsAnswer => PageInv'
<1> SUFFICES ASSUME PageInv, DetailsAnswer PROVE PageInv'
  OBVIOUS
<1>1. form = Closed /\ form' = form /\ view' = "summary"
  BY NotShown DEF DetailsAnswer
<1>2. stored.cronSyntax \in Seq(Int) /\ stored \in Agreeing
  BY DEF PageInv, Agreeing
<1>3. PICK t \in Times, d \in Dates :
        sched' = FreshSched(stored.cronSyntax,
                   IF stored.cronSyntax = NoCron THEN "now" ELSE "recurringSchedule", t, d)
  BY DEF DetailsAnswer
<1>4. sched' \in Scheds /\ sched'.cron = stored.cronSyntax
  BY <1>2, <1>3, FreshType DEF ScheduleValues, FreshSched
<1>5. FormInv'
  BY <1>1, <1>4 DEF FormInv, FormTypes, IsOpen, Closed
<1>6. manifest' = stored.manifest /\ stored' = stored /\ saves' = saves
  BY DEF DetailsAnswer
<1>7. [manifest |-> manifest', cronSyntax |-> manifest'.cron] \in Agreeing
  BY <1>2, <1>6 DEF Agreeing
<1> QED
  BY <1>1, <1>2, <1>4, <1>5, <1>6, <1>7 DEF PageInv, IsOpen, Closed, Agreeing

LEMMA EditFormInv == PageInv /\ EditForm => PageInv'
<1> SUFFICES ASSUME PageInv, EditForm PROVE PageInv'
  OBVIOUS
<1>1. FormInv'
  BY FormOpenInv DEF PageInv, EditForm, MountForm
<1>2. form'.value # "closed"
  <2>1. sched.once \in ScheduleValues
    BY DEF PageInv, FormInv, FormTypes, Scheds
  <2> QED BY <2>1 DEF EditForm, MountForm, Open, Mounted, ScheduleValues
<1> QED
  BY <1>1, <1>2 DEF PageInv, EditForm, MountForm, IsOpen

\* A flush or a click leaves the form open.
LEMMA InFormInv ==
    ASSUME PageInv, Flush \/ Click, UNCHANGED <<stored, saves, manifest, view>>
    PROVE  PageInv'
<1>1. FormInv'
  BY FlushInv, ChoiceInv, ClickTimeInv, ClickDayInv DEF PageInv, Click
<1>2. form \in OpenForms
  <2>1. CASE Flush
    BY <2>1 DEF PageInv, FormInv, FormTypes, Flush, Closed
  <2>2. CASE Click
    <3>1. ASSUME ClickChoice PROVE IsOpen
      BY <3>1 DEF ClickChoice, Choose, ChoosePeriod, Shows, Settled
    <3>2. ASSUME ClickTime PROVE IsOpen
      BY <3>2 DEF ClickTime, PickMinute, PickTimeOfDay, Shows, Settled
    <3>3. ASSUME ClickDay PROVE IsOpen
      BY <3>3 DEF ClickDay, PickTime, PickDay, PickDate, Shows, Settled
    <3>4. IsOpen
      BY <2>2, <3>1, <3>2, <3>3 DEF Click
    <3> QED BY <3>4 DEF PageInv, FormInv, FormTypes, IsOpen, Closed
  <2> QED BY <2>1, <2>2
<1>3. form' # Closed
  BY <1>2 DEF OpenForms, Closed, Flush, Click, ClickChoice, ClickTime, ClickDay,
         Choose, ChoosePeriod, PickMinute, PickTimeOfDay, PickTime, PickDay, PickDate
<1>4. IsOpen /\ IsOpen'
  BY <1>1, <1>2, <1>3, IsOpenForm DEF FormInv, FormTypes, IsOpen
<1> QED
  BY <1>1, <1>4 DEF PageInv

\* What Verify writes into the manifest asks for what the store holds.
LEMMA VerifyInv == PageInv /\ Verify => PageInv'
<1> SUFFICES ASSUME PageInv, Verify PROVE PageInv'
  OBVIOUS
<1>1. /\ form' = Closed /\ view' = "summary" /\ view = "form"
      /\ sched' = sched /\ stored' = stored /\ saves' = saves
      /\ manifest' = EditYaml(manifest)
  BY DEF Verify
<1>2. FormInv'
  BY <1>1, ClosedInv DEF PageInv, FormInv, FormTypes
<1>3. form \in OpenForms /\ Complete
  <2>1. IsOpen /\ Complete
    BY DEF Verify, Complete, Settled
  <2> QED BY <2>1 DEF PageInv, FormInv, FormTypes, IsOpen, Closed
<1>4. sched.cron = CronOf(form) /\ sched.once = form.value
  BY <1>3, FormShowsStored DEF PageInv, StoresWhatItShows
<1>5. sched.cron = NoCron <=> sched.once = "now"
  <2>1. CASE form.value = "now"
    BY <1>4, <2>1 DEF CronOf
  <2>2. CASE form.value # "now"
    <3>1. form.def \in Periods
      BY <1>3, <2>2 DEF Complete, OpenForms, ScheduleValues
    <3>2. \A a, b, c, d, e : <<a, b, c, d, e>> # <<>>
      OBVIOUS
    <3> QED BY <1>4, <2>2, <3>1, <3>2 DEF CronOf, Periods, NoCron
  <2> QED BY <2>1, <2>2
<1>6. /\ manifest \in [kind : {"Workflow", "CronWorkflow"}, cron : Seq(Int)]
      /\ manifest.kind = KindOf(manifest.cron)
  BY <1>1 DEF PageInv, Agreeing
<1>7. sched.cron \in Seq(Int)
  BY DEF PageInv, FormInv, FormTypes, Scheds
<1>8. /\ manifest' \in [kind : {"Workflow", "CronWorkflow"}, cron : Seq(Int)]
      /\ manifest'.cron = sched.cron /\ manifest'.kind = KindOf(sched.cron)
  BY <1>1, <1>5, <1>6, <1>7 DEF EditYaml, KindOf
<1> QED
  BY <1>1, <1>2, <1>7, <1>8 DEF PageInv, Agreeing, IsOpen, Closed

LEMMA LeaveInv == PageInv /\ Leave => PageInv'
<1> SUFFICES ASSUME PageInv, Leave PROVE PageInv'
  OBVIOUS
<1>1. FormInv'
  BY ClosedInv DEF PageInv, Leave, FormInv, FormTypes
<1> QED
  BY <1>1 DEF PageInv, Leave, IsOpen, Closed

\* The saves and their answers leave the form and the store alone.
LEMMA SavesInv ==
    ASSUME PageInv,
           \/ OpenPage \/ Save
           \/ \E r \in saves : SaveAnswer(r) \/ SaveFails(r)
           \/ UNCHANGED scheduleVars
    PROVE  PageInv'
<1>1. form' = form /\ sched' = sched
  BY DEF OpenPage, Save, SaveAnswer, SaveFails, scheduleVars
<1>2. FormInv'
  BY <1>1 DEF PageInv, FormInv, FormTypes, IsOpen, FieldsStored, ChoiceStored, CronStored
<1>3. IsOpen' <=> IsOpen
  BY <1>1 DEF IsOpen
<1>4. CASE OpenPage
  BY <1>1, <1>2, <1>3, <1>4 DEF PageInv, OpenPage
<1>5. CASE Save
  BY <1>1, <1>2, <1>3, <1>5 DEF PageInv, Save
<1>6. ASSUME NEW r \in saves, SaveAnswer(r) \/ SaveFails(r) PROVE PageInv'
  BY <1>1, <1>2, <1>3, <1>6 DEF PageInv, SaveAnswer, SaveFails
<1>7. CASE UNCHANGED scheduleVars
  BY <1>1, <1>2, <1>3, <1>7 DEF PageInv, scheduleVars
<1> QED
  BY <1>4, <1>5, <1>6, <1>7

LEMMA PageStep == PageInv /\ [ScheduleNext]_scheduleVars => PageInv'
<1> SUFFICES ASSUME PageInv, [ScheduleNext]_scheduleVars PROVE PageInv'
  OBVIOUS
<1>1. CASE FlushForm \/ ChoiceForm \/ TimeForm \/ DayForm
  BY <1>1, InFormInv DEF FlushForm, ChoiceForm, TimeForm, DayForm, Click
<1> QED
  BY <1>1, AnswerInv, EditFormInv, VerifyInv, LeaveInv, SavesInv DEF ScheduleNext

\* On the page that edits a schedule, the store holds what the form shows
\* whenever the form may be left, although answers come meanwhile.
THEOREM PageStores == ScheduleSpec => []StoresWhatItShows
<1>1. PageInv => StoresWhatItShows
  BY FormShowsStored DEF PageInv
<1> QED
  BY <1>1, PageInit, PageStep, PTL DEF ScheduleSpec

\* The server never stores a scenario whose manifest and cron syntax ask for
\* different schedules, for any number of saves under way (handleMutation,
\* EditYaml and the effects of the form).
THEOREM StoredAgrees == ScheduleSpec => []StoredScheduleAgrees
<1>1. PageInv => StoredScheduleAgrees
  BY DEF PageInv, Agreeing, StoredScheduleAgrees, Scenario, KindOf
<1> QED
  BY <1>1, PageInit, PageStep, PTL DEF ScheduleSpec
=============================================================================
