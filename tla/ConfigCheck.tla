------------------------------- MODULE ConfigCheck -------------------------------
(***************************************************************************)
(* What LoadConfig (src/config.go) accepts, and what it makes of it.       *)
(*                                                                         *)
(* A document is what the YAML parser finds in the file: a record of the   *)
(* Config's fields, numbers 0 when they are missing, or Unparsable.  Of    *)
(* the strings only what the checks ask is kept: a schedule is "" (none),  *)
(* "on-demand", "cron" or "bad", the zone "" or "known" or "unknown", the  *)
(* working directory "" or "exists" or "missing".  Fields that no check    *)
(* reads are left out.                                                     *)
(***************************************************************************)
EXTENDS Integers, Sequences, FiniteSets, SequencesExt

CONSTANTS Unparsable,  \* the document of a file that is not YAML
          Unset        \* a *int that is nil, a depends_on that is ""

(* What the parser makes of a file: the Config's fields, and lists.        *)
IsList(s) == s \in Seq(ToSet(s))

IsDocument(doc) ==
  /\ {"workerSlots", "maxRetries", "retryDelay", "timeout"} \subseteq DOMAIN doc
  /\ IsList(doc.workflows) /\ IsList(doc.standalone)
  /\ \A wf \in ToSet(doc.workflows) : IsList(wf.tasks)

maxRetriesLimit == 10

OrDefault(n, default) == IF n = 0 THEN default ELSE n

WithDefaults(doc) ==
  [doc EXCEPT !.workerSlots = OrDefault(@, 5),
              !.maxRetries = OrDefault(@, 2),
              !.retryDelay = OrDefault(@, 30),
              !.timeout = OrDefault(@, 10)]

(* GetMaxRetries and its like: the task's own value, or the global one.    *)
Override(own, global) == IF own = Unset THEN global ELSE own

Ids(tasks) == [i \in DOMAIN tasks |-> tasks[i].id]

(* Where a workflow task stands: its workflow, and its place in that.      *)
FlowPlaces(doc) == UNION {{w} \X DOMAIN doc.workflows[w].tasks : w \in DOMAIN doc.workflows}

FlowTask(doc, p) == doc.workflows[p[1]].tasks[p[2]]

-----------------------------------------------------------------------------
(* checkDAGCycles: Kahn's algorithm, one round of its loop after another.  *)
(* Which of the tasks in the queue comes first makes no difference to how  *)
(* many are visited, so the queue is a set.                                *)
Dependents(tasks, parent) ==
  {t.id : t \in {u \in ToSet(tasks) : u.dependsOn # Unset /\ u.dependsOn = parent}}

KahnInit(tasks) ==
  LET inDegree == [id \in ToSet(Ids(tasks)) |->
                     Cardinality({t \in ToSet(tasks) : t.id = id /\ t.dependsOn # Unset})]
  IN  [inDegree |-> inDegree,
       queue |-> {id \in DOMAIN inDegree : inDegree[id] = 0},
       visited |-> 0]

Visit(tasks, s, node) ==
  LET children == Dependents(tasks, node)
      degree == [id \in DOMAIN s.inDegree |->
                   s.inDegree[id] - IF id \in children THEN 1 ELSE 0]
  IN  [inDegree |-> degree,
       queue |-> (s.queue \ {node}) \cup {id \in children : degree[id] = 0},
       visited |-> s.visited + 1]

KahnRound(tasks, s) ==
  IF s.queue = {} THEN s ELSE Visit(tasks, s, CHOOSE node \in s.queue : TRUE)

(* No task is visited twice, so these are rounds enough.                   *)
Kahn(tasks) ==
  LET after[n \in Nat] == IF n = 0 THEN KahnInit(tasks) ELSE KahnRound(tasks, after[n - 1])
  IN  after[Len(tasks)]

(* Slip: only a workflow in which no task can go first has a cycle.        *)
HasARoot(tasks) == KahnInit(tasks).queue # {} \/ tasks = <<>>

HasNoCycle(tasks) == Kahn(tasks).visited = Cardinality(ToSet(Ids(tasks)))

-----------------------------------------------------------------------------
(* validateConfig.                                                         *)
ScheduleIsValid(schedule) == schedule \in {"", "on-demand", "cron"}

LimitsHold(t) == t.timeout # 0 /\ (t.maxRetries # Unset => t.maxRetries <= maxRetriesLimit)

WorkflowIsValid(wf) ==
  /\ ScheduleIsValid(wf.schedule)
  /\ \A t \in ToSet(wf.tasks) :
       /\ t.schedule = ""
       /\ LimitsHold(t)
       /\ t.dependsOn # Unset => t.dependsOn # t.id /\ t.dependsOn \in ToSet(Ids(wf.tasks))
  /\ HasNoCycle(wf.tasks)

(* allIDs and standaloneIDs: no id is seen twice.                          *)
IdsDiffer(doc) ==
  LET alone == Ids(doc.standalone) IN
  /\ \A p, q \in FlowPlaces(doc) : FlowTask(doc, p).id = FlowTask(doc, q).id => p = q
  /\ \A p \in FlowPlaces(doc) : FlowTask(doc, p).id \notin ToSet(alone)
  /\ IsInjective(alone)

validateConfig(doc) ==
  /\ doc.workingDir # "missing"
  /\ IdsDiffer(doc)
  /\ \A wf \in ToSet(doc.workflows) : WorkflowIsValid(wf)
  /\ \A t \in ToSet(doc.standalone) : LimitsHold(t) /\ ScheduleIsValid(t.schedule)

Accepts(doc) ==
  /\ doc # Unparsable
  /\ doc.zone # "unknown"
  /\ WithDefaults(doc).maxRetries <= maxRetriesLimit
  /\ validateConfig(doc)

-----------------------------------------------------------------------------
(* What a configuration in force must be, said without the algorithm: the  *)
(* dependencies of a workflow name tasks of the workflow, and of any tasks *)
(* of it one waits for none of the others, so that all can be carried out; *)
(* a task has one place; nothing has a timeout of zero, and everything     *)
(* gives up after at most ten retries.                                     *)
(* (A negative timeout passes the checks, and so does a negative number of *)
(* slots: see the hazards in the README.)                                  *)
CanBeCarriedOut(tasks) ==
  LET ids == ToSet(Ids(tasks)) IN
  /\ \A t \in ToSet(tasks) : t.dependsOn \in ids \cup {Unset}
  /\ \A S \in (SUBSET ids) \ {{}} :
       \E t \in ToSet(tasks) : t.id \in S /\ t.dependsOn \in (ids \ S) \cup {Unset}

(* All places of tasks: a standalone task is in workflow 0.                *)
Places(config) == FlowPlaces(config) \cup ({0} \X DOMAIN config.standalone)

TaskAt(config, p) == IF p[1] = 0 THEN config.standalone[p[2]] ELSE FlowTask(config, p)

IsSound(config) ==
  /\ \A wf \in ToSet(config.workflows) : CanBeCarriedOut(wf.tasks)
  /\ \A p, q \in Places(config) : TaskAt(config, p).id = TaskAt(config, q).id => p = q
  /\ \A p \in Places(config) :
       /\ Override(TaskAt(config, p).timeout, config.timeout) # 0
       /\ Override(TaskAt(config, p).maxRetries, config.maxRetries) <= maxRetriesLimit
  /\ config.workerSlots # 0
=================================================================================
