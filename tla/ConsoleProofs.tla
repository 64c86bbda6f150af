------------------------------ MODULE ConsoleProofs ------------------------------
(***************************************************************************)
(* Theorems about the console, for any tasks and any number of runs and    *)
(* requests: what the live view shows belongs to the task it names.        *)
(***************************************************************************)
EXTENDS Console, FiniteSetTheorems, TLAPS

-----------------------------------------------------------------------------
(* The inductive invariant: the runs.  The task of a run is settled when   *)
(* it is dispatched, and only then may it appear anywhere.                 *)
RunTypes == /\ stage \in [Runs -> {"new", "sent", "active", "live", "closed", "over"}]
            /\ taskOf \in [Runs -> Tasks \cup {NoTask}]
            /\ {active, registry} \subseteq [Tasks -> Runs \cup {NoRun}]
            /\ printed \subseteq Runs
            /\ log \in Seq(Entry)
            /\ fouled \subseteq Tasks

Dispatched == /\ \A r \in Runs : stage[r] = "new" <=> taskOf[r] = NoTask
              /\ \A i \in DOMAIN log : taskOf[log[i].run] \in Tasks
              /\ \A r \in printed : taskOf[r] \in Tasks

Buffered == \A t \in Tasks : registry[t] # NoRun => taskOf[registry[t]] = t

(* Up to position i of the log the last start of the task is the run's.    *)
Starts(t) == {i \in Entries(t) : log[i].type = "start"}

LastStart(t, r, i) == \E k \in Starts(t) : /\ log[k].run = r /\ k <= i
                                           /\ \A m \in Starts(t) : m <= i => m <= k

(* A task that is not fouled runs one run at a time: what is not over is   *)
(* what started last, and so is what a line was printed by.                *)
InTurn == \A t \in Tasks \ fouled :
            /\ \A r \in RunsOf(t) : stage[r] # "over" => LastStart(t, r, Len(log))
            /\ \A i \in Entries(t) : log[i].type = "line" => LastStart(t, log[i].run, i)

RunsInv == RunTypes /\ Dispatched /\ Buffered /\ InTurn

(* The requests and the view.                                              *)
OneRun(lines) == \A q, r \in lines : q = r

Belong(t, lines) == /\ \A r \in lines : taskOf[r] = t
                    /\ t \in fouled \/ OneRun(lines)

Requests == UNION {{RunCall(t), OutputCall(t), LogsCall(t)} : t \in Tasks}
Answers == {Lines(k, t, l, b) : k \in ShowsLines, t \in Tasks, l \in SUBSET Runs, b \in BOOLEAN}

CallTypes == /\ calls \subseteq Requests \cup Answers
             /\ IsFiniteSet(calls)
             /\ Cardinality(calls) <= MaxCalls

CallsBelong == \A c \in calls : c.at = "answered" => Belong(c.task, c.lines)

ViewTypes == /\ crossed \in BOOLEAN
             /\ mode \in {"view", "run", "select active", "select recent", "live"}
             /\ view \in [task : Tasks \cup {NoTask}, lines : SUBSET Runs, running : BOOLEAN]
             /\ mode \in {"run", "select active", "select recent"} => status # <<>>
             /\ mode = "live" <=> view.task \in Tasks
             /\ status # <<>> => status.active \subseteq Tasks /\ status.recent \subseteq Tasks

(* Unless one was due when the view was opened, no answer for another task *)
(* can reach it.                                                           *)
ViewBelongs == mode = "live" /\ ~crossed =>
                 /\ Belong(view.task, view.lines)
                 /\ \A c \in calls : c.kind \in ShowsLines => c.task = view.task

ScreenInv == CallTypes /\ CallsBelong /\ ViewTypes /\ ViewBelongs

IInv == RunsInv /\ ScreenInv

-----------------------------------------------------------------------------
(* The runs.                                                               *)

(* What a step leaves of what is known about the runs.                     *)
Kept == /\ \A r \in Runs : taskOf[r] \in Tasks => taskOf'[r] = taskOf[r]
        /\ fouled \subseteq fouled'

LEMMA TaskIsTask == NoTask \notin Tasks /\ NoRun \notin Runs
BY ConsoleAssumption

LEMMA EntryFacts ==
  ASSUME RunsInv, NEW i \in DOMAIN log
  PROVE  /\ i \in 1..Len(log) /\ Len(log) \in Nat
         /\ log[i].run \in Runs /\ log[i].type \in {"start", "line"}
         /\ taskOf[log[i].run] \in Tasks
<1>1. log \in Seq(Entry) /\ taskOf[log[i].run] \in Tasks
  BY DEF RunsInv, RunTypes, Dispatched
<1>2. DOMAIN log = 1..Len(log) /\ Len(log) \in Nat /\ log[i] \in Entry
  BY <1>1
<1> QED BY <1>1, <1>2 DEF Entry

(* A run is dispatched.                                                    *)
LEMMA SubmitKeeps ==
  ASSUME RunsInv, NEW r \in Runs, NEW t \in Tasks, Submit(r, t), fouled \subseteq fouled'
  PROVE  /\ Kept /\ stage[r] = "new" /\ taskOf[r] = NoTask
         /\ taskOf' = [taskOf EXCEPT ![r] = t] /\ taskOf' \in [Runs -> Tasks \cup {NoTask}]
         /\ stage' = [stage EXCEPT ![r] = "sent"]
         /\ stage' \in [Runs -> {"new", "sent", "active", "live", "closed", "over"}]
         /\ Buffered'
         /\ \A q \in Runs : stage'[q] = "new" <=> taskOf'[q] = NoTask
         /\ \A q \in printed : taskOf'[q] \in Tasks
<1>0. RunTypes /\ Dispatched /\ Buffered
  BY DEF RunsInv
<1>1. stage[r] = "new" /\ stage' = [stage EXCEPT ![r] = "sent"]
      /\ taskOf' = [taskOf EXCEPT ![r] = t] /\ UNCHANGED <<active, registry, printed>>
  BY DEF Submit, Moves
<1>2. taskOf[r] = NoTask /\ taskOf[r] \notin Tasks
  BY <1>0, <1>1, TaskIsTask DEF Dispatched
<1>3. Kept
  BY <1>0, <1>1, <1>2 DEF Kept, RunTypes
<1>4. Buffered'
  BY <1>0, <1>1, <1>2, TaskIsTask DEF Buffered, RunTypes
<1>5. \A q \in Runs : stage'[q] = "new" <=> taskOf'[q] = NoTask
  BY <1>0, <1>1, TaskIsTask DEF Dispatched, RunTypes
<1>6. \A q \in printed : taskOf'[q] \in Tasks
  BY <1>0, <1>3 DEF Kept, Dispatched, RunTypes
<1> QED BY <1>0, <1>1, <1>2, <1>3, <1>4, <1>5, <1>6 DEF RunTypes

LEMMA StartedStep ==
  ASSUME RunsInv, NEW r \in Runs, NEW t \in Tasks, Started(r, t)
  PROVE  RunsInv' /\ Kept
<1> DEFINE e == [type |-> "start", run |-> r]
           n == Len(log)
<1>0. RunTypes /\ Dispatched /\ Buffered /\ InTurn /\ n \in Nat
  BY DEF RunsInv, RunTypes
<1>1. /\ Submit(r, t) /\ log' = Append(log, e)
      /\ fouled' = IF \E q \in RunsOf(t) : stage[q] # "over" THEN fouled \cup {t} ELSE fouled
  BY DEF Started
<1>2. /\ Kept /\ stage[r] = "new" /\ taskOf[r] = NoTask
      /\ taskOf' = [taskOf EXCEPT ![r] = t] /\ taskOf' \in [Runs -> Tasks \cup {NoTask}]
      /\ stage' = [stage EXCEPT ![r] = "sent"]
      /\ stage' \in [Runs -> {"new", "sent", "active", "live", "closed", "over"}]
      /\ Buffered'
      /\ \A q \in Runs : stage'[q] = "new" <=> taskOf'[q] = NoTask
      /\ \A q \in printed : taskOf'[q] \in Tasks
  BY <1>1, SubmitKeeps
<1>3. /\ Len(log') = n + 1 /\ log'[n + 1] = e /\ DOMAIN log' = 1..(n + 1) /\ DOMAIN log = 1..n
      /\ \A i \in 1..n : log'[i] = log[i]
      /\ log' \in Seq(Entry)
  BY <1>0, <1>1 DEF RunTypes, Entry
<1>4. RunTypes'
  BY <1>0, <1>1, <1>2, <1>3 DEF RunTypes, Submit
<1>5. taskOf'[r] = t /\ e.run = r /\ e.type = "start"
  BY <1>0, <1>2 DEF RunTypes
<1> HIDE DEF e
<1>6. ASSUME NEW i \in 1..n
      PROVE  log[i].run \in Runs /\ taskOf'[log[i].run] = taskOf[log[i].run]
             /\ taskOf[log[i].run] \in Tasks
  BY <1>2, <1>3, EntryFacts DEF Kept
<1>7. Dispatched'
  <2>1. \A i \in DOMAIN log' : taskOf'[log'[i].run] \in Tasks
    <3> SUFFICES ASSUME NEW i \in 1..(n + 1) PROVE taskOf'[log'[i].run] \in Tasks
      BY <1>3
    <3>1. CASE i = n + 1
      BY <1>3, <1>5, <3>1
    <3>2. CASE i \in 1..n
      BY <1>3, <1>6, <3>2
    <3> QED BY <1>0, <3>1, <3>2
  <2>2. printed' = printed
    BY <1>1 DEF Submit
  <2> QED BY <1>2, <2>1, <2>2 DEF Dispatched
<1>8. \A u \in Tasks : Entries(u) \subseteq 1..n /\ Starts(u) \subseteq 1..n
  BY <1>3 DEF Entries, Starts
<1>9. \A u \in Tasks \ {t} : Entries(u)' = Entries(u) /\ Starts(u)' = Starts(u)
  <2> SUFFICES ASSUME NEW u \in Tasks \ {t} PROVE Entries(u)' = Entries(u) /\ Starts(u)' = Starts(u)
    OBVIOUS
  <2>1. Entries(u)' = Entries(u)
    BY <1>0, <1>3, <1>5, <1>6 DEF Entries
  <2> QED BY <1>3, <1>8, <2>1 DEF Starts
<1>10. Entries(t)' = Entries(t) \cup {n + 1} /\ Starts(t)' = Starts(t) \cup {n + 1}
  <2>1. Entries(t)' = Entries(t) \cup {n + 1}
    BY <1>0, <1>3, <1>5, <1>6 DEF Entries
  <2> QED BY <1>3, <1>5, <1>8, <2>1 DEF Starts
<1>11. ASSUME NEW u \in Tasks \ fouled', NEW q, NEW i \in 1..n, LastStart(u, q, i)
       PROVE  LastStart(u, q, i)'
  <2>1. PICK k \in Starts(u) : /\ log[k].run = q /\ k <= i
                               /\ \A m \in Starts(u) : m <= i => m <= k
    BY <1>11 DEF LastStart
  <2>2. k \in 1..n /\ log'[k].run = q
    BY <1>3, <1>8, <2>1
  <2>3. k \in Starts(u)' /\ \A m \in Starts(u)' : m <= i => m <= k
    BY <1>0, <1>9, <1>10, <2>1
  <2> QED BY <2>1, <2>2, <2>3 DEF LastStart
<1>12. InTurn'
  <2> SUFFICES ASSUME NEW u \in Tasks \ fouled'
               PROVE  /\ \A q \in RunsOf(u)' : stage'[q] # "over" => LastStart(u, q, Len(log))'
                      /\ \A i \in Entries(u)' : log'[i].type = "line" => LastStart(u, log[i].run, i)'
    BY DEF InTurn
  <2>1. u \in Tasks \ fouled
    BY <1>2 DEF Kept
  <2>2. ASSUME NEW q \in RunsOf(u)', stage'[q] # "over" PROVE LastStart(u, q, Len(log))'
    <3>1. q \in Runs /\ taskOf'[q] = u
      BY <2>2 DEF RunsOf
    <3>2. CASE q = r
      <4>1. u = t
        BY <1>5, <3>1, <3>2
      <4>2. n + 1 \in Starts(u)' /\ log'[n + 1].run = q /\ \A m \in Starts(u)' : m <= n + 1 => m <= n + 1
        BY <1>3, <1>5, <1>10, <3>2, <4>1
      <4> QED BY <1>0, <1>3, <4>2 DEF LastStart
    <3>3. CASE q # r
      <4>1. q \in RunsOf(u) /\ stage[q] # "over"
        BY <1>0, <1>2, <2>2, <3>1, <3>3 DEF RunsOf, RunTypes
      <4>2. u # t
        BY <1>1, <4>1
      <4>3. LastStart(u, q, n)
        BY <2>1, <4>1, <1>0 DEF InTurn
      <4>4. PICK k \in Starts(u) : /\ log[k].run = q /\ k <= n
                                   /\ \A m \in Starts(u) : m <= n => m <= k
        BY <4>3 DEF LastStart
      <4>5. k \in 1..n /\ log'[k].run = q /\ k \in Starts(u)' /\ \A m \in Starts(u)' : m <= k
        BY <1>3, <1>8, <1>9, <4>2, <4>4
      <4>6. k <= Len(log')
        BY <1>0, <1>3, <4>5
      <4> QED BY <4>5, <4>6 DEF LastStart
    <3> QED BY <3>2, <3>3
  <2>3. ASSUME NEW i \in Entries(u)', log'[i].type = "line" PROVE LastStart(u, log[i].run, i)'
    <3>1. i \in 1..n /\ i \in Entries(u) /\ log'[i] = log[i]
      <4>1. i # n + 1
        BY <1>3, <1>5, <2>3
      <4> QED BY <1>3, <1>8, <1>9, <1>10, <4>1
    <3>2. PICK q : q = log[i].run
      OBVIOUS
    <3>3. LastStart(u, q, i)
      BY <1>0, <2>1, <2>3, <3>1, <3>2 DEF InTurn
    <3>4. LastStart(u, q, i)'
      BY <1>11, <3>1, <3>3
    <3> QED BY <3>1, <3>2, <3>4 DEF LastStart
  <2> QED BY <2>2, <2>3
<1> QED BY <1>2, <1>4, <1>7, <1>12 DEF RunsInv

(* A retry, which fouls its task.                                          *)
LEMMA RetriedStep ==
  ASSUME RunsInv, NEW r \in Runs, NEW t \in Tasks, Retried(r, t)
  PROVE  RunsInv' /\ Kept
<1>0. RunTypes /\ Dispatched /\ Buffered /\ InTurn
  BY DEF RunsInv
<1>1. Submit(r, t) /\ log' = log /\ fouled' = fouled \cup {t}
  BY DEF Retried
<1>2. /\ Kept /\ stage[r] = "new" /\ taskOf[r] = NoTask
      /\ taskOf' = [taskOf EXCEPT ![r] = t] /\ taskOf' \in [Runs -> Tasks \cup {NoTask}]
      /\ stage' = [stage EXCEPT ![r] = "sent"]
      /\ stage' \in [Runs -> {"new", "sent", "active", "live", "closed", "over"}]
      /\ Buffered'
      /\ \A q \in Runs : stage'[q] = "new" <=> taskOf'[q] = NoTask
      /\ \A q \in printed : taskOf'[q] \in Tasks
  BY <1>1, SubmitKeeps
<1>3. RunTypes'
  BY <1>0, <1>1, <1>2 DEF RunTypes, Submit
<1>4. \A i \in DOMAIN log : log[i].run \in Runs /\ taskOf'[log[i].run] = taskOf[log[i].run]
  BY <1>2, EntryFacts DEF Kept
<1>5. Dispatched'
  BY <1>0, <1>1, <1>2, <1>4 DEF Dispatched, Submit
<1>6. InTurn'
  <2> SUFFICES ASSUME NEW u \in Tasks \ fouled'
               PROVE  /\ \A q \in RunsOf(u)' : stage'[q] # "over" => LastStart(u, q, Len(log))'
                      /\ \A i \in Entries(u)' : log'[i].type = "line" => LastStart(u, log[i].run, i)'
    BY DEF InTurn
  <2>1. u \in Tasks \ fouled /\ u # t
    BY <1>1
  <2>2. Entries(u)' = Entries(u) /\ Starts(u)' = Starts(u)
    BY <1>1, <1>4 DEF Entries, Starts
  <2>3. \A q \in RunsOf(u)' : q \in RunsOf(u) /\ stage'[q] = stage[q]
    BY <1>0, <1>2, <2>1 DEF RunsOf, RunTypes
  <2> QED BY <1>0, <1>1, <2>1, <2>2, <2>3 DEF InTurn, LastStart
<1> QED BY <1>2, <1>3, <1>5, <1>6 DEF RunsInv

(* A run goes on, without a word.                                          *)
LEMMA QuietStep ==
  ASSUME RunsInv, NEW r \in Runs, Activate(r) \/ Register(r) \/ Deregister(r) \/ Deactivate(r)
  PROVE  RunsInv' /\ Kept
<1>0. RunTypes /\ Dispatched /\ Buffered /\ InTurn
  BY DEF RunsInv
<1>1. /\ stage[r] \notin {"new", "over"} /\ UNCHANGED <<taskOf, printed, log, fouled>>
      /\ \E to \in {"active", "live", "closed", "over"} : stage' = [stage EXCEPT ![r] = to]
      /\ active' \in {active, [active EXCEPT ![taskOf[r]] = r], [active EXCEPT ![taskOf[r]] = NoRun]}
      /\ registry' \in {registry, [registry EXCEPT ![taskOf[r]] = r],
                        [registry EXCEPT ![taskOf[r]] = NoRun]}
  BY DEF Activate, Register, Deregister, Deactivate, Moves
<1>2. RunTypes'
  BY <1>0, <1>1 DEF RunTypes
<1>3. Dispatched'
  BY <1>0, <1>1 DEF RunTypes, Dispatched
<1>4. Buffered'
  BY <1>0, <1>1, TaskIsTask DEF RunTypes, Buffered
<1>5. \A q \in Runs : stage'[q] # "over" => stage[q] # "over"
  BY <1>0, <1>1 DEF RunTypes
<1>6. InTurn'
  BY <1>0, <1>1, <1>5 DEF InTurn, RunsOf, LastStart, Starts, Entries
<1> QED BY <1>1, <1>2, <1>3, <1>4, <1>6 DEF RunsInv, Kept

(* A run prints its line: while it is live it is the task's last.          *)
LEMMA PrintStep ==
  ASSUME RunsInv, NEW r \in Runs, PrintLine(r)
  PROVE  RunsInv' /\ Kept
<1> DEFINE e == [type |-> "line", run |-> r]
           n == Len(log)
           t == taskOf[r]
<1>0. RunTypes /\ Dispatched /\ Buffered /\ InTurn /\ n \in Nat
  BY DEF RunsInv, RunTypes
<1>1. /\ stage[r] = "live" /\ printed' = printed \cup {r} /\ log' = Append(log, e)
      /\ UNCHANGED <<stage, taskOf, active, registry, fouled>>
  BY DEF PrintLine
<1>2. t \in Tasks
  BY <1>0, <1>1 DEF RunTypes, Dispatched
<1>3. /\ Len(log') = n + 1 /\ log'[n + 1] = e /\ DOMAIN log' = 1..(n + 1) /\ DOMAIN log = 1..n
      /\ \A i \in 1..n : log'[i] = log[i]
      /\ log' \in Seq(Entry)
  BY <1>0, <1>1 DEF RunTypes, Entry
<1>4. e.run = r /\ e.type = "line"
  OBVIOUS
<1> HIDE DEF e
<1>5. RunTypes'
  BY <1>0, <1>1, <1>3 DEF RunTypes
<1>6. Dispatched'
  <2>1. ASSUME NEW i \in DOMAIN log' PROVE taskOf[log'[i].run] \in Tasks
    <3>1. CASE i = n + 1
      BY <1>2, <1>3, <1>4, <3>1
    <3>2. CASE i # n + 1
      BY <1>0, <1>3, <3>2 DEF Dispatched
    <3> QED BY <3>1, <3>2
  <2> QED BY <1>0, <1>1, <1>2, <2>1 DEF Dispatched
<1>7. Buffered'
  BY <1>0, <1>1 DEF Buffered
<1>8. ASSUME NEW u
      PROVE  /\ Entries(u) \subseteq 1..n /\ Starts(u)' = Starts(u)
             /\ Entries(u)' = Entries(u) \cup IF u = t THEN {n + 1} ELSE {}
  <2>1. Entries(u)' = Entries(u) \cup IF u = t THEN {n + 1} ELSE {}
    BY <1>0, <1>1, <1>3, <1>4 DEF Entries
  <2>2. Entries(u) \subseteq 1..n
    BY <1>3 DEF Entries
  <2>3. Starts(u)' = Starts(u)
    BY <1>3, <1>4, <2>1, <2>2 DEF Starts
  <2> QED BY <2>1, <2>2, <2>3
<1>9. ASSUME NEW u, NEW q, NEW i \in 1..n, LastStart(u, q, i)
      PROVE  LastStart(u, q, i)'
  <2>1. PICK m \in Starts(u) : /\ log[m].run = q /\ m <= i
                               /\ \A l \in Starts(u) : l <= i => l <= m
    BY <1>9 DEF LastStart
  <2>2. m \in 1..n
    BY <1>8 DEF Starts
  <2> QED BY <1>3, <1>8, <2>1, <2>2 DEF LastStart
<1>10. ASSUME NEW u, NEW q, LastStart(u, q, n)
       PROVE  LastStart(u, q, Len(log))'
  <2>1. PICK m \in Starts(u) : /\ log[m].run = q /\ m <= n
                               /\ \A l \in Starts(u) : l <= n => l <= m
    BY <1>10 DEF LastStart
  <2>2. \A l \in Starts(u) : l \in 1..n
    BY <1>8 DEF Starts
  <2>3. log'[m].run = q /\ m <= Len(log') /\ \A l \in Starts(u) : l <= m
    BY <1>0, <1>3, <2>1, <2>2
  <2> QED BY <1>8, <2>1, <2>3 DEF LastStart
<1>11. InTurn'
  <2> SUFFICES ASSUME NEW u \in Tasks \ fouled
               PROVE  /\ \A q \in RunsOf(u)' : stage'[q] # "over" => LastStart(u, q, Len(log))'
                      /\ \A i \in Entries(u)' : log'[i].type = "line" => LastStart(u, log[i].run, i)'
    BY <1>1 DEF InTurn
  <2>1. ASSUME NEW q \in RunsOf(u), stage[q] # "over" PROVE LastStart(u, q, Len(log))'
    <3>1. LastStart(u, q, n)
      BY <1>0, <2>1 DEF InTurn
    <3> QED BY <1>10, <3>1
  <2>2. ASSUME NEW i \in Entries(u)', log'[i].type = "line" PROVE LastStart(u, log[i].run, i)'
    <3>1. PICK q : q = log'[i].run
      OBVIOUS
    <3>2. CASE i = n + 1
      <4>1. u = t /\ q = r
        BY <1>3, <1>4, <1>8, <2>2, <3>1, <3>2
      <4>2. r \in RunsOf(u) /\ stage[r] # "over"
        BY <1>1, <4>1 DEF RunsOf
      <4>3. LastStart(u, q, Len(log))'
        BY <2>1, <4>1, <4>2
      <4> QED BY <1>3, <3>1, <3>2, <4>3 DEF LastStart
    <3>3. CASE i # n + 1
      <4>1. i \in Entries(u) /\ i \in 1..n /\ log'[i] = log[i]
        BY <1>3, <1>8, <2>2, <3>3
      <4>2. LastStart(u, q, i)
        BY <1>0, <2>2, <3>1, <4>1 DEF InTurn
      <4>3. LastStart(u, q, i)'
        BY <1>0, <1>9, <4>1, <4>2
      <4> QED BY <3>1, <4>3 DEF LastStart
    <3> QED BY <3>2, <3>3
  <2>3. RunsOf(u)' = RunsOf(u)
    BY <1>1 DEF RunsOf
  <2>4. \A q \in RunsOf(u)' : stage'[q] # "over" => LastStart(u, q, Len(log))'
    BY <1>1, <2>1, <2>3
  <2> QED BY <2>2, <2>4
<1> QED BY <1>1, <1>5, <1>6, <1>7, <1>11 DEF RunsInv, Kept

LEMMA RunsStep ==
  ASSUME RunsInv,
         \/ \E r \in Runs, t \in Tasks : Started(r, t) \/ Retried(r, t)
         \/ \E r \in Runs : RunStep(r)
         \/ UNCHANGED runs
  PROVE  RunsInv' /\ Kept
<1>1. CASE UNCHANGED runs
  BY <1>1 DEF runs, RunsInv, RunTypes, Dispatched, Buffered, InTurn, RunsOf, LastStart, Starts,
              Entries, Kept
<1> QED BY <1>1, StartedStep, RetriedStep, QuietStep, PrintStep DEF RunStep

-----------------------------------------------------------------------------
(* What the lines of an answer have in common.                             *)
LEMMA OutputBelongs ==
  ASSUME RunsInv, NEW t \in Tasks
  PROVE  /\ {registry[t]} \cap printed \in SUBSET Runs
         /\ Belong(t, {registry[t]} \cap printed)
<1>1. printed \subseteq Runs
  BY DEF RunsInv, RunTypes
<1>2. \A r \in {registry[t]} \cap printed : taskOf[r] = t
  BY <1>1, TaskIsTask DEF RunsInv, Buffered
<1> QED BY <1>1, <1>2 DEF Belong, OneRun

LEMMA LogsBelong ==
  ASSUME RunsInv, NEW t \in Tasks
  PROVE  /\ ReadTaskOutput(t) \in SUBSET Runs
         /\ Belong(t, ReadTaskOutput(t))
<1> DEFINE shown == {k \in FilterLastRun(Entries(t)) : log[k].type = "line"}
<1>1. ASSUME NEW i \in shown
      PROVE  /\ i \in Entries(t) /\ log[i].run \in Runs /\ taskOf[log[i].run] = t
             /\ log[i].type = "line" /\ i \in 1..Len(log) /\ Len(log) \in Nat
             /\ \A k \in Starts(t) : k <= i
  <2>1. i \in Entries(t) /\ log[i].type = "line" /\ \A k \in Starts(t) : k <= i
    BY DEF FilterLastRun, Starts
  <2>2. i \in DOMAIN log /\ taskOf[log[i].run] = t
    BY <2>1 DEF Entries
  <2> QED BY <2>1, <2>2, EntryFacts
<1>2. ReadTaskOutput(t) = {log[i].run : i \in shown}
  BY DEF ReadTaskOutput
<1> HIDE DEF shown
<1>3. ASSUME t \notin fouled, NEW i \in shown, NEW j \in shown PROVE log[i].run = log[j].run
  <2>1. ASSUME NEW k \in shown
        PROVE  \E m \in Starts(t) : log[m].run = log[k].run /\ \A l \in Starts(t) : l <= m
    <3>1. LastStart(t, log[k].run, k)
      BY <1>1, <1>3 DEF RunsInv, InTurn
    <3> QED BY <1>1, <3>1 DEF LastStart
  <2>2. PICK m \in Starts(t) : log[m].run = log[i].run /\ \A l \in Starts(t) : l <= m
    BY <2>1
  <2>3. PICK n \in Starts(t) : log[n].run = log[j].run /\ \A l \in Starts(t) : l <= n
    BY <2>1
  <2>4. m \in Nat /\ n \in Nat /\ m <= n /\ n <= m
    BY <2>2, <2>3, EntryFacts DEF Starts, Entries
  <2> QED BY <2>2, <2>3, <2>4
<1> QED BY <1>1, <1>2, <1>3 DEF Belong, OneRun

LEMMA BelongKept ==
  ASSUME RunsInv, Kept, NEW t \in Tasks, NEW lines \in SUBSET Runs, Belong(t, lines)
  PROVE  Belong(t, lines)'
BY DEF Kept, Belong, OneRun

-----------------------------------------------------------------------------
(* The requests and the view.                                              *)
LEMMA CallFacts ==
  ASSUME CallTypes, NEW c \in calls
  PROVE  /\ c.task \in Tasks
         /\ c.at = "asked" => c \in Requests
         /\ c.at = "answered" => /\ c \in Answers /\ c.kind \in ShowsLines
                                 /\ c.lines \in SUBSET Runs /\ c.running \in BOOLEAN
<1>1. CASE c \in Requests
  BY <1>1 DEF Requests, RunCall, OutputCall, LogsCall
<1>2. CASE c \in Answers
  BY <1>2 DEF Answers, Lines
<1> QED BY <1>1, <1>2 DEF CallTypes

LEMMA FewerCalls ==
  ASSUME CallTypes, calls' \subseteq calls
  PROVE  CallTypes'
BY FS_Subset, FS_CardinalityType, ConsoleAssumption DEF CallTypes, Requests, Answers

LEMMA CallReplaced ==
  ASSUME CallTypes, NEW c \in calls, NEW new \in Requests \cup Answers, Replace(c, new)
  PROVE  CallTypes'
<1>1. IsFiniteSet(calls \ {c}) /\ Cardinality(calls \ {c}) = Cardinality(calls) - 1
      /\ Cardinality(calls) \in Nat
  BY FS_RemoveElement, FS_CardinalityType DEF CallTypes
<1>2. /\ IsFiniteSet((calls \ {c}) \cup {new})
      /\ Cardinality((calls \ {c}) \cup {new}) \in {Cardinality(calls) - 1, Cardinality(calls)}
  BY <1>1, FS_AddElement
<1>3. IsFiniteSet(calls') /\ Cardinality(calls') <= MaxCalls
  BY <1>1, <1>2, ConsoleAssumption DEF Replace, CallTypes
<1> QED BY <1>3 DEF CallTypes, Replace, Requests, Answers

LEMMA CallAdded ==
  ASSUME CallTypes, NEW new \in Requests, Room({new}), calls' = calls \cup {new}
  PROVE  CallTypes'
<1>1. IsFiniteSet(calls')
  BY FS_AddElement DEF CallTypes
<1> QED BY <1>1 DEF CallTypes, Room, Requests, Answers

(* The view stays, and no request is new.                                  *)
LEMMA ScreenKept ==
  ASSUME IInv, Kept, calls' \subseteq calls, UNCHANGED ui
  PROVE  ScreenInv'
<1>0. RunsInv /\ CallTypes /\ CallsBelong /\ ViewTypes /\ ViewBelongs
  BY DEF IInv, ScreenInv
<1>1. CallTypes'
  BY <1>0, FewerCalls
<1>2. CallsBelong'
  <2>1. ASSUME NEW c \in calls', c.at = "answered" PROVE Belong(c.task, c.lines)'
    <3>1. PICK t, lines : t = c.task /\ lines = c.lines
      OBVIOUS
    <3>2. t \in Tasks /\ lines \in SUBSET Runs /\ Belong(t, lines)
      BY <1>0, <2>1, <3>1, CallFacts DEF CallsBelong
    <3>3. Belong(t, lines)'
      BY <1>0, <3>2, BelongKept
    <3> QED BY <3>1, <3>3 DEF Belong
  <2> QED BY <2>1 DEF CallsBelong
<1>3. ViewTypes'
  BY <1>0 DEF ui, ViewTypes
<1>4. ViewBelongs'
  <2>1. UNCHANGED <<mode, view, crossed>>
    BY DEF ui
  <2>2. ASSUME mode = "live", ~crossed
        PROVE  Belong(view.task, view.lines)' /\ \A c \in calls' : c.kind \in ShowsLines => c.task = view.task
    <3>1. PICK t, lines : t = view.task /\ lines = view.lines
      OBVIOUS
    <3>2. t \in Tasks /\ lines \in SUBSET Runs /\ Belong(t, lines)
      BY <1>0, <2>2, <3>1 DEF ViewTypes, ViewBelongs
    <3>3. Belong(t, lines)'
      BY <1>0, <3>2, BelongKept
    <3>4. Belong(view.task, view.lines)'
      BY <2>1, <3>1, <3>3 DEF Belong
    <3> QED BY <1>0, <2>2, <3>4 DEF ViewBelongs
  <2> QED BY <2>1, <2>2 DEF ViewBelongs, ShowsLines
<1> QED BY <1>1, <1>2, <1>3, <1>4 DEF ScreenInv

(* Belong speaks of the runs only.                                         *)
LEMMA BelongStays ==
  ASSUME UNCHANGED runs, NEW t, NEW lines, Belong(t, lines)
  PROVE  Belong(t, lines)'
BY DEF runs, Belong, OneRun

LEMMA CallsStay ==
  ASSUME UNCHANGED runs, CallsBelong, NEW more,
         calls' \subseteq calls \cup more,
         \A c \in more : c.at = "answered" => Belong(c.task, c.lines)
  PROVE  CallsBelong'
<1>1. ASSUME NEW c \in calls', c.at = "answered" PROVE Belong(c.task, c.lines)'
  <2>1. PICK t, lines : t = c.task /\ lines = c.lines
    OBVIOUS
  <2>2. Belong(t, lines)
    BY <1>1, <2>1 DEF CallsBelong
  <2>3. Belong(t, lines)'
    BY <2>2, BelongStays
  <2> QED BY <2>1, <2>3 DEF Belong
<1> QED BY <1>1 DEF CallsBelong

LEMMA AnswerType ==
  ASSUME NEW k \in ShowsLines, NEW t \in Tasks, NEW l \in SUBSET Runs, NEW b \in BOOLEAN
  PROVE  Lines(k, t, l, b) \in Answers
BY DEF Answers

(* A request is answered.                                                  *)
LEMMA AnswerStep ==
  ASSUME IInv, NEW c \in calls, AnswerOutput(c) \/ AnswerLogs(c)
  PROVE  ScreenInv'
<1>0. RunsInv /\ CallTypes /\ CallsBelong /\ ViewTypes /\ ViewBelongs
  BY DEF IInv, ScreenInv
<1>1. c.kind \in ShowsLines /\ c.task \in Tasks /\ UNCHANGED <<runs, ui>>
  BY <1>0, CallFacts DEF AnswerOutput, AnswerLogs, Asked, ShowsLines
<1>2. PICK new \in Answers : /\ Replace(c, new) /\ new.task = c.task /\ Belong(new.task, new.lines)
  <2>1. CASE AnswerOutput(c)
    <3> DEFINE lines == {registry[c.task]} \cap printed
               new == Lines("output", c.task, lines, registry[c.task] # NoRun)
    <3>1. new \in Answers
      <4>1. lines \in SUBSET Runs /\ "output" \in ShowsLines
        BY <1>0, <1>1, OutputBelongs DEF ShowsLines
      <4> HIDE DEF lines
      <4> QED BY <1>1, <4>1, AnswerType
    <3>2. new.task = c.task /\ new.lines = lines
      BY DEF Lines
    <3> QED BY <1>0, <1>1, <2>1, <3>1, <3>2, OutputBelongs DEF AnswerOutput
  <2>2. CASE AnswerLogs(c)
    <3> DEFINE lines == ReadTaskOutput(c.task)
               new == Lines("logs", c.task, lines, active[c.task] # NoRun)
    <3>1. new \in Answers
      <4>1. lines \in SUBSET Runs /\ "logs" \in ShowsLines
        BY <1>0, <1>1, LogsBelong DEF ShowsLines
      <4> HIDE DEF lines
      <4> QED BY <1>1, <4>1, AnswerType
    <3>2. new.task = c.task /\ new.lines = lines
      BY DEF Lines
    <3> QED BY <1>0, <1>1, <2>2, <3>1, <3>2, LogsBelong DEF AnswerLogs
  <2> QED BY <2>1, <2>2
<1>3. CallTypes'
  BY <1>0, <1>2, CallReplaced
<1>4. CallsBelong'
  <2>1. PICK more : more = {new}
    OBVIOUS
  <2> QED BY <1>0, <1>1, <1>2, <2>1, CallsStay DEF Replace
<1>5. ViewTypes'
  BY <1>0, <1>1 DEF ui, ViewTypes
<1>6. ViewBelongs'
  <2>1. UNCHANGED <<mode, view, crossed>>
    BY <1>1 DEF ui
  <2>2. ASSUME mode = "live", ~crossed
        PROVE  Belong(view.task, view.lines)' /\ \A d \in calls' : d.kind \in ShowsLines => d.task = view.task
    <3>1. PICK t, lines : t = view.task /\ lines = view.lines
      OBVIOUS
    <3>2. Belong(t, lines)'
      BY <1>0, <1>1, <2>2, <3>1, BelongStays DEF ViewBelongs
    <3>3. Belong(view.task, view.lines)'
      BY <2>1, <3>1, <3>2 DEF Belong
    <3> QED BY <1>0, <1>1, <1>2, <2>2, <3>3 DEF ViewBelongs, Replace
  <2> QED BY <2>1, <2>2 DEF ViewBelongs, ShowsLines
<1> QED BY <1>3, <1>4, <1>5, <1>6 DEF ScreenInv

(* The screen takes a status, or lines, or polls.                          *)
LEMMA StatusStep ==
  ASSUME IInv, TakeStatus
  PROVE  ScreenInv'
<1>0. RunsInv /\ CallTypes /\ CallsBelong /\ ViewTypes /\ ViewBelongs
  BY DEF IInv, ScreenInv
<1>1. UNCHANGED <<runs, calls, mode, view, crossed>> /\ status' = Snapshot
  BY DEF TakeStatus
<1>2. Snapshot # <<>>
  <2>1. DOMAIN Snapshot = {"active", "recent"}
    BY DEF Snapshot
  <2>2. DOMAIN <<>> = {}
    OBVIOUS
  <2> QED BY <2>1, <2>2
<1>3. Snapshot.active \subseteq Tasks /\ Snapshot.recent \subseteq Tasks
  <2>1. \A r \in Runs : stage[r] = "over" => taskOf[r] \in Tasks
    BY <1>0 DEF RunsInv, RunTypes, Dispatched
  <2> QED BY <2>1 DEF Snapshot
<1>4. ViewTypes'
  BY <1>0, <1>1, <1>2, <1>3 DEF ViewTypes
<1>5. CallTypes' /\ CallsBelong' /\ ViewBelongs'
  BY <1>0, <1>1 DEF CallTypes, Requests, Answers, CallsBelong, ViewBelongs, Belong, OneRun,
                    ShowsLines, runs
<1> QED BY <1>4, <1>5 DEF ScreenInv

LEMMA LinesStep ==
  ASSUME IInv, TakeLines
  PROVE  ScreenInv'
<1>0. RunsInv /\ CallTypes /\ CallsBelong /\ ViewTypes /\ ViewBelongs
  BY DEF IInv, ScreenInv
<1>1. PICK c \in calls : /\ c.at = "answered"
                         /\ view' = IF mode # "live" THEN view
                                    ELSE [view EXCEPT !.lines = c.lines, !.running = c.running]
                         /\ Ends(c)
  BY DEF TakeLines
<1>2. UNCHANGED <<runs, mode, status, crossed>>
  BY DEF TakeLines
<1>3. /\ c.task \in Tasks /\ c.kind \in ShowsLines /\ c.lines \in SUBSET Runs
      /\ c.running \in BOOLEAN /\ Belong(c.task, c.lines)
  BY <1>0, <1>1, CallFacts DEF CallsBelong
<1>4. CallTypes'
  BY <1>0, <1>1, FewerCalls DEF Ends
<1>5. CallsBelong'
  <2>1. PICK none : none = {}
    OBVIOUS
  <2> QED BY <1>0, <1>1, <1>2, <2>1, CallsStay DEF Ends
<1>6. /\ view'.task = view.task
      /\ mode = "live" => view'.lines = c.lines
      /\ view' \in [task : Tasks \cup {NoTask}, lines : SUBSET Runs, running : BOOLEAN]
  BY <1>0, <1>1, <1>3 DEF ViewTypes
<1>7. ViewTypes'
  BY <1>0, <1>2, <1>6 DEF ViewTypes
<1>8. ViewBelongs'
  <2>1. ASSUME mode = "live", ~crossed
        PROVE  Belong(view.task, view.lines)' /\ \A d \in calls' : d.kind \in ShowsLines => d.task = view'.task
    <3>1. PICK t, lines : t = c.task /\ lines = c.lines
      OBVIOUS
    <3>2. t = view'.task /\ lines = view'.lines
      BY <1>0, <1>3, <1>6, <2>1, <3>1 DEF ViewBelongs
    <3>3. Belong(t, lines)'
      BY <1>2, <1>3, <3>1, BelongStays
    <3>4. Belong(view.task, view.lines)'
      BY <3>2, <3>3 DEF Belong
    <3> QED BY <1>0, <1>1, <1>6, <2>1, <3>4 DEF ViewBelongs, Ends
  <2> QED BY <1>2, <2>1 DEF ViewBelongs, ShowsLines
<1> QED BY <1>4, <1>5, <1>7, <1>8 DEF ScreenInv

(* A request is made: for the task in view, if it is one for lines.        *)
LEMMA AskStep ==
  ASSUME IInv, UNCHANGED runs, NEW new \in Requests, Room({new}), calls' = calls \cup {new}
  PROVE  CallTypes' /\ CallsBelong' /\ new.at = "asked"
<1>1. CallTypes'
  BY CallAdded DEF IInv, ScreenInv
<1>2. new.at = "asked"
  BY DEF Requests, RunCall, OutputCall, LogsCall
<1>3. CallsBelong'
  <2>1. PICK more : more = {new}
    OBVIOUS
  <2>2. calls' \subseteq calls \cup more /\ \A c \in more : c.at # "answered"
    BY <1>2, <2>1
  <2> QED BY <2>2, CallsStay DEF IInv, ScreenInv
<1> QED BY <1>1, <1>2, <1>3

LEMMA PollStep ==
  ASSUME IInv, Tick
  PROVE  ScreenInv'
<1>0. ViewTypes /\ ViewBelongs /\ mode = "live" /\ view.task \in Tasks
  BY DEF IInv, ScreenInv, Tick, Polls, ViewTypes
<1>1. PICK new : new = OutputCall(view.task)
  OBVIOUS
<1>2. UNCHANGED <<runs, ui>> /\ Room({new}) /\ calls' = calls \cup {new}
  BY <1>1 DEF Tick
<1>3. new \in Requests /\ new.task = view.task
  BY <1>0, <1>1 DEF Requests, OutputCall
<1>4. CallTypes' /\ CallsBelong'
  BY <1>2, <1>3, AskStep
<1>5. ViewTypes'
  BY <1>0, <1>2 DEF ui, ViewTypes
<1>6. ViewBelongs'
  BY <1>0, <1>2, <1>3 DEF ui, runs, ViewBelongs, Belong, OneRun, ShowsLines
<1> QED BY <1>4, <1>5, <1>6 DEF ScreenInv

-----------------------------------------------------------------------------
(* The keys.  Opening a view notes whether an answer for another is due.   *)
LEMMA OpenStep ==
  ASSUME IInv, UNCHANGED runs, NEW t \in Tasks, OpenOutput(t) \/ OpenLogs(t)
  PROVE  ScreenInv'
<1>0. ViewTypes
  BY DEF IInv, ScreenInv
<1>1. PICK new \in {OutputCall(t), LogsCall(t)}, b \in BOOLEAN : OpenView(t, new, b)
  BY DEF OpenOutput, OpenLogs
<1>2. new \in Requests /\ new.task = t
  BY <1>1 DEF Requests, OutputCall, LogsCall
<1>3. /\ Room({new}) /\ calls' = calls \cup {new}
      /\ view' = [task |-> t, lines |-> {}, running |-> b]
      /\ crossed' = Awaited(t) /\ mode' = "live" /\ status' = status
  BY <1>1 DEF OpenView
<1>4. CallTypes' /\ CallsBelong'
  BY <1>2, <1>3, AskStep
<1>5. ViewTypes'
  BY <1>0, <1>3 DEF ViewTypes, Awaited
<1>6. ViewBelongs'
  BY <1>2, <1>3 DEF ViewBelongs, Belong, OneRun, Awaited, ShowsLines
<1> QED BY <1>4, <1>5, <1>6 DEF ScreenInv

(* Any other key leaves no view, or none that was not there.               *)
LEMMA ClosedStep ==
  ASSUME IInv, UNCHANGED runs, calls' \subseteq calls, mode' # "live", crossed' \in BOOLEAN,
         ViewTypes'
  PROVE  ScreenInv'
<1>1. CallTypes'
  BY FewerCalls DEF IInv, ScreenInv
<1>2. CallsBelong'
  <2>1. PICK none : none = {}
    OBVIOUS
  <2>2. calls' \subseteq calls \cup none /\ \A c \in none : c.at = "answered" => Belong(c.task, c.lines)
    BY <2>1
  <2> QED BY <2>2, CallsStay DEF IInv, ScreenInv
<1> QED BY <1>1, <1>2 DEF ScreenInv, ViewBelongs

LEMMA KeyStep ==
  ASSUME IInv, Key
  PROVE  ScreenInv'
<1>0. ViewTypes /\ UNCHANGED runs
  BY DEF IInv, ScreenInv, Key
<1>1. ASSUME mode = "view", status # <<>>, Quiet,
             mode' \in {"run", "select active", "select recent"}
      PROVE  ScreenInv'
  BY <1>0, <1>1, ClosedStep DEF Quiet, ViewTypes
<1>2. CASE KeyInView
  <2>1. mode = "view" /\ status # <<>>
    BY <1>2 DEF KeyInView
  <2>2. status.active \subseteq Tasks /\ status.recent \subseteq Tasks
    BY <1>0, <2>1 DEF ViewTypes
  <2>3. CASE Quiet /\ mode' \in {"run", "select active", "select recent"}
    BY <1>1, <2>1, <2>3
  <2>4. CASE \E t \in status.active : OpenOutput(t)
    BY <1>0, <2>2, <2>4, OpenStep
  <2>5. CASE \E t \in status.recent : OpenLogs(t)
    BY <1>0, <2>2, <2>5, OpenStep
  <2> QED BY <1>2, <2>3, <2>4, <2>5 DEF KeyInView
<1>3. CASE KeyInSelect
  <2>1. mode \in {"run", "select active", "select recent"}
    BY <1>3 DEF KeyInSelect
  <2>2. status.active \subseteq Tasks /\ status.recent \subseteq Tasks
    BY <1>0, <2>1 DEF ViewTypes
  <2>3. ASSUME NEW t \in Tasks, Room({RunCall(t)}), calls' = calls \cup {RunCall(t)},
               mode' = "view", UNCHANGED <<status, view, crossed>>
        PROVE  ScreenInv'
    <3>1. PICK new : new = RunCall(t)
      OBVIOUS
    <3>2. new \in Requests
      BY <3>1 DEF Requests
    <3>3. CallTypes' /\ CallsBelong'
      BY <1>0, <2>3, <3>1, <3>2, AskStep
    <3>4. ViewTypes'
      BY <1>0, <2>1, <2>3 DEF ViewTypes
    <3> QED BY <2>3, <3>3, <3>4 DEF ScreenInv, ViewBelongs
  <2>4. CASE \E t \in status.active : OpenOutput(t)
    BY <1>0, <2>2, <2>4, OpenStep
  <2>5. CASE \E t \in status.recent : OpenLogs(t)
    BY <1>0, <2>2, <2>5, OpenStep
  <2> QED BY <1>3, <2>3, <2>4, <2>5 DEF KeyInSelect
<1>4. CASE Escape
  <2>1. ViewTypes'
    BY <1>0, <1>4, TaskIsTask DEF Escape, NoView, ViewTypes
  <2> QED BY <1>0, <1>4, <2>1, ClosedStep DEF Escape
<1>5. CASE Restart
  <2>1. ViewTypes'
    BY <1>0, <1>5 DEF Restart, ViewTypes
  <2> QED BY <1>0, <1>5, <2>1, ClosedStep DEF Restart, ViewTypes
<1> QED BY <1>2, <1>3, <1>4, <1>5 DEF Key

-----------------------------------------------------------------------------
LEMMA InitHolds == Init => IInv
<1> SUFFICES ASSUME Init PROVE IInv
  OBVIOUS
<1>1. RunTypes
  BY DEF Init, RunTypes
<1>2. Dispatched /\ Buffered /\ InTurn
  <2>1. DOMAIN log = {} /\ \A r \in Runs : taskOf[r] = NoTask /\ stage[r] = "new"
    BY DEF Init
  <2>2. \A t \in Tasks : Entries(t) = {} /\ RunsOf(t) = {}
    BY <2>1, TaskIsTask DEF Entries, RunsOf
  <2> QED BY <2>1, <2>2 DEF Init, Dispatched, Buffered, InTurn
<1>3. CallTypes
  BY FS_EmptySet, ConsoleAssumption DEF Init, CallTypes
<1>4. CallsBelong /\ ViewBelongs
  BY DEF Init, CallsBelong, ViewBelongs
<1>5. ViewTypes
  BY TaskIsTask DEF Init, ViewTypes, NoView
<1> QED BY <1>1, <1>2, <1>3, <1>4, <1>5 DEF IInv, RunsInv, ScreenInv

LEMMA StepHolds == IInv /\ [Next]_vars => IInv'
<1> SUFFICES ASSUME IInv, [Next]_vars PROVE IInv'
  OBVIOUS
<1>0. RunsInv
  BY DEF IInv
<1>1. ASSUME calls' \subseteq calls, UNCHANGED ui,
             \/ \E r \in Runs, t \in Tasks : Started(r, t) \/ Retried(r, t)
             \/ \E r \in Runs : RunStep(r)
             \/ UNCHANGED runs
      PROVE  IInv'
  <2>1. RunsInv' /\ Kept
    BY <1>0, <1>1, RunsStep
  <2>2. ScreenInv'
    BY <1>1, <2>1, ScreenKept
  <2> QED BY <2>1, <2>2 DEF IInv
<1>2. ASSUME UNCHANGED runs, ScreenInv' PROVE IInv'
  BY <1>0, <1>2, RunsStep DEF IInv
<1>3. ASSUME NEW r \in Runs, Dispatch(r) \/ RunStep(r) PROVE IInv'
  BY <1>1, <1>3 DEF Dispatch, RunStep, Activate, Register, PrintLine, Deregister, Deactivate
<1>4. ASSUME NEW c \in calls, AnswerRun(c) \/ TakeError(c) \/ OutputTooLong(c) PROVE IInv'
  <2>1. calls' \subseteq calls /\ UNCHANGED ui
    BY <1>4 DEF AnswerRun, TakeError, OutputTooLong, Ends
  <2>2. CASE UNCHANGED runs
    BY <1>1, <2>1, <2>2
  <2>3. CASE AnswerRun(c) /\ ~UNCHANGED runs
    <3>1. c.task \in Tasks
      BY CallFacts DEF IInv, ScreenInv
    <3>2. \E r \in Runs : Started(r, c.task)
      BY <2>3 DEF AnswerRun
    <3> QED BY <1>1, <2>1, <3>1, <3>2
  <2> QED BY <1>4, <2>2, <2>3 DEF TakeError, OutputTooLong
<1>5. ASSUME NEW c \in calls, AnswerOutput(c) \/ AnswerLogs(c) PROVE IInv'
  BY <1>2, <1>5, AnswerStep DEF AnswerOutput, AnswerLogs
<1>6. CASE TakeStatus \/ TakeLines \/ Tick \/ Key
  BY <1>2, <1>6, StatusStep, LinesStep, PollStep, KeyStep DEF TakeStatus, TakeLines, Tick, Key
<1>7. CASE UNCHANGED vars
  BY <1>1, <1>7 DEF vars
<1> QED BY <1>3, <1>4, <1>5, <1>6, <1>7 DEF Next, AnswerLines

THEOREM Invariance == Spec => []IInv
BY InitHolds, StepHolds, PTL DEF Spec

(* Every variable keeps its type, the mode and the task in view agree, and *)
(* no more requests are under way than may be.                             *)
THEOREM TypeCorrect == Spec => []TypeOK
<1>1. IInv => TypeOK
  BY DEF IInv, RunsInv, RunTypes, Dispatched, ScreenInv, CallTypes, ViewTypes, TypeOK
<1> QED BY <1>1, Invariance, PTL

(* What the live view shows was printed by the task it names, and by one   *)
(* run of it, whatever the order in which answers arrive, runs end and     *)
(* keys are pressed, but for the cases the property excepts.               *)
THEOREM LinesBelong == Spec => []ShownLinesBelong
<1>1. ASSUME NEW S, OneRun(S) PROVE Cardinality(S) <= 1
  <2>1. CASE S = {}
    BY <2>1, FS_EmptySet
  <2>2. CASE S # {}
    <3>1. PICK x \in S : S = {x}
      BY <1>1, <2>2 DEF OneRun
    <3> QED BY <3>1, FS_Singleton
  <2> QED BY <2>1, <2>2
<1>2. IInv => ShownLinesBelong
  BY <1>1 DEF IInv, ScreenInv, ViewBelongs, Belong, ShownLinesBelong
<1> QED BY <1>2, Invariance, PTL
==================================================================================
