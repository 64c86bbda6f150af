---------------------------------- MODULE Daemon ----------------------------------
(***************************************************************************)
(* The daemon process: runDaemon (src/main.go), the socket of its status   *)
(* server (src/status.go) and its configuration, loaded when it starts and *)
(* reloaded by the watcher (src/config.go).                                *)
(*                                                                         *)
(* There may be several daemons, as a supervisor and an operator start     *)
(* them: they share the path of the socket and the configuration file, and *)
(* nothing else.  What the scheduler does with a configuration is in       *)
(* Scheduler; the jobs that Shutdown waits for are in WorkerPool.          *)
(***************************************************************************)
EXTENDS Integers, FiniteSets, ConfigCheck

CONSTANTS Daemons,     \* the processes
          Content,     \* Content[n]: the document that the file n holds
          Empty, Half, \* the files an editor leaves before it has finished
          NoDoc,       \* "none"
          NoFile,      \* nothing at the socket's path
          StaleFile,   \* the socket of a process that is gone
          MaxStarts,   \* starts of a daemon in all
          MaxWrites    \* edits of the configuration file in all

ASSUME DaemonAssumption ==
  /\ {NoFile, StaleFile} \cap Daemons = {} /\ NoFile # StaleFile
  /\ {MaxStarts, MaxWrites} \subseteq Nat
  /\ {Empty, Half} \subseteq DOMAIN Content /\ NoDoc \notin DOMAIN Content
  /\ \A n \in DOMAIN Content : Content[n] # Unparsable => IsDocument(Content[n])

Files == DOMAIN Content
Accepted == {n \in Files : Accepts(Content[n])}
Loaded(n) == WithDefaults(Content[n])

VARIABLES
  stage,       \* stage[d]: how far the process has come, see Stages
  path,        \* whose socket is at the path: a daemon, StaleFile or NoFile
  file,        \* what the configuration file holds
  writing,     \* what an editor is writing into it, or NoDoc
  inForce,     \* inForce[d]: the file whose configuration d runs with
  watch,       \* watch[d]: "off", "on", or "lost" with the inode it was set on
  event,       \* event[d]: an event waits in the watcher's channel
  armed,       \* armed[d]: the debounce timer runs
  loading,     \* loading[d]: what a reload read and has not applied, or NoDoc
  starts, writes,  \* how many there were
  overlapped   \* history: two daemons were at the path at once

process == <<stage, path, overlapped, starts>>
document == <<file, writing, writes>>
reload == <<inForce, watch, event, armed, loading>>
vars == <<process, document, reload>>

(* In order: LoadConfig done; a file found at the path; the dial refused;  *)
(* nothing at the path; bound; listening; serving, its permissions set;    *)
(* running, with a watcher; and on a signal: the watcher closing, closed;  *)
(* the listener closed; the path removed, the jobs draining.               *)
Starting == {"loaded", "found", "stale", "free", "bound", "listening", "serving"}
Stopping == {"closing", "closed", "unlinked", "draining"}
Stages == {"down", "running"} \cup Starting \cup Stopping

Listening == {"listening", "serving", "running", "closing", "closed"}

(* Between looking at the path and having a socket there, and between the  *)
(* two removals of Stop.                                                   *)
AtThePath == {"found", "stale", "free", "bound", "listening", "unlinked"}

-----------------------------------------------------------------------------
Init == /\ stage = [d \in Daemons |-> "down"]
        /\ path \in {NoFile, StaleFile}
        /\ file \in Files \ {Half}
        /\ writing = NoDoc
        /\ inForce = [d \in Daemons |-> NoDoc]
        /\ watch = [d \in Daemons |-> "off"]
        /\ event = [d \in Daemons |-> FALSE]
        /\ armed = [d \in Daemons |-> FALSE]
        /\ loading = [d \in Daemons |-> NoDoc]
        /\ starts = 0 /\ writes = 0
        /\ overlapped = FALSE

-----------------------------------------------------------------------------
(* runDaemon, up to the status server.                                     *)
Moves(d, from, to) ==
  /\ stage[d] = from
  /\ stage' = [stage EXCEPT ![d] = to]
  /\ overlapped' =
       \/ overlapped
       \/ /\ to \in AtThePath
          /\ \E e \in Daemons \ {d} : stage[e] \in AtThePath

Kept == UNCHANGED <<document, reload>>

Load(d) == /\ starts < MaxStarts /\ starts' = starts + 1
           /\ file \in Accepted
           /\ Moves(d, "down", "loaded")
           /\ inForce' = [inForce EXCEPT ![d] = file]
           /\ UNCHANGED <<path, document, watch, event, armed, loading>>

(* The process is gone, and what it held.  Its socket file stays.          *)
Gone(d) == /\ stage' = [stage EXCEPT ![d] = "down"]
           /\ inForce' = [inForce EXCEPT ![d] = NoDoc]
           /\ watch' = [watch EXCEPT ![d] = "off"]
           /\ event' = [event EXCEPT ![d] = FALSE]
           /\ armed' = [armed EXCEPT ![d] = FALSE]
           /\ loading' = [loading EXCEPT ![d] = NoDoc]
           /\ UNCHANGED <<document, starts, overlapped>>

(* Slip: the file is taken for a stale one, whoever listens.               *)
FindStale(d) == Moves(d, "loaded", IF path = NoFile THEN "free" ELSE "stale")
                /\ UNCHANGED <<path, starts>>

(* StatusServer.Start: is there a file, and does anybody answer?           *)
Find(d) == Moves(d, "loaded", IF path = NoFile THEN "free" ELSE "found")
           /\ UNCHANGED <<path, starts>>

Answers(p) == p \in Daemons /\ stage[p] \in Listening

Dial(d) == /\ ~Answers(path)
           /\ Moves(d, "found", "stale")
           /\ UNCHANGED <<path, starts>>

AlreadyRunning(d) == stage[d] = "found" /\ Answers(path) /\ Gone(d) /\ UNCHANGED path

RemoveStale(d) == Moves(d, "stale", "free") /\ path' = NoFile /\ UNCHANGED starts

(* net.Listen: bind, which makes the file and fails if there is one, and   *)
(* listen.  Then the permissions, of whatever is at the path.              *)
Bind(d) == /\ path = NoFile
           /\ Moves(d, "free", "bound")
           /\ path' = d /\ UNCHANGED starts

BindFails(d) == stage[d] = "free" /\ path # NoFile /\ Gone(d) /\ UNCHANGED path

Listen(d) == Moves(d, "bound", "listening") /\ UNCHANGED <<path, starts>>

Chmod(d) == path # NoFile /\ Moves(d, "listening", "serving") /\ UNCHANGED <<path, starts>>

(* Slip: the error return leaves the file.                                 *)
ChmodFailsOnly(d) == stage[d] = "listening" /\ Gone(d) /\ UNCHANGED path

ChmodFails(d) == stage[d] = "listening" /\ Gone(d) /\ path' = NoFile

(* The watcher, if there can be one; then the scheduler and the signals.   *)
Watch(d) == /\ Moves(d, "serving", "running")
            /\ \E w \in {"on", "off"} : watch' = [watch EXCEPT ![d] = w]
            /\ UNCHANGED <<path, starts, document, inForce, event, armed, loading>>

(* A signal: ConfigWatcher.Close waits for the loop, which is not in the   *)
(* middle of a reload then; Stop closes the listener, which removes what   *)
(* is at the path, and removes it again; Shutdown waits for the jobs.      *)
Signal(d) == Moves(d, "running", "closing") /\ UNCHANGED <<path, starts>>

CloseWatcher(d) == /\ loading[d] = NoDoc
                   /\ Moves(d, "closing", "closed")
                   /\ watch' = [watch EXCEPT ![d] = "off"]
                   /\ event' = [event EXCEPT ![d] = FALSE]
                   /\ armed' = [armed EXCEPT ![d] = FALSE]
                   /\ UNCHANGED <<path, starts, document, inForce, loading>>

CloseListener(d) == Moves(d, "closed", "unlinked") /\ path' = NoFile /\ UNCHANGED starts

RemovePath(d) == Moves(d, "unlinked", "draining") /\ path' = NoFile /\ UNCHANGED starts

Drained(d) == stage[d] = "draining" /\ Gone(d) /\ UNCHANGED path

(* Killed, or a signal before they are handled.                            *)
Crash(d) == /\ stage[d] # "down"
            /\ Gone(d)
            /\ path' = IF path = d THEN StaleFile ELSE path

(* What main does next, unless it waits for a signal.                      *)
Process(d) == \/ /\ \/ Find(d) \/ Dial(d) \/ RemoveStale(d) \/ Bind(d) \/ Listen(d) \/ Chmod(d)
                    \/ CloseListener(d) \/ RemovePath(d)
                 /\ Kept
              \/ AlreadyRunning(d) \/ BindFails(d) \/ ChmodFails(d)
              \/ Watch(d) \/ CloseWatcher(d) \/ Drained(d)

-----------------------------------------------------------------------------
(* The configuration file.  An editor writes it in place, which empties it *)
(* first and may leave half of it to be read, or puts another file in its  *)
(* place, whose events go to no watcher set before.                        *)
Notify == event' = [d \in Daemons |-> event[d] \/ watch[d] = "on"]

BeginWrite == /\ writes < MaxWrites /\ writes' = writes + 1
              /\ writing = NoDoc /\ writing' \in Files \ {Half}
              /\ file' \in {Empty, Half}
              /\ Notify
              /\ UNCHANGED <<process, inForce, watch, armed, loading>>

FinishWrite == /\ writing # NoDoc /\ writing' = NoDoc
               /\ file' = writing
               /\ Notify
               /\ UNCHANGED <<process, writes, inForce, watch, armed, loading>>

Replace == /\ writes < MaxWrites /\ writes' = writes + 1
           /\ writing = NoDoc
           /\ file' \in Files \ {Half}
           /\ watch' = [d \in Daemons |-> IF watch[d] = "on" THEN "lost" ELSE watch[d]]
           /\ UNCHANGED <<process, writing, inForce, event, armed, loading>>

(* ConfigWatcher.loop: an event starts the debounce timer again; when it   *)
(* fires, the file is read, and applied if it is accepted.                 *)
Looping(d) == stage[d] \in {"running", "closing"} /\ watch[d] # "off" /\ loading[d] = NoDoc

HandleEvent(d) == /\ Looping(d) /\ event[d]
                  /\ event' = [event EXCEPT ![d] = FALSE]
                  /\ armed' = [armed EXCEPT ![d] = TRUE]
                  /\ UNCHANGED <<process, document, inForce, watch, loading>>

Debounced(d) == /\ Looping(d) /\ armed[d]
                /\ armed' = [armed EXCEPT ![d] = FALSE]
                /\ loading' = [loading EXCEPT ![d] = file]
                /\ UNCHANGED <<process, document, inForce, watch, event>>

(* Slip: the loop returns after a file that is not accepted.               *)
ApplyOrReturn(d) ==
  /\ loading[d] # NoDoc /\ loading' = [loading EXCEPT ![d] = NoDoc]
  /\ IF loading[d] \in Accepted
     THEN inForce' = [inForce EXCEPT ![d] = loading[d]] /\ UNCHANGED watch
     ELSE watch' = [watch EXCEPT ![d] = "off"] /\ UNCHANGED inForce
  /\ UNCHANGED <<process, document, event, armed>>

(* Slip: a reload is handed to main, which waits for the loop by now.      *)
ApplyByMain(d) ==
  /\ stage[d] = "running"
  /\ loading[d] # NoDoc /\ loading' = [loading EXCEPT ![d] = NoDoc]
  /\ inForce' = IF loading[d] \in Accepted
                THEN [inForce EXCEPT ![d] = loading[d]] ELSE inForce
  /\ UNCHANGED <<process, document, watch, event, armed>>

Apply(d) == /\ loading[d] # NoDoc /\ loading' = [loading EXCEPT ![d] = NoDoc]
            /\ inForce' = IF loading[d] \in Accepted
                          THEN [inForce EXCEPT ![d] = loading[d]] ELSE inForce
            /\ UNCHANGED <<process, document, watch, event, armed>>

(* One goroutine: of an event and a timer that are both there, its select  *)
(* takes either.                                                           *)
Loop(d) == HandleEvent(d) \/ Debounced(d) \/ Apply(d)

-----------------------------------------------------------------------------
Next == \/ \E d \in Daemons : \/ Load(d) \/ Process(d) \/ Crash(d)
                              \/ Signal(d) /\ Kept
                              \/ Loop(d)
        \/ BeginWrite \/ FinishWrite \/ Replace

Spec == Init /\ [][Next]_vars

(* The goroutines of main and of the loop run, jobs end (see WorkerPool),  *)
(* and nobody stops in the middle of an edit.                              *)
Fairness == /\ \A d \in Daemons : WF_vars(Process(d)) /\ WF_vars(Loop(d))
            /\ WF_vars(FinishWrite)

FairSpec == Spec /\ Fairness

-----------------------------------------------------------------------------
TypeOK == /\ stage \in [Daemons -> Stages]
          /\ path \in Daemons \cup {StaleFile, NoFile}
          /\ path \in Daemons => stage[path] \in Listening \cup {"bound"}
          /\ file \in Files /\ writing \in Files \cup {NoDoc}
          /\ \A d \in Daemons : inForce[d] \in IF stage[d] = "down" THEN {NoDoc} ELSE Files
          /\ watch \in [Daemons -> {"off", "on", "lost"}]
          /\ {event, armed} \subseteq [Daemons -> BOOLEAN]
          /\ \A d \in Daemons : event[d] \/ armed[d] \/ loading[d] # NoDoc =>
                                  stage[d] \in {"running", "closing"}
          /\ starts \in 0..MaxStarts /\ writes \in 0..MaxWrites
          /\ overlapped \in BOOLEAN

(* Whatever somebody writes to the file, and however much of it is there   *)
(* when it is read, a daemon runs with a configuration whose workflows can *)
(* be carried out: checkDAGCycles and the other checks let nothing else    *)
(* by, at the start and at every reload.                                   *)
InForceIsSound == \A d \in Daemons : stage[d] # "down" => IsSound(Loaded(inForce[d]))

(* One daemon answers at the path, and a daemon that listens is the one    *)
(* that answers there, unless two were starting or stopping at the same    *)
(* time: Start and Stop look at the path and change it in separate steps.  *)
OneDaemonServes ==
  ~overlapped => \A d \in Daemons : stage[d] \in Listening => path = d

(* A daemon that got its signal ends, whatever its watcher is doing.       *)
StopEnds == \A d \in Daemons : stage[d] = "closing" ~> stage[d] = "down"

(* An edit in place that a running daemon was told of takes effect: the    *)
(* reloads come to rest, and what the editor left in the file is in force  *)
(* then, or refused, unless the daemon ends.  However fast the edits       *)
(* follow each other and whatever a reload read in the middle of one, the  *)
(* last is not lost to the debounce.  Once the file was replaced by        *)
(* another, the watcher hears of nothing any more, and this may fail.      *)
Reloading(d) == event[d] \/ armed[d] \/ loading[d] # NoDoc

EditTakesEffect ==
  \A d \in Daemons :
    Reloading(d) ~>
      \/ stage[d] # "running"
      \/ watch[d] = "lost"
      \/ /\ ~Reloading(d) /\ writing = NoDoc
         /\ file \notin Accepted \/ inForce[d] = file
===================================================================================
