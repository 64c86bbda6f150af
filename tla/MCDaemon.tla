--------------------------------- MODULE MCDaemon ---------------------------------
(***************************************************************************)
(* The daemon for TLC: two processes, and files of which each that is      *)
(* refused is refused by one check only.                                   *)
(***************************************************************************)
EXTENDS Daemon

MCDaemons == {"d", "e"}

Task(id, dependsOn) == [id |-> id, dependsOn |-> dependsOn, schedule |-> "",
                        timeout |-> Unset, maxRetries |-> Unset]

Doc(workflows, standalone) ==
  [zone |-> "", workingDir |-> "", workerSlots |-> 0, maxRetries |-> 0, retryDelay |-> 0,
   timeout |-> 0, workflows |-> workflows, standalone |-> standalone]

Chain == Doc(<<[schedule |-> "cron", tasks |-> <<Task(1, Unset), Task(2, 1), Task(3, 2)>>]>>,
             <<Task(4, Unset)>>)

MCContent == [
  empty |-> Doc(<<>>, <<>>),
  half |-> Unparsable,
  chain |-> Chain,
  cycle |-> [Chain EXCEPT !.workflows[1].tasks[2].dependsOn = 3],
  orphan |-> [Chain EXCEPT !.workflows[1].tasks[3].dependsOn = 9],
  double |-> [Chain EXCEPT !.standalone[1].id = 1]
]
===================================================================================
