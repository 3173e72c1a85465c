---------------------------- MODULE MCKeyedStep -----------------------------
(* Instances of KeyedStep for TLC. *)
EXTENDS KeyedStep

CONSTANTS w1, w2, a, b

MCWorkers == {w1, w2}
MCKeys == {a, b}
MCWorkerOf == (a :> w1) @@ (b :> w2)

Flow(logic, interval, endless, script1, script2) ==
  [logic |-> logic, timeout |-> 1, max_size |-> 2, interval |-> interval,
   endless |-> endless, script |-> (w1 :> script1) @@ (w2 :> script2)]

(* Lists that fill up, time out and are flushed at EOF; epochs as short as  *)
(* a poll and longer than the run, so that only timers wake the step;       *)
(* sources that end, idle for good and abort.                               *)
MCConfigs ==
  { Flow("collect", 0, FALSE, <<a, a>>, <<b>>),
    Flow("collect", 1, TRUE, <<a, b>>, <<>>),
    Flow("collect", 3, TRUE, <<a>>, <<b>>),
    Flow("fold_final", 1, FALSE, <<a, b>>, <<Idle, a>>),
    Flow("fold_final", 0, FALSE, <<a>>, <<a, Abort>>) }

MCWithdrawn == {Flow("alarm", 1, TRUE, <<a, Idle, a>>, <<>>)}
=============================================================================
