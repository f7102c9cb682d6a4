----------------------------- MODULE MCContext -----------------------------
(* Instances of Context for TLC. *)
EXTENDS Context

MCNeeds ==
  [k \in Keys |-> CASE k = "resolver" -> {"scheduler"}
                    [] k = "reactor" -> {"scheduler"}
                    [] k = "sockets" -> {"scheduler", "reactor"}
                    [] k = "scheduler" -> {}]

Program(pool, poolThreads, users, keys, ops, calls) ==
  [pool |-> pool, threads |-> poolThreads, users |-> users, keys |-> keys,
   ops |-> ops, calls |-> calls]

\* Two threads that make services at the same time.
Services ==
  Program(FALSE, {}, Users, Keys, {}, {"destroy"})

\* A pool with two threads, or with none, to which users attach.
Pool ==
  Program(TRUE, PoolThreads, {1}, {"resolver"}, Ops,
          {"run", "join", "wait", "stop", "destroy"})
Attached ==
  Program(TRUE, {}, Users, {"resolver"}, Ops \ {"o2"}, {"run", "wait", "destroy"})

\* An io_context whose users run it, and that forks.
IoContext ==
  Program(FALSE, {}, Users, {"resolver"}, Ops, {"run", "fork", "destroy"})

MCPrograms == {Services, Pool, Attached, IoContext}
============================================================================
