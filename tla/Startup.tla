-------------------------------- MODULE Startup --------------------------------
(***************************************************************************)
(* How the two processes of Jobflow come up: each loads its configuration,  *)
(* dials RabbitMQ until the broker answers or its attempts are used up,     *)
(* declares every queue and exchange of the service, connects to            *)
(* PostgreSQL, and serves. The server does the database first, the worker   *)
(* last; both run the same declarations against the same broker, in any     *)
(* order, while the broker boots or restarts and either process may die.    *)
(*                                                                          *)
(* Source: cmd/server, cmd/worker, internal/bootstrap, internal/config,     *)
(* internal/database, internal/rabbitmq (rabbitmqConnection, declareQueue,  *)
(* queues) and the head of consume.go.                                      *)
(*                                                                          *)
(* One tick is connectRetryDelay. redis.NewRedis opens no connection and    *)
(* cannot fail, so it is no step. The life of a server that serves is in    *)
(* ServerLink, that of a worker in WorkerShutdown.                          *)
(***************************************************************************)
EXTENDS Integers, Sequences

CONSTANTS
    Server, Worker,      \* the two processes
    ConnectMaxAttempts,  \* connectMaxAttempts
    BootTicks,           \* bound: the longest boot of the broker
    MaxFaults            \* bound: how many faults one behaviour may contain

ASSUME StartupAssumption ==
    /\ Server # Worker
    /\ ConnectMaxAttempts \in Nat \ {0}
    /\ BootTicks \in Nat
    /\ BootTicks < ConnectMaxAttempts
    /\ MaxFaults \in Nat

VARIABLES
    boot,      \* ticks until the broker accepts connections
    declared,  \* the broker's durable queues, exchanges and bindings
    stage,     \* where a process is in its main
    attempt,   \* the dial loop's counter
    step,      \* InitializeQueues: the next declaration
    link,      \* the AMQP connection of a process
    ending,    \* what a process died of
    unlucky,   \* ghost: processes that met a second outage while dialling
    budget     \* faults still allowed

vars == <<boot, declared, stage, attempt, step, link, ending, unlucky, budget>>

Processes == {Server, Worker}

\* AppQueues in order, and for the jobs queue, the only one with UseDelayedExchange, its
\* exchange and the binding between the two.
AppQueues == <<"sms", "pushNotification", "reportGeneration", "jobs", "jobs.delayed",
               "jobs.binding">>

\* What a message published to the delayed exchange needs to reach the jobs queue.
JobsRoute == {"jobs", "jobs.delayed", "jobs.binding"}

Stages == {"off", "database", "dial", "asleep", "channel", "declare", "consume",
           "serving", "exited"}

TypeOK ==
    /\ boot \in 0..BootTicks
    /\ declared \subseteq {AppQueues[i] : i \in DOMAIN AppQueues}
    /\ stage \in [Processes -> Stages]
    /\ attempt \in [Processes -> 1..ConnectMaxAttempts]
    /\ step \in [Processes -> DOMAIN AppQueues]
    /\ link \in [Processes -> {"none", "open", "closed"}]
    /\ ending \in [Processes -> {"none", "config", "database", "dial", "amqp"}]
    /\ unlucky \subseteq Processes
    /\ budget \in 0..MaxFaults

Init ==
    /\ boot \in 0..BootTicks
    /\ declared = {}
    /\ stage = [p \in Processes |-> "off"]
    /\ attempt = [p \in Processes |-> 1]
    /\ step = [p \in Processes |-> 1]
    /\ link = [p \in Processes |-> "none"]
    /\ ending = [p \in Processes |-> "none"]
    /\ unlucky = {}
    /\ budget = MaxFaults

Fault == budget > 0 /\ budget' = budget - 1

\* The order of main: bootstrap.New connects to the database first, the worker's main
\* after the broker.
After(p) ==
    IF p = Server
      THEN [off |-> "database", database |-> "dial", declare |-> "serving"]
      ELSE [off |-> "dial", declare |-> "database", database |-> "consume"]

Proceed(p, to) == stage' = [stage EXCEPT ![p] = to] /\ UNCHANGED ending

\* log.Fatalf: the process is gone and its connection with it.
Exit(p, reason) ==
    /\ stage' = [stage EXCEPT ![p] = "exited"]
    /\ link' = [link EXCEPT ![p] = "none"]
    /\ ending' = [ending EXCEPT ![p] = reason]

--------------------------------------------------------------------------------

\* config.Load: a missing required key is fatal.
Load(p) ==
    /\ stage[p] = "off"
    /\ \/ Proceed(p, After(p).off) /\ UNCHANGED <<link, budget>>
       \/ Fault /\ Exit(p, "config")
    /\ UNCHANGED <<boot, declared, attempt, step, unlucky>>

\* ConnectDB pings once; there is no second attempt.
ConnectDB(p) ==
    /\ stage[p] = "database"
    /\ \/ Proceed(p, After(p).database) /\ UNCHANGED <<link, budget>>
       \/ Fault /\ Exit(p, "database")
    /\ UNCHANGED <<boot, declared, attempt, step, unlucky>>

\* amqp.Dial, in the loop of NewRabbitMQConnection. It is refused while the broker boots,
\* and may be refused for another reason.
Dial(p) ==
    /\ stage[p] = "dial"
    /\ \/ /\ boot = 0
          /\ Proceed(p, "channel")
          /\ link' = [link EXCEPT ![p] = "open"]
          /\ UNCHANGED <<unlucky, budget>>
       \/ /\ boot > 0
          /\ Proceed(p, "asleep")
          /\ UNCHANGED <<link, unlucky, budget>>
       \/ /\ boot = 0
          /\ Fault
          /\ Proceed(p, "asleep")
          /\ unlucky' = unlucky \cup {p}
          /\ UNCHANGED link
    /\ UNCHANGED <<boot, declared, attempt, step>>

\* Mutant: the loop ends one attempt too early.
LastAttempt_TooEarly(p) == attempt[p] >= ConnectMaxAttempts - 1

\* Mutant: the loop has no end.
LastAttempt_Never(p) == attempt[p] < 0

\* The loop's condition.
LastAttempt(p) == attempt[p] = ConnectMaxAttempts

\* connectRetryDelay has passed: the broker's boot goes on, and those who slept dial again
\* or give up. The loop sleeps after its last attempt too.
Tick ==
    /\ boot > 0 \/ \E p \in Processes : stage[p] = "asleep"
    /\ boot' = IF boot > 0 THEN boot - 1 ELSE 0
    /\ LET over == {p \in Processes : stage[p] = "asleep" /\ LastAttempt(p)}
           again == {p \in Processes : stage[p] = "asleep"} \ over IN
       /\ stage' = [p \in Processes |-> CASE p \in over -> "exited"
                                          [] p \in again -> "dial"
                                          [] OTHER -> stage[p]]
       /\ attempt' = [p \in Processes |-> IF p \in again THEN attempt[p] + 1 ELSE attempt[p]]
       /\ ending' = [p \in Processes |-> IF p \in over THEN "dial" ELSE ending[p]]
    /\ UNCHANGED <<declared, step, link, unlucky, budget>>

\* conn.Channel and ch.Confirm; both need the connection.
OpenChannel(p) ==
    /\ stage[p] = "channel"
    /\ IF link[p] = "open" THEN Proceed(p, "declare") /\ UNCHANGED link ELSE Exit(p, "amqp")
    /\ UNCHANGED <<boot, declared, attempt, step, unlucky, budget>>

\* Mutant: the exchange is not durable; its bindings go with it.
Durable_NoExchange(d) == d \notin {"jobs.delayed", "jobs.binding"}

\* Every entry of AppQueues, and the exchange, are declared durable.
Durable(d) == TRUE

\* Mutant: a queue or exchange that exists already is an error.
Declarable_Once(p) == link[p] = "open" /\ AppQueues[step[p]] \notin declared

\* QueueBind closes the channel when its queue or its exchange does not exist.
Declarable(p) ==
    /\ link[p] = "open"
    /\ AppQueues[step[p]] = "jobs.binding" => {"jobs", "jobs.delayed"} \subseteq declared

\* InitializeQueues, one declaration after the other; the first error is fatal.
InitializeQueues(p) ==
    /\ stage[p] = "declare"
    /\ \/ /\ Declarable(p)
          /\ declared' = declared \cup {AppQueues[step[p]]}
          /\ IF step[p] = Len(AppQueues)
               THEN Proceed(p, After(p).declare) /\ UNCHANGED step
               ELSE /\ step' = [step EXCEPT ![p] = @ + 1]
                    /\ UNCHANGED <<stage, ending>>
          /\ UNCHANGED link
       \/ /\ ~Declarable(p)
          /\ Exit(p, "amqp")
          /\ UNCHANGED <<declared, step>>
    /\ UNCHANGED <<boot, attempt, unlucky, budget>>

\* Worker.Start: Consume opens its channels and registers on the jobs queue.
Consume(p) ==
    /\ stage[p] = "consume"
    /\ IF link[p] = "open" /\ "jobs" \in declared
         THEN Proceed(p, "serving") /\ UNCHANGED link
         ELSE Exit(p, "amqp")
    /\ UNCHANGED <<boot, declared, attempt, step, unlucky, budget>>

\* The broker restarts: what is durable is there again, every connection is lost, and
\* neither process dials a second time.
BrokerRestarts ==
    /\ boot = 0
    /\ Fault
    /\ boot' \in 0..BootTicks
    /\ declared' = {d \in declared : Durable(d)}
    /\ link' = [p \in Processes |-> IF link[p] = "open" THEN "closed" ELSE link[p]]
    /\ unlucky' = unlucky \cup {p \in Processes : stage[p] \in {"dial", "asleep"}}
    /\ UNCHANGED <<stage, attempt, step, ending>>

\* A process is killed, or dead already, and started again.
Restart(p) ==
    /\ stage[p] # "off"
    /\ Fault
    /\ stage' = [stage EXCEPT ![p] = "off"]
    /\ attempt' = [attempt EXCEPT ![p] = 1]
    /\ step' = [step EXCEPT ![p] = 1]
    /\ link' = [link EXCEPT ![p] = "none"]
    /\ ending' = [ending EXCEPT ![p] = "none"]
    /\ unlucky' = unlucky \ {p}
    /\ UNCHANGED <<boot, declared>>

Booting(p) ==
    Load(p) \/ ConnectDB(p) \/ Dial(p) \/ OpenChannel(p) \/ InitializeQueues(p) \/ Consume(p)

Next ==
    \/ Tick
    \/ \E p \in Processes : Booting(p) \/ Restart(p)
    \/ BrokerRestarts

Spec == Init /\ [][Next]_vars

\* A process that is started goes on, and time passes.
FairSpec == Spec /\ WF_vars(Tick) /\ \A p \in Processes : WF_vars(Booting(p))

--------------------------------------------------------------------------------
(* Properties. *)

\* The attempts of the dial loop outlast the boot of the broker: a process gives up only if
\* the broker restarted while it was dialling, or refused it after its boot.
PatientEnough == \A p \in Processes : ending[p] = "dial" => p \in unlucky

\* Whoever is past InitializeQueues finds the queue, the exchange and the binding in place,
\* so that no publish is confirmed and dropped for want of a route and no Consume fails,
\* whichever process declared them, in whatever order the two were started, died half way
\* and were started again around restarts of the broker.
RouteDeclared ==
    \A p \in Processes :
        stage[p] \in {"consume", "serving"} => JobsRoute \subseteq declared

\* Neither process dials again when it has lost its connection, but starting it again is a
\* cure: once the faults are over, a process that is started ends up serving with an open
\* connection, though the broker still boots and earlier lives left half of the
\* declarations behind.
RestartCures ==
    \A p \in Processes :
        stage[p] = "off" /\ budget = 0 ~> stage[p] = "serving" /\ link[p] = "open"
================================================================================
