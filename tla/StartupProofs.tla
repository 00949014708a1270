----------------------------- MODULE StartupProofs -----------------------------
(***************************************************************************)
(* Proofs about Startup, for every number of connection attempts that is    *)
(* larger than the longest boot of the broker: the types, that a process    *)
(* gives up dialling only after a second outage, and that whoever serves    *)
(* has its route in the broker.                                             *)
(*                                                                          *)
(* PatientEnough needs what the attempts already made and the boot that is  *)
(* left have to do with each other (DialInv); RouteDeclared needs that a    *)
(* process has declared everything before its next declaration (StepInv).   *)
(***************************************************************************)
EXTENDS Startup, TLAPS

\* AppQueues, entry by entry.
LEMMA QueueFacts ==
    /\ Len(AppQueues) = 6
    /\ DOMAIN AppQueues = 1..6
    /\ AppQueues[1] = "sms"
    /\ AppQueues[2] = "pushNotification"
    /\ AppQueues[3] = "reportGeneration"
    /\ AppQueues[4] = "jobs"
    /\ AppQueues[5] = "jobs.delayed"
    /\ AppQueues[6] = "jobs.binding"
  BY DEF AppQueues

\* The order of the two mains.
LEMMA AfterFacts ==
    ASSUME NEW p \in Processes
    PROVE  /\ p = Server => /\ After(p).off = "database"
                            /\ After(p).database = "dial"
                            /\ After(p).declare = "serving"
           /\ p # Server => /\ After(p).off = "dial"
                            /\ After(p).declare = "database"
                            /\ After(p).database = "consume"
  BY DEF After

\* Before its declarations a process dials for the first time, or has dialled no more often
\* than the boot has taken so far; asleep, it knows that the boot is not over.
DialInv ==
    \A p \in Processes :
        /\ stage[p] = "off" \/ (stage[p] = "database" /\ p = Server) => attempt[p] = 1
        /\ stage[p] \in {"dial", "asleep"} /\ p \notin unlucky =>
               attempt[p] - 1 + boot <= BootTicks
        /\ stage[p] = "asleep" /\ p \notin unlucky => boot > 0

\* Past InitializeQueues.
Past(p) == stage[p] \in {"consume", "serving"} \/ (stage[p] = "database" /\ p # Server)

\* What a process has declared before is in the broker, all of it once it is past that.
StepInv ==
    \A p \in Processes :
        /\ stage[p] \in {"off", "dial", "asleep", "channel"} => step[p] = 1
        /\ stage[p] = "database" /\ p = Server => step[p] = 1
        /\ stage[p] = "declare" => \A i \in DOMAIN AppQueues : i < step[p] => AppQueues[i] \in declared
        /\ Past(p) => \A i \in DOMAIN AppQueues : AppQueues[i] \in declared

SInv == TypeOK /\ DialInv /\ PatientEnough /\ StepInv

LEMMA InitInv == Init => SInv
  BY StartupAssumption, QueueFacts
  DEF Init, SInv, TypeOK, DialInv, PatientEnough, StepInv, Past, Stages, Processes

\* Only the process itself, and its stage, connection and ending, are touched.
LEMMA LoadInv ==
    ASSUME SInv, NEW p \in Processes, Load(p) \/ ConnectDB(p)
    PROVE  SInv'
  <1> USE DEF SInv
  <1>1. UNCHANGED <<boot, declared, attempt, step, unlucky>>
    BY DEF Load, ConnectDB
  <1>2. stage[p] \in {"off", "database"}
    BY DEF Load, ConnectDB
  <1>3. budget' \in 0..MaxFaults
    BY StartupAssumption DEF Load, ConnectDB, Fault, TypeOK
  <1>4. CASE Exit(p, "config") \/ Exit(p, "database")
    <2>1. TypeOK'
      BY <1>1, <1>3, <1>4 DEF TypeOK, Exit, Stages
    <2>2. DialInv' /\ PatientEnough'
      BY <1>1, <1>4 DEF TypeOK, Exit, DialInv, PatientEnough
    <2>3. StepInv'
      BY <1>1, <1>4 DEF TypeOK, Exit, StepInv, Past
    <2> QED
      BY <2>1, <2>2, <2>3
  <1>5. CASE /\ stage[p] = "off"
             /\ Proceed(p, After(p).off)
             /\ UNCHANGED link
    <2>1. stage' = [stage EXCEPT ![p] = IF p = Server THEN "database" ELSE "dial"]
      BY <1>5, AfterFacts DEF Proceed
    <2>2. TypeOK'
      BY <1>1, <1>3, <1>5, <2>1 DEF TypeOK, Proceed, Stages
    <2>3. DialInv' /\ PatientEnough'
      BY <1>1, <1>5, <2>1 DEF TypeOK, Proceed, DialInv, PatientEnough
    <2>4. StepInv'
      BY <1>1, <1>5, <2>1 DEF TypeOK, StepInv, Past
    <2> QED
      BY <2>2, <2>3, <2>4
  <1>6. CASE /\ stage[p] = "database"
             /\ Proceed(p, After(p).database)
             /\ UNCHANGED link
    <2>1. stage' = [stage EXCEPT ![p] = IF p = Server THEN "dial" ELSE "consume"]
      BY <1>6, AfterFacts DEF Proceed
    <2>2. TypeOK'
      BY <1>1, <1>3, <1>6, <2>1 DEF TypeOK, Proceed, Stages
    <2>3. DialInv' /\ PatientEnough'
      BY <1>1, <1>6, <2>1 DEF TypeOK, Proceed, DialInv, PatientEnough
    <2>4. StepInv'
      BY <1>1, <1>6, <2>1 DEF TypeOK, StepInv, Past
    <2> QED
      BY <2>2, <2>3, <2>4
  <1> QED
    BY <1>4, <1>5, <1>6 DEF Load, ConnectDB

LEMMA DialStepInv ==
    ASSUME SInv, NEW p \in Processes, Dial(p)
    PROVE  SInv'
  <1> USE DEF SInv
  <1>1. /\ stage[p] = "dial"
        /\ UNCHANGED <<boot, declared, attempt, step, ending>>
    BY DEF Dial, Proceed
  <1>2. budget' \in 0..MaxFaults
    BY StartupAssumption DEF Dial, Fault, TypeOK
  <1>3. CASE /\ stage' = [stage EXCEPT ![p] = "channel"]
             /\ link' = [link EXCEPT ![p] = "open"]
             /\ UNCHANGED unlucky
    BY <1>1, <1>2, <1>3 DEF TypeOK, Stages, DialInv, PatientEnough, StepInv, Past
  <1>4. CASE /\ stage' = [stage EXCEPT ![p] = "asleep"]
             /\ UNCHANGED link
             /\ unlucky' = unlucky \cup {p} \/ (boot > 0 /\ UNCHANGED unlucky)
    <2>1. TypeOK' /\ PatientEnough'
      BY <1>1, <1>2, <1>4 DEF TypeOK, Stages, PatientEnough
    <2>2. DialInv'
      BY <1>1, <1>4 DEF TypeOK, DialInv
    <2>3. StepInv'
      BY <1>1, <1>4 DEF TypeOK, StepInv, Past
    <2> QED
      BY <2>1, <2>2, <2>3
  <1> QED
    BY <1>3, <1>4 DEF Dial, Proceed

LEMMA TickInv ==
    ASSUME SInv, Tick
    PROVE  SInv'
  <1> USE DEF SInv
  <1> DEFINE asleep == {p \in Processes : stage[p] = "asleep"}
             over   == {p \in asleep : LastAttempt(p)}
             again  == asleep \ over
  <1>1. /\ boot' = IF boot > 0 THEN boot - 1 ELSE 0
        /\ stage' = [p \in Processes |-> CASE p \in over -> "exited"
                                           [] p \in again -> "dial"
                                           [] OTHER -> stage[p]]
        /\ attempt' = [p \in Processes |-> IF p \in again THEN attempt[p] + 1 ELSE attempt[p]]
        /\ ending' = [p \in Processes |-> IF p \in over THEN "dial" ELSE ending[p]]
        /\ UNCHANGED <<declared, step, link, unlucky, budget>>
    BY DEF Tick
  <1>2. ASSUME NEW p \in Processes
        PROVE  \/ p \notin asleep /\ stage'[p] = stage[p] /\ attempt'[p] = attempt[p]
                    /\ ending'[p] = ending[p]
               \/ p \in over /\ stage'[p] = "exited" /\ attempt'[p] = attempt[p]
                    /\ ending'[p] = "dial"
               \/ p \in again /\ stage'[p] = "dial" /\ attempt'[p] = attempt[p] + 1
                    /\ ending'[p] = ending[p]
    BY <1>1
  <1>3. boot' \in 0..BootTicks /\ boot' <= boot /\ (boot > 0 => boot' = boot - 1)
    BY <1>1, StartupAssumption DEF TypeOK
  <1>4. TypeOK'
    <2>1. stage' \in [Processes -> Stages]
      BY <1>1 DEF TypeOK, Stages
    <2>2. attempt' \in [Processes -> 1..ConnectMaxAttempts]
      BY <1>1, StartupAssumption DEF TypeOK, LastAttempt
    <2>3. ending' \in [Processes -> {"none", "config", "database", "dial", "amqp"}]
      BY <1>1 DEF TypeOK
    <2> QED
      BY <1>1, <1>3, <2>1, <2>2, <2>3 DEF TypeOK
  <1>5. DialInv'
    <2> SUFFICES ASSUME NEW p \in Processes
                 PROVE  /\ stage'[p] = "off" \/ (stage'[p] = "database" /\ p = Server)
                               => attempt'[p] = 1
                        /\ stage'[p] \in {"dial", "asleep"} /\ p \notin unlucky' =>
                               attempt'[p] - 1 + boot' <= BootTicks
                        /\ stage'[p] = "asleep" /\ p \notin unlucky' => boot' > 0
      BY DEF DialInv
    <2>1. attempt[p] \in Int /\ attempt'[p] \in Int /\ boot \in Int /\ boot' \in Int
               /\ BootTicks \in Int
      BY <1>3, <1>4, StartupAssumption DEF TypeOK
    <2> QED
      BY <1>1, <1>2, <1>3, <2>1 DEF DialInv
  <1>6. PatientEnough'
    <2> SUFFICES ASSUME NEW p \in Processes, p \in over
                 PROVE  p \in unlucky
      BY <1>1, <1>2 DEF PatientEnough
    <2>1. attempt[p] = ConnectMaxAttempts /\ boot \in Int
      BY DEF LastAttempt, TypeOK
    <2> QED
      BY <2>1, StartupAssumption DEF DialInv
  <1>7. StepInv'
    BY <1>1, <1>2 DEF StepInv, Past
  <1> QED
    BY <1>4, <1>5, <1>6, <1>7

LEMMA OpenChannelInv ==
    ASSUME SInv, NEW p \in Processes, OpenChannel(p) \/ Consume(p)
    PROVE  SInv'
  <1> USE DEF SInv
  <1>1. UNCHANGED <<boot, declared, attempt, step, unlucky, budget>>
    BY DEF OpenChannel, Consume
  <1>2. CASE Exit(p, "amqp")
    BY <1>1, <1>2 DEF Exit, TypeOK, Stages, DialInv, PatientEnough, StepInv, Past
  <1>3. CASE stage[p] = "channel" /\ Proceed(p, "declare") /\ UNCHANGED link
    <2>1. TypeOK' /\ DialInv' /\ PatientEnough'
      BY <1>1, <1>3 DEF Proceed, TypeOK, Stages, DialInv, PatientEnough
    <2>2. StepInv'
      BY <1>1, <1>3, QueueFacts DEF Proceed, TypeOK, StepInv, Past
    <2> QED
      BY <2>1, <2>2
  <1>4. CASE stage[p] = "consume" /\ Proceed(p, "serving") /\ UNCHANGED link
    BY <1>1, <1>4 DEF Proceed, TypeOK, Stages, DialInv, PatientEnough, StepInv, Past
  <1> QED
    BY <1>2, <1>3, <1>4 DEF OpenChannel, Consume

LEMMA InitializeQueuesInv ==
    ASSUME SInv, NEW p \in Processes, InitializeQueues(p)
    PROVE  SInv'
  <1> USE DEF SInv
  <1>1. stage[p] = "declare" /\ UNCHANGED <<boot, attempt, unlucky, budget>>
    BY DEF InitializeQueues
  <1>2. CASE Exit(p, "amqp") /\ UNCHANGED <<declared, step>>
    BY <1>1, <1>2 DEF Exit, TypeOK, Stages, DialInv, PatientEnough, StepInv, Past
  <1>3. CASE /\ declared' = declared \cup {AppQueues[step[p]]}
             /\ step[p] = Len(AppQueues)
             /\ Proceed(p, After(p).declare)
             /\ UNCHANGED <<step, link>>
    <2>1. stage' = [stage EXCEPT ![p] = IF p = Server THEN "serving" ELSE "database"]
      BY <1>3, AfterFacts DEF Proceed
    <2>2. TypeOK' /\ DialInv' /\ PatientEnough'
      BY <1>1, <1>3, <2>1 DEF Proceed, TypeOK, Stages, DialInv, PatientEnough
    <2>3. \A i \in DOMAIN AppQueues : AppQueues[i] \in declared'
      BY <1>1, <1>3, QueueFacts DEF StepInv
    <2>4. StepInv'
      BY <1>1, <1>3, <2>1, <2>3 DEF TypeOK, StepInv, Past
    <2> QED
      BY <2>2, <2>4
  <1>4. CASE /\ declared' = declared \cup {AppQueues[step[p]]}
             /\ step[p] # Len(AppQueues)
             /\ step' = [step EXCEPT ![p] = @ + 1]
             /\ UNCHANGED <<stage, ending, link>>
    <2>1. step[p] \in 1..5 /\ step'[p] = step[p] + 1
      BY <1>4, QueueFacts DEF TypeOK
    <2>2. step' \in [Processes -> DOMAIN AppQueues]
      BY <1>4, <2>1, QueueFacts DEF TypeOK
    <2>3. TypeOK' /\ DialInv' /\ PatientEnough'
      BY <1>1, <1>4, <2>2 DEF TypeOK, DialInv, PatientEnough
    <2>4. \A i \in DOMAIN AppQueues : i < step'[p] => AppQueues[i] \in declared'
      BY <1>1, <1>4, <2>1, QueueFacts DEF StepInv
    <2>5. StepInv'
      BY <1>1, <1>4, <2>4 DEF TypeOK, StepInv, Past
    <2> QED
      BY <2>3, <2>5
  <1> QED
    BY <1>2, <1>3, <1>4 DEF InitializeQueues

LEMMA FaultsInv ==
    ASSUME SInv, BrokerRestarts \/ \E p \in Processes : Restart(p)
    PROVE  SInv'
  <1> USE DEF SInv
  <1>1. budget' \in 0..MaxFaults
    BY StartupAssumption DEF BrokerRestarts, Restart, Fault, TypeOK
  <1>2. CASE BrokerRestarts
    <2>1. /\ boot' \in 0..BootTicks
          /\ declared' = declared
          /\ link' = [p \in Processes |-> IF link[p] = "open" THEN "closed" ELSE link[p]]
          /\ unlucky' = unlucky \cup {p \in Processes : stage[p] \in {"dial", "asleep"}}
          /\ UNCHANGED <<stage, attempt, step, ending>>
      BY <1>2 DEF BrokerRestarts, Durable
    <2>2. TypeOK'
      BY <1>1, <2>1 DEF TypeOK
    <2>3. DialInv' /\ PatientEnough'
      BY <2>1 DEF DialInv, PatientEnough
    <2>4. StepInv'
      BY <2>1 DEF StepInv, Past
    <2> QED
      BY <2>2, <2>3, <2>4
  <1>3. ASSUME NEW p \in Processes, Restart(p)
        PROVE  SInv'
    <2>1. TypeOK'
      BY <1>1, <1>3, StartupAssumption, QueueFacts DEF Restart, TypeOK, Stages
    <2>2. DialInv' /\ PatientEnough'
      BY <1>3 DEF Restart, TypeOK, DialInv, PatientEnough
    <2>3. StepInv'
      BY <1>3 DEF Restart, TypeOK, StepInv, Past
    <2> QED
      BY <2>1, <2>2, <2>3
  <1> QED
    BY <1>2, <1>3

\* The invariant is inductive.
THEOREM StartupInvariant == Spec => []SInv
  <1>1. SInv /\ [Next]_vars => SInv'
    <2> SUFFICES ASSUME SInv, [Next]_vars
                 PROVE  SInv'
      OBVIOUS
    <2>1. CASE UNCHANGED vars
      BY <2>1 DEF vars, SInv, TypeOK, DialInv, PatientEnough, StepInv, Past
    <2>2. CASE Next
      BY <2>2, LoadInv, DialStepInv, TickInv, OpenChannelInv, InitializeQueuesInv, FaultsInv
      DEF Next, Booting
    <2> QED
      BY <2>1, <2>2
  <1> QED
    BY <1>1, InitInv, PTL DEF Spec

\* Startup keeps its types: the dial loop's counter stays within connectMaxAttempts and the
\* declarations within AppQueues.
THEOREM StartupTypes == Spec => []TypeOK
  BY StartupInvariant, PTL DEF SInv

\* A dial loop of any length outlasts any shorter boot of the broker: who gives up met a
\* second outage.
THEOREM DialIsPatient == Spec => []PatientEnough
  BY StartupInvariant, PTL DEF SInv

\* Whoever is past InitializeQueues has its queue, exchange and binding in the broker.
THEOREM RouteIsDeclared == Spec => []RouteDeclared
  <1>1. SInv => RouteDeclared
    BY QueueFacts DEF SInv, StepInv, Past, RouteDeclared, JobsRoute
  <1> QED
    BY <1>1, StartupInvariant, PTL
================================================================================
