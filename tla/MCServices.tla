----------------------------- MODULE MCServices -----------------------------
(***************************************************************************)
(* Instances for TLC of the services that run beside each other in the     *)
(* backend and share no state: in every behaviour one of them, picked at   *)
(* the start, runs and the others rest.  Small enough for liveness.        *)
(***************************************************************************)
EXTENDS TaskBoard, Bridge, Dangers, Livestream, StreamHealth, QueueProxy, Accounts, SceneMemory

CONSTANT Services  \* the services to pick from

VARIABLE picked

allVars == <<picked, vars, bridgeVars, dangerVars, streamVars, healthVars, proxyVars,
             accountVars, sceneVars>>

ServicesInit ==
    /\ picked \in Services
    /\ Init /\ BridgeInit /\ DangerInit /\ StreamInit /\ HealthInit /\ ProxyInit
    /\ AccountInit /\ SceneInit
    /\ picked # "stream" => ~switch /\ setup = "cut"

On(service) == picked = service

ServicesNext ==
    /\ UNCHANGED picked
    /\ \/ On("board") /\ Next
          /\ UNCHANGED <<bridgeVars, dangerVars, streamVars, healthVars, proxyVars, accountVars, sceneVars>>
       \/ On("bridge") /\ BridgeNext
          /\ UNCHANGED <<vars, dangerVars, streamVars, healthVars, proxyVars, accountVars, sceneVars>>
       \/ On("dangers") /\ DangerNext
          /\ UNCHANGED <<vars, bridgeVars, streamVars, healthVars, proxyVars, accountVars, sceneVars>>
       \/ On("stream") /\ StreamNext
          /\ UNCHANGED <<vars, bridgeVars, dangerVars, healthVars, proxyVars, accountVars, sceneVars>>
       \/ On("health") /\ HealthNext
          /\ UNCHANGED <<vars, bridgeVars, dangerVars, streamVars, proxyVars, accountVars, sceneVars>>
       \/ On("proxy") /\ ProxyNext
          /\ UNCHANGED <<vars, bridgeVars, dangerVars, streamVars, healthVars, accountVars, sceneVars>>
       \/ On("accounts") /\ AccountNext
          /\ UNCHANGED <<vars, bridgeVars, dangerVars, streamVars, healthVars, proxyVars, sceneVars>>
       \/ On("scenes") /\ SceneNext
          /\ UNCHANGED <<vars, bridgeVars, dangerVars, streamVars, healthVars, proxyVars, accountVars>>

(* The fairness of each service, while it runs.  The event loop runs every *)
(* coroutine whose reply has arrived, and asyncio.Lock wakes its waiters   *)
(* in the order they came; the monitors poll at their intervals and the    *)
(* supervisor goes on when it can; the threads of the proxy run, and every *)
(* request it forwards has a timeout; Postgres grants a row's lock to the  *)
(* transaction that waited longest and aborts one of a deadlock; flushes   *)
(* of scenes go on.  Nobody is assumed to ask anything.                    *)
ServicesFairness ==
    /\ \A r \in Requests : WF_vars(On("board") /\ Proceed(r))
    /\ \A b \in Bots : /\ WF_bridgeVars(On("bridge") /\ Proceeds(b))
                       /\ SF_bridgeVars(On("bridge") /\ Lock(b))
    /\ \A w \in Writers : WF_dangerVars(On("dangers") /\ Continue(w))
    /\ WF_streamVars(On("stream") /\ StreamStep)
    /\ WF_healthVars(On("health") /\ HealthTick)
    /\ WF_healthVars(On("health") /\ PollHealthy)
    /\ WF_healthVars(On("health") /\ PollUnhealthy)
    /\ WF_healthVars(On("health") /\ Supervise)
    /\ \A j \in ProxyJobs : WF_proxyVars(On("proxy") /\ Put(j))
    /\ \A w \in Workers : WF_proxyVars(On("proxy") /\ WorkerStep(w))
    /\ \A s \in Sessions : SF_accountVars(On("accounts") /\ Pays(s))
    /\ SF_accountVars(On("accounts") /\ PaysWeek)
    /\ \A c \in Clients : WF_accountVars(On("accounts") /\ DeadlockVictim(c))
    /\ WF_sceneVars(On("scenes") /\ FlushStep)
    /\ WF_sceneVars(On("scenes") /\ PollDue)

ServicesSpec == ServicesInit /\ [][ServicesNext]_allVars /\ ServicesFairness

-----------------------------------------------------------------------------
(* The promises about a service that are about what happens in the end     *)
(* hold while it runs.                                                     *)

(* The stream follows the kill switch (KillReachesStream, StreamComesBack  *)
(* of Livestream): a switch that stays on takes it off the air, one that   *)
(* stays off gives it back, whatever failed on the way.                    *)
StreamFollowsSwitch == On("stream") => KillReachesStream /\ StreamComesBack

(* The operators learn the state of the stream (DownIsTold, UpIsHealthy of *)
(* StreamHealth): one that stays down is alerted, although a cooldown      *)
(* holds alerts back and sinks fail, and one that stays up is not called   *)
(* down.                                                                   *)
AlertsFollowStream == On("health") => DownIsTold /\ UpIsHealthy

(* What is put on the air and what operators are told agree with the       *)
(* switch and the stream in the end (StreamFollowsSwitch,                  *)
(* AlertsFollowStream).                                                    *)
StreamSettles == StreamFollowsSwitch /\ AlertsFollowStream

(* Nobody waits forever: a won task gets its owner, a frame its answer, a  *)
(* distress its event, a queued job its result, a payment its end, a       *)
(* closed scene its memories (WinnerBecomesOwner, FramesAnswered,          *)
(* DistressAnnounced, JobsAnswered, PaymentsEnd, ClosedScenesFlushed of    *)
(* the modules).                                                           *)
RequestsServed ==
    /\ WinnerBecomesOwner /\ FramesAnswered /\ DistressAnnounced /\ JobsAnswered
    /\ PaymentsEnd /\ ClosedScenesFlushed

(* Types of the variables of all the services.                             *)
ServicesTypeOK ==
    /\ TypeOK /\ BridgeTypeOK /\ DangerTypeOK /\ StreamTypeOK /\ HealthTypeOK /\ ProxyTypeOK
    /\ AccountTypeOK /\ SceneTypeOK

=============================================================================
