------------------------------- MODULE Dangers -------------------------------
(***************************************************************************)
(* The danger reports of the shared working state (core/shared_state.py,   *)
(* called by the bridge handlers of core/bridge/handlers/shared_state.py): *)
(* a Redis list that is updated by reading it, deleting it and pushing it  *)
(* back.  Requests are coroutines: an action is one Redis command with the *)
(* code up to the next one.                                                *)
(***************************************************************************)
EXTENDS Naturals, Sequences, SequencesExt

CONSTANTS Writers,     \* requests in flight at the same time
          Villagers,   \* agents that meet dangers
          MaxListed,   \* _MAX_RECENT_DANGERS
          MaxReports,  \* bound on the dangers reported
          MaxCancelled \* bound on requests that fail half-way

ASSUME DangerAssumption == {MaxListed, MaxReports, MaxCancelled} \subseteq Nat

VARIABLES dangers,    \* the list DANGERS_KEY: records of danger id, agent, status
          reports,    \* ghost: the agents in danger, by danger id
          resolved,   \* ghost: danger ids that some request resolved
          rescues,    \* danger ids with a rescue task on the board
          announced,  \* danger ids whose DISTRESS_REPORTED event was emitted
          request,    \* the requests in flight
          cancelled,  \* requests that failed half-way so far
          serial      \* ghost: no two requests were ever in flight together

dangerVars == <<dangers, reports, resolved, rescues, announced, request, cancelled, serial>>

Danger(id, status) == [id |-> id, status |-> status]

(* A request: where it is, the danger it names (0 for the latest open one  *)
(* of agent who), and the copy of the list it has read and updated.        *)
Request(step, id, who, copy) == [step |-> step, id |-> id, who |-> who, copy |-> copy]

Nothing == Request("idle", 0, "nobody", <<>>)

DangerInit ==
    /\ dangers = <<>> /\ reports = <<>>
    /\ resolved = {} /\ rescues = {} /\ announced = {}
    /\ request = [w \in Writers |-> Nothing]
    /\ cancelled = 0
    /\ serial = TRUE

Finished(w) == request' = [request EXCEPT ![w] = Nothing]

(* A new request of writer w.                                              *)
Begins(w, req) ==
    /\ request[w].step = "idle"
    /\ request' = [request EXCEPT ![w] = req]
    /\ serial' = (serial /\ \A v \in Writers \ {w} : request[v].step = "idle")

LastOf(list) == IF Len(list) > MaxListed
                  THEN SubSeq(list, Len(list) - MaxListed + 1, Len(list)) ELSE list

-----------------------------------------------------------------------------
(* record_distress_report: report_danger pushes the report,                *)
Report(w, a) ==
    LET id == Len(reports) + 1 IN
    /\ id <= MaxReports
    /\ Begins(w, Request("trim", id, a, <<>>))
    /\ reports' = Append(reports, a)
    /\ dangers' = Append(dangers, Danger(id, "open"))
    /\ UNCHANGED <<resolved, rescues, announced, cancelled>>

(* and trims the list; a rescuer is chosen; dispatch_rescue_task calls     *)
(* _update_danger.                                                         *)
Trim(w) ==
    /\ request[w].step = "trim"
    /\ dangers' = LastOf(dangers)
    /\ request' = [request EXCEPT ![w].step = "dispatch"]
    /\ UNCHANGED <<reports, resolved, rescues, announced, cancelled, serial>>

(* mark_danger_resolved, by id or for the latest open danger of an agent.  *)
Resolve(w, id, a) ==
    /\ Begins(w, Request("resolve", id, a, <<>>))
    /\ UNCHANGED <<dangers, reports, resolved, rescues, announced, cancelled>>

(* _update_danger reads the list and looks for the latest match.           *)
Matches(list, id, who) ==
    {i \in DOMAIN list : IF id # 0 THEN list[i].id = id
                         ELSE reports[list[i].id] = who /\ list[i].status # "resolved"}

Latest(matches) == CHOOSE i \in matches : \A j \in matches : j <= i

(* resolved_at is never cleared: a resolved danger stays resolved.         *)
Updated(danger, step) ==
    [danger EXCEPT !.status = IF step = "resolve" \/ @ = "resolved" THEN "resolved"
                              ELSE "rescue_dispatched"]

(* Mutant: a dispatch without a match ends the request.                    *)
NoMatchEnds(w) == Finished(w) /\ UNCHANGED resolved

(* Nothing to update: the distress is announced all the same.              *)
NoMatch(w) ==
    /\ request' = [request EXCEPT ![w] =
          IF @.step = "dispatch" THEN [@ EXCEPT !.step = "announce"] ELSE Nothing]
    /\ UNCHANGED resolved

ReadList(w) ==
    LET req == request[w]
        matches == Matches(dangers, req.id, req.who)
        i == Latest(matches)
    IN
    /\ req.step \in {"dispatch", "resolve"}
    /\ IF matches = {} THEN NoMatch(w)
       ELSE /\ request' = [request EXCEPT ![w] =
                  Request(IF req.step = "dispatch" THEN "redelete" ELSE "delete",
                          dangers[i].id, req.who,
                          [dangers EXCEPT ![i] = Updated(@, req.step)])]
            /\ resolved' = IF req.step = "resolve" THEN resolved \cup {dangers[i].id} ELSE resolved
    /\ UNCHANGED <<dangers, reports, rescues, announced, cancelled, serial>>

(* It deletes the list,                                                    *)
DeleteList(w) ==
    /\ request[w].step \in {"delete", "redelete"}
    /\ dangers' = <<>>
    /\ request' = [request EXCEPT ![w].step = IF @ = "delete" THEN "push" ELSE "repush"]
    /\ UNCHANGED <<reports, resolved, rescues, announced, cancelled, serial>>

(* Mutant: only the updated danger is pushed back.                         *)
PushOne(w) ==
    LET req == request[w] IN
    /\ req.step \in {"push", "repush"}
    /\ dangers' = dangers \o SelectSeq(req.copy, LAMBDA d : d.id = req.id)
    /\ request' = [request EXCEPT ![w] =
          IF req.step = "push" THEN Nothing ELSE [@ EXCEPT !.step = "task"]]
    /\ UNCHANGED <<reports, resolved, rescues, announced, cancelled, serial>>

(* and pushes its copy onto whatever the list is by then.                  *)
PushList(w) ==
    LET req == request[w] IN
    /\ req.step \in {"push", "repush"}
    /\ dangers' = dangers \o LastOf(req.copy)
    /\ request' = [request EXCEPT ![w] =
          IF req.step = "push" THEN Nothing ELSE [@ EXCEPT !.step = "task"]]
    /\ UNCHANGED <<reports, resolved, rescues, announced, cancelled, serial>>

(* The rescue task is posted (TaskBoard!Post), then the event is emitted.  *)
PostRescue(w) ==
    /\ request[w].step = "task"
    /\ rescues' = rescues \cup {request[w].id}
    /\ request' = [request EXCEPT ![w].step = "announce"]
    /\ UNCHANGED <<dangers, reports, resolved, announced, cancelled, serial>>

Announce(w) ==
    /\ request[w].step = "announce"
    /\ announced' = announced \cup {request[w].id}
    /\ Finished(w)
    /\ UNCHANGED <<dangers, reports, resolved, rescues, cancelled, serial>>

-----------------------------------------------------------------------------
(* Redis fails or the caller is cancelled: the rest of the request is lost. *)
Cancel(w) ==
    /\ request[w].step # "idle"
    /\ cancelled < MaxCancelled
    /\ cancelled' = cancelled + 1
    /\ Finished(w)
    /\ UNCHANGED <<dangers, reports, resolved, rescues, announced, serial>>

Continue(w) ==
    \/ Trim(w) \/ ReadList(w) \/ DeleteList(w) \/ PushList(w) \/ PostRescue(w) \/ Announce(w)

DangerNext ==
    \E w \in Writers :
        \/ \E a \in Villagers : Report(w, a)
        \/ \E id \in DOMAIN reports : Resolve(w, id, "nobody")
        \/ \E a \in Villagers : Resolve(w, 0, a)
        \/ Continue(w) \/ Cancel(w)

DangerSpec == DangerInit /\ [][DangerNext]_dangerVars

-----------------------------------------------------------------------------
(* Types of all the variables.                                             *)
DangerTypeOK ==
    LET Ids == 1..MaxReports
        List == Seq([id : Ids, status : {"open", "rescue_dispatched", "resolved"}])
    IN
    /\ dangers \in List
    /\ reports \in Seq(Villagers)
    /\ resolved \subseteq Ids /\ rescues \subseteq Ids /\ announced \subseteq Ids
    /\ \A w \in Writers : request[w].copy \in List
    /\ cancelled \in 0..MaxCancelled
    /\ serial \in BOOLEAN

(* shared_state.py, _update_danger: as long as requests do not overlap and *)
(* none fails half-way, the list is exactly the latest reports, each once, *)
(* in order, and resolved when somebody resolved it: reading, deleting and *)
(* pushing back loses nothing.                                             *)
ListIsExact ==
    (serial /\ cancelled = 0 /\ \A w \in Writers : request[w].step = "idle") =>
        LET ids == LastOf([id \in DOMAIN reports |-> id]) IN
        /\ [i \in DOMAIN dangers |-> dangers[i].id] = ids
        /\ \A i \in DOMAIN dangers : dangers[i].status = "resolved" <=> dangers[i].id \in resolved

(* However requests overlap or fail, the list names no danger that was not *)
(* reported and shows none as resolved that nobody resolved, and a rescue  *)
(* task is for a danger that was reported.                                 *)
ListIsTruthful ==
    /\ rescues \subseteq DOMAIN reports
    /\ \A i \in DOMAIN dangers :
          /\ dangers[i].id \in DOMAIN reports
          /\ dangers[i].status = "resolved" => dangers[i].id \in resolved

(* The danger list is right when requests take turns, and never invents    *)
(* anything when they do not.                                              *)
DangerListSound == ListIsExact /\ ListIsTruthful

(* Every distress report leads to its DISTRESS_REPORTED event, whether or  *)
(* not the danger is still on the list when the rescue is dispatched,      *)
(* unless a request failed.                                                *)
DistressAnnounced ==
    \A id \in 1..MaxReports : id \in DOMAIN reports ~> id \in announced \/ cancelled > 0

=============================================================================
