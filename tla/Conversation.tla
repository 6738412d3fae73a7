---------------------------- MODULE Conversation ----------------------------
(***************************************************************************)
(* The conversation engine (core/conversation_engine.py), which starts a   *)
(* conversation from a trigger, lets its participants speak in turns and   *)
(* ends it with a closing line, a row that is closed, memories, journals   *)
(* and goals.  It is driven by its own loop (run), which survives what it  *)
(* raises, or by a phase of a simulation (core/simulation/phases.py),      *)
(* which drops the engine.  An action is the code up to the next await.    *)
(***************************************************************************)
EXTENDS Management, Sequences

CONSTANTS Drivers,      \* of "loop" and "phase"
          MinimumTurns, \* minimum_turns of the energy configuration
          MaximumTurns, \* maximum_turns
          PhaseTurns,   \* max_turns of the phase
          Attempts,     \* MAX_GENERATE_RETRIES
          MaxTalks      \* bound on conversations

ASSUME ConversationAssumption ==
    /\ Drivers \subseteq {"loop", "phase"}
    /\ {MinimumTurns, MaximumTurns, PhaseTurns, Attempts} \subseteq Nat \ {0}
    /\ MaxTalks \in Nat

VARIABLES driver, \* who drives the engine
          talk,   \* the active conversation, and where the engine is in it
          rows    \* conversations, their agent_speak events and memories

talkVars == <<managementVars, driver, talk, rows>>

NoneYet == [a \in Agents |-> 0]
NewRow == [closed |-> FALSE, count |-> 0, said |-> 0, lost |-> FALSE,
           recalls |-> NoneYet, journals |-> NoneYet]
Quiet == [pc |-> "idle", id |-> 0, group |-> {}, turn |-> 0, ticks |-> 0, lively |-> TRUE,
          line |-> "none", who |-> Someone, tries |-> 0, rounds |-> 0,
          left |-> {}, skipped |-> FALSE]

ConversationInit ==
    /\ ManagementInit
    /\ driver \in Drivers
    /\ talk = Quiet /\ rows = <<>>

Engaged(pc) == talk.pc = pc
Active == talk.id # 0

(* should_continue of the energy: a minimum of turns, a maximum, and in    *)
(* between as long as there is energy.                                     *)
ShouldContinue(t) ==
    t.ticks < MinimumTurns \/ (t.ticks < MaximumTurns /\ t.lively)

(* The rounds of a phase are counted; the loop has no such bound.          *)
NextRound(t) == IF driver = "phase" THEN t.rounds + 1 ELSE 0

(* _generate_turn is called for a line.                                    *)
Generates(t, line, who) == [t EXCEPT !.pc = "generate", !.line = line, !.who = who, !.tries = 1]
LineEnds(t, pc) == [t EXCEPT !.pc = pc, !.line = "none", !.who = Someone, !.tries = 0]

-----------------------------------------------------------------------------
(* _start_conversation: a row, and the opening line.                       *)
StartConversation ==
    /\ Engaged("idle") /\ Len(rows) < MaxTalks
    /\ \E group \in SUBSET Agents \ {{}} : \E who \in group :
          talk' = Generates([Quiet EXCEPT !.id = Len(rows) + 1, !.group = group], "opening", who)
    /\ rows' = Append(rows, NewRow)
    /\ UNCHANGED <<managementVars, driver>>

(* _continue_conversation.  Nobody may be eligible: the status of an agent *)
(* is set elsewhere.  A turn is counted before its line is there.          *)
Continue ==
    /\ Engaged("next")
    /\ \/ talk' = [talk EXCEPT !.pc = "end"]
       \/ /\ ShouldContinue(talk) /\ (driver = "phase" => talk.rounds < PhaseTurns)
          /\ \E who \in talk.group :
                talk' = Generates([talk EXCEPT !.turn = @ + 1], "turn", who)
    /\ UNCHANGED <<managementVars, driver, rows>>

EndConversation ==
    /\ Engaged("end")
    /\ \E closer \in talk.group : talk' = Generates(talk, "closing", closer)
    /\ UNCHANGED <<managementVars, driver, rows>>

-----------------------------------------------------------------------------
(* Mutant: a turn that was skipped stays counted.                          *)
NoLineCounted(t) ==
    CASE t.line = "opening" -> Quiet
      [] t.line = "turn" -> [LineEnds(t, "next") EXCEPT !.rounds = NextRound(t), !.skipped = TRUE]
      [] t.line = "closing" -> LineEnds(t, "close")

(* Mutant: a turn that was skipped is no round of the phase.               *)
NoLineNoRound(t) ==
    CASE t.line = "opening" -> Quiet
      [] t.line = "turn" -> [LineEnds(t, "next") EXCEPT !.turn = @ - 1, !.skipped = TRUE]
      [] t.line = "closing" -> LineEnds(t, "close")

(* There is no line: without an opening the conversation is forgotten, its *)
(* row left as it is; a turn is skipped; an end goes on without.           *)
NoLine(t) ==
    CASE t.line = "opening" -> Quiet
      [] t.line = "turn" -> [LineEnds(t, "next") EXCEPT !.turn = @ - 1, !.rounds = NextRound(t), !.skipped = TRUE]
      [] t.line = "closing" -> LineEnds(t, "close")

NextAttempt(t) ==
    IF t.tries < Attempts THEN [t EXCEPT !.pc = "generate", !.tries = @ + 1] ELSE NoLine(t)

(* The line is spoken; a turn also ticks the energy, which the topic and   *)
(* the events of the turn may raise or lower.                              *)
Spoken(t, lively) ==
    CASE t.line = "opening" -> [LineEnds(t, "next") EXCEPT !.turn = 1]
      [] t.line = "turn" -> [LineEnds(t, "log") EXCEPT !.ticks = @ + 1, !.lively = lively, !.skipped = FALSE]
      [] t.line = "closing" -> [LineEnds(t, "close") EXCEPT !.turn = @ + 1]

(* The model and the tools of a turn: a text is reviewed; no text, or an   *)
(* error that is expected, is tried again; a text that repeats an earlier  *)
(* one twice is no line.                                                   *)
Generate ==
    /\ Engaged("generate")
    /\ \/ /\ BeginReview(Engine, talk.who)
          /\ talk' = [talk EXCEPT !.pc = "review"]
       \/ talk' \in {NextAttempt(talk), NoLine(talk)} /\ UNCHANGED review
    /\ UNCHANGED <<policy, muted, emergency, failures, breaker, late, raised, driver, rows>>

TakeVerdict ==
    /\ Engaged("review") /\ Reviewing(Engine, "done")
    /\ \/ /\ Said(Engine)
          /\ \E lively \in BOOLEAN : talk' = Spoken(talk, lively)
          /\ rows' = [rows EXCEPT ![talk.id].said = @ + 1]
       \/ /\ review[Engine].severity > 0
          /\ talk' = IF review[Engine].severity >= 4 THEN NoLine(talk) ELSE NextAttempt(talk)
          /\ UNCHANGED <<late, rows>>
    /\ Delivered(Engine)
    /\ UNCHANGED driver

LogTurn ==
    /\ Engaged("log")
    /\ talk' = [talk EXCEPT !.rounds = NextRound(talk), !.pc = IF ShouldContinue(talk) THEN "next" ELSE "end"]
    /\ UNCHANGED <<managementVars, driver, rows>>

-----------------------------------------------------------------------------
(* The rest of _end_conversation: the row, the memories of the             *)
(* participants one by one, their journals, and what is recorded last.     *)
CloseRow ==
    /\ Engaged("close")
    /\ rows' = [rows EXCEPT ![talk.id].closed = TRUE, ![talk.id].count = talk.turn]
    /\ talk' = [talk EXCEPT !.pc = "recall", !.left = talk.group]
    /\ UNCHANGED <<managementVars, driver>>

Passes(a, pc) ==
    talk' = IF talk.left = {a} THEN [talk EXCEPT !.pc = pc, !.left = talk.group]
                               ELSE [talk EXCEPT !.left = @ \ {a}]

Compact ==
    /\ Engaged("recall")
    /\ \E a \in talk.left : /\ rows' = [rows EXCEPT ![talk.id].recalls[a] = @ + 1]
                            /\ Passes(a, "journal")
    /\ UNCHANGED <<managementVars, driver>>

Journal ==
    /\ Engaged("journal")
    /\ \E a \in talk.left : /\ rows' = [rows EXCEPT ![talk.id].journals[a] = @ + 1]
                            /\ Passes(a, "record")
    /\ UNCHANGED <<managementVars, driver>>

(* An expected error ends the memories, or the journals, of all that are   *)
(* left.                                                                   *)
StopsEarly ==
    /\ talk.pc \in {"recall", "journal"}
    /\ rows' = [rows EXCEPT ![talk.id].lost = TRUE]
    /\ talk' = [talk EXCEPT !.pc = IF @ = "recall" THEN "journal" ELSE "record", !.left = talk.group]
    /\ UNCHANGED <<managementVars, driver>>

RecordEnd ==
    /\ Engaged("record")
    /\ talk' = Quiet
    /\ UNCHANGED <<managementVars, driver, rows>>

-----------------------------------------------------------------------------
(* An await raises what nobody expected, a spend cap among it.  The loop   *)
(* logs it and goes on with the conversation it has; a phase fails, and    *)
(* its engine is gone.                                                     *)
Survives == IF driver = "loop" /\ Active THEN [LineEnds(talk, "next") EXCEPT !.left = {}] ELSE Quiet

EngineRaises ==
    /\ talk.pc \in {"generate", "next", "log", "close", "recall", "journal", "record"}
    /\ raised < MaxRaised
    /\ raised' = raised + 1
    /\ talk' = Survives
    /\ UNCHANGED <<policy, muted, emergency, failures, breaker, review, late, driver, rows>>

ReviewRaised ==
    /\ Engaged("review") /\ Reviewing(Engine, "raised")
    /\ talk' = Survives
    /\ Delivered(Engine)
    /\ UNCHANGED <<late, driver, rows>>

(* stop, or a cancelled task: the engine rests with what it has.           *)
StopEngine ==
    /\ driver = "loop" /\ talk.pc \in {"idle", "next", "end"}
    /\ talk' = [talk EXCEPT !.pc = "off"]
    /\ UNCHANGED <<managementVars, driver, rows>>

EngineStep ==
    \/ Continue \/ EndConversation \/ Generate \/ TakeVerdict \/ LogTurn \/ CloseRow
    \/ Compact \/ Journal \/ RecordEnd \/ ReviewRaised

ConversationNext ==
    \/ ManagementNext /\ UNCHANGED <<driver, talk, rows>>
    \/ StartConversation \/ EngineStep \/ StopsEarly \/ EngineRaises \/ StopEngine

(* The event loop runs every coroutine whose reply has arrived; nobody is  *)
(* assumed to speak, or to be understood.                                  *)
ConversationFairness ==
    /\ WF_talkVars(EngineStep)
    /\ \A r \in Reviewers : WF_talkVars(ReviewStep(r) /\ UNCHANGED <<driver, talk, rows>>)

ConversationSpec == ConversationInit /\ [][ConversationNext]_talkVars /\ ConversationFairness

-----------------------------------------------------------------------------
ConversationTypeOK ==
    /\ ManagementTypeOK
    /\ talk.pc \in {"idle", "generate", "review", "next", "log", "end", "close", "recall", "journal",
                    "record", "off"}
    /\ talk.id <= Len(rows)
    /\ talk.group \subseteq Agents /\ talk.left \subseteq talk.group
    /\ talk.turn \in Nat /\ talk.tries \in 0 .. Attempts

(* The row of a conversation that is closed counts the lines that were     *)
(* spoken in it, whatever turns were skipped, in a phase always and in the *)
(* loop unless an await raised (turn_number of _continue_conversation and  *)
(* _end_conversation).                                                     *)
RowsCountLines ==
    \A c \in DOMAIN rows :
        rows[c].closed /\ (driver = "phase" \/ raised = 0) /\ ~(talk.id = c /\ talk.pc = "close") =>
            rows[c].count = rows[c].said

(* A row that stays open is of the conversation that goes on, or nothing   *)
(* was said in it, unless an await raised (the aborted opening of          *)
(* _start_conversation).                                                   *)
OpenRowsAreSilent ==
    raised = 0 => \A c \in DOMAIN rows : rows[c].closed \/ talk.id = c \/ rows[c].said = 0

(* A conversation is remembered once by each that took part, and once more *)
(* at most for every await that raised and made the loop end it again; in  *)
(* a phase never twice (_compact_and_journal).                             *)
RememberedOnce ==
    \A c \in DOMAIN rows : \A a \in Agents :
        LET most == IF driver = "phase" THEN 1 ELSE 1 + raised
        IN  rows[c].recalls[a] <= most /\ rows[c].journals[a] <= most

(* What was closed is remembered by somebody of those who took part, each  *)
(* as often by memory as by journal, unless an await raised or an error    *)
(* was swallowed.                                                          *)
RememberedByAll ==
    \A c \in DOMAIN rows :
        rows[c].closed /\ raised = 0 /\ ~rows[c].lost /\ talk.id # c =>
            /\ rows[c].recalls = rows[c].journals
            /\ \E a \in Agents : rows[c].recalls[a] = 1

TalkSound ==
    MutedFallSilent /\ RowsCountLines /\ OpenRowsAreSilent /\ RememberedOnce /\ RememberedByAll

(* A conversation of a phase ends; one of the loop ends, or has a turn     *)
(* skipped: a speaker that has no line does not tire the conversation      *)
(* (should_continue).                                                      *)
TalksEnd ==
    /\ Active /\ driver = "phase" ~> ~Active
    /\ Active /\ driver = "loop" ~> ~Active \/ talk.skipped \/ Engaged("off")

=============================================================================
