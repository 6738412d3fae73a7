--------------------------- MODULE MCConversation ---------------------------
(***************************************************************************)
(* An instance of Conversation for TLC.  A behaviour is about what becomes *)
(* of conversations that are not reviewed, or about one agent that is      *)
(* reviewed on several sides, by the engine and for the bridge.            *)
(***************************************************************************)
EXTENDS Conversation

MCInit == ConversationInit /\ (policy # "off" => driver = "phase")

MCNext ==
    /\ ConversationNext
    /\ policy = "off" => \A r \in BotReviewers : review'[r].pc = "idle"
    /\ policy # "off" =>
          talk'.group \subseteq {Someone} /\ \A r \in BotReviewers : review'[r].agent = Someone

MCSpec == MCInit /\ [][MCNext]_talkVars /\ ConversationFairness

(* Conversations end, and a verdict of the gravest kind stops the show.    *)
TalksSettle == TalksEnd /\ EmergencyStopsShow

=============================================================================
