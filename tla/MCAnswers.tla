----------------------------- MODULE MCAnswers ------------------------------
(***************************************************************************)
(* Four answers that healing goes by, in four parts that share no state,   *)
(* each checked on its own instance: what a model's reply is parsed to,    *)
(* what the reprompt loop returns, what the cascade makes of a tier's      *)
(* session, and the decision of a reviewer that an Airflow task waits for. *)
(* A behaviour is one of one part; the others stay in one of their initial *)
(* states.                                                                 *)
(***************************************************************************)
EXTENDS MCReplyParsing, MCHealAttempts, HealCascade, AirflowApproval

VARIABLE part

answersVars == <<part, replyVars, vars, cascadeVars, airflowVars>>

SomeReply == <<Obj([rationale |-> Text], "none")>>
SomeOptions == CHOOSE o \in CallOptions : TRUE
SomeTier == CHOOSE t \in TierConfig : TRUE

AnswersInit ==
    /\ part \in {"reply", "attempts", "cascade", "airflow"}
    /\ part # "reply" => reply = SomeReply
    /\ part # "attempts" => opts = SomeOptions
    /\ part # "cascade" => tiers = <<SomeTier>>
    /\ part # "airflow" => timed = TRUE
    /\ ReplyInit /\ Init /\ CascadeInit /\ AirflowInit

InReply == part = "reply" /\ UNCHANGED <<part, vars, cascadeVars, airflowVars>>
InAttempts == part = "attempts" /\ UNCHANGED <<part, replyVars, cascadeVars, airflowVars>>
InCascade == part = "cascade" /\ UNCHANGED <<part, replyVars, vars, airflowVars>>
InAirflow == part = "airflow" /\ UNCHANGED <<part, replyVars, vars, cascadeVars>>

AnswersNext ==
    \/ InReply /\ ReplyNext
    \/ InAttempts /\ Next
    \/ InCascade /\ CascadeNext
    \/ InAirflow /\ AirflowNext

\* The fairness of Spec (HealAttempts) and of AirflowSpec, each on the steps of
\* its part.
AnswersSpec ==
    /\ AnswersInit /\ [][AnswersNext]_answersVars
    /\ WF_answersVars(InAttempts /\ Next)
    /\ WF_answersVars(InAirflow /\ Operator)
    /\ WF_answersVars(InAirflow /\ Trigger)
    /\ WF_answersVars(InAirflow /\ TimesOut)
=============================================================================
