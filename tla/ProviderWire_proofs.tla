------------------------ MODULE ProviderWire_proofs ------------------------
(***************************************************************************)
(* What runs hear from the providers, for any number of overlapping runs.  *)
(*                                                                         *)
(* The inductive invariant WireInv says that a run hears, question by      *)
(* question, what its client makes of the answer to that question under    *)
(* the run's own fault.  What that can be is a matter of the operators     *)
(* alone, and stated as lemmas before the state machine is touched.        *)
(***************************************************************************)
EXTENDS ProviderWire, TLAPS

----------------------------------------------------------------------------
(* The trials and their questions. *)

LEMMA TrialFields ==
    ASSUME NEW t \in Trials
    PROVE  /\ t.call \in Calls
           /\ t.mode \in {"native", "workos", "arcade"} \cup Mediated
           /\ t.fault \in Faults \cup {"none"}
           /\ t.mode = "workos" => t.call \in Dashboards
           /\ t.mode = "arcade" => t.call \notin Dashboards
<1>1. CASE t \in Controls
  BY <1>1 DEF Controls, Trial, Calls, Dashboards, WorkosModes, AuthorizeModes, Mediated
<1>2. CASE t \in FaultTrials
  <2>1. t.fault \in Faults
    BY <1>2 DEF Faults
  <2>2. /\ t.call \in Calls
        /\ t.mode \in {"native", "workos", "arcade"} \cup Mediated
        /\ t.mode = "workos" => t.call \in Dashboards
        /\ t.mode = "arcade" => t.call \notin Dashboards
    BY <1>2 DEF FaultTrials, Trial, Calls, Dashboards, WorkosModes, AuthorizeModes,
                ExecuteModes, Mediated
  <2> QED BY <2>1, <2>2
<1> QED BY <1>1, <1>2 DEF Trials

LEMMA FaultsListed ==
    Faults = {"timeout", "malformed", "string_false", "stale_allow", "wrong_resource",
              "wrong_type", "authorize_other_user", "replay_completed",
              "execute_wrong_type", "execute_wrong_binding"}
<1> DEFINE L == {"timeout", "malformed", "string_false", "stale_allow", "wrong_resource",
                 "wrong_type", "authorize_other_user", "replay_completed",
                 "execute_wrong_type", "execute_wrong_binding"}
<1>1. \A t \in FaultTrials : t.fault \in L
  BY DEF FaultTrials, Trial
<1>2. \A f \in {"timeout", "malformed", "string_false", "stale_allow"} :
        [call |-> "dashboard", fault |-> f, mode |-> "native"] \in FaultTrials
  BY DEF FaultTrials, Trial, WorkosModes
<1>3. [call |-> "sibling", fault |-> "wrong_resource", mode |-> "native"] \in FaultTrials
  BY DEF FaultTrials, Trial, WorkosModes
<1>4. \A f \in {"wrong_type", "authorize_other_user"} :
        [call |-> "drive", fault |-> f, mode |-> "arcade"] \in FaultTrials
  BY DEF FaultTrials, Trial, AuthorizeModes
<1>5. [call |-> "delegated", fault |-> "replay_completed", mode |-> "arcade"] \in FaultTrials
  BY DEF FaultTrials, Trial, AuthorizeModes
<1>6. \A f \in {"execute_wrong_type", "execute_wrong_binding"} :
        [call |-> "drive", fault |-> f, mode |-> "arcade"] \in FaultTrials
  BY DEF FaultTrials, Trial, ExecuteModes
<1>7. \A f \in L : \E t \in FaultTrials : t.fault = f
  <2> SUFFICES ASSUME NEW f \in L PROVE \E t \in FaultTrials : t.fault = f
    OBVIOUS
  <2>1. CASE f \in {"timeout", "malformed", "string_false", "stale_allow"}
    <3> DEFINE t == [call |-> "dashboard", fault |-> f, mode |-> "native"]
    <3> QED BY <2>1, <1>2, t.fault = f
  <2>2. CASE f = "wrong_resource"
    BY <2>2, <1>3
  <2>3. CASE f \in {"wrong_type", "authorize_other_user"}
    <3> DEFINE t == [call |-> "drive", fault |-> f, mode |-> "arcade"]
    <3> QED BY <2>3, <1>4, t.fault = f
  <2>4. CASE f = "replay_completed"
    BY <2>4, <1>5
  <2>5. CASE f \in {"execute_wrong_type", "execute_wrong_binding"}
    <3> DEFINE t == [call |-> "drive", fault |-> f, mode |-> "arcade"]
    <3> QED BY <2>5, <1>6, t.fault = f
  <2> QED BY <2>1, <2>2, <2>3, <2>4, <2>5
<1> HIDE DEF L
<1>8. Faults = L
  BY <1>1, <1>7 DEF Faults
<1> QED BY <1>8 DEF L

\* Every question is one a provider answers, and there is at least one.
LEMMA ConversationType ==
    ASSUME NEW t \in Trials
    PROVE  /\ PolicyQuestion(t) \in Questions
           /\ Conversation(t) \in Seq(Questions)
           /\ Len(Conversation(t)) \in 1..3
<1>1. /\ t.call \in Calls
      /\ t.mode \in {"native", "workos", "arcade"} \cup Mediated
      /\ t.mode = "workos" => t.call \in Dashboards
      /\ t.mode = "arcade" => t.call \notin Dashboards
  BY TrialFields
<1>2. PolicyQuestion(t) \in Questions
  BY <1>1 DEF PolicyQuestion, Questions, Check, Authorize, ResourceOf, UserOf, Principal,
              Resources, Users, Dashboards, Calls
<1>3. /\ Execute(UserOf(t.call)) \in Questions
      /\ Execute(Principal) \in Questions
  BY DEF Execute, UserOf, Principal, Questions, Users
<1> DEFINE q == PolicyQuestion(t)
<1>4. \/ Conversation(t) = <<q>>
      \/ Conversation(t) = <<q, q>>
      \/ Conversation(t) = <<q, Execute(UserOf(t.call))>>
      \/ Conversation(t) = <<q, q, Execute(Principal)>>
  BY <1>1 DEF Conversation, Mediated
<1> DEFINE e == Execute(UserOf(t.call))
           p == Execute(Principal)
<1>5. q \in Questions /\ e \in Questions /\ p \in Questions
  BY <1>2, <1>3
<1> HIDE DEF q, e, p
<1>6. ASSUME NEW c, c = <<q>> \/ c = <<q, q>> \/ c = <<q, e>> \/ c = <<q, q, p>>
      PROVE  c \in Seq(Questions) /\ Len(c) \in 1..3
  <2>1. CASE c = <<q>>
    BY <1>5, <2>1
  <2>2. CASE c = <<q, q>>
    BY <1>5, <2>2
  <2>3. CASE c = <<q, e>>
    BY <1>5, <2>3
  <2>4. CASE c = <<q, q, p>>
    BY <1>5, <2>4
  <2> QED BY <1>6, <2>1, <2>2, <2>3, <2>4
<1> QED BY <1>2, <1>4, <1>6 DEF q, e, p

----------------------------------------------------------------------------
(* What a client makes of an answer. *)

LEMMA AnswerType ==
    ASSUME NEW q \in Questions, NEW f \in Faults \cup {"none"}
    PROVE  Answer(q, f) \in Bodies \cup {Raw, Silence}
<1>a. /\ \A a \in {"true", "false", "text"} : CheckBody(a) \in Bodies
      /\ \A s \in {"pending", "completed", "not text"}, u \in Users :
            AuthorizeBody(s, u) \in Bodies
      /\ \A s \in {"true", "false", "text"}, u \in Users : ExecuteBody(s, u) \in Bodies
  <2>1. ASSUME NEW a \in {"true", "false", "text"} PROVE CheckBody(a) \in Bodies
    BY DEF Bodies, CheckBody, AuthorizeBody, ExecuteBody
  <2>2. ASSUME NEW s \in {"pending", "completed", "not text"}, NEW u \in Users
        PROVE  AuthorizeBody(s, u) \in Bodies
    BY DEF Bodies, CheckBody, AuthorizeBody, ExecuteBody
  <2>3. ASSUME NEW s \in {"true", "false", "text"}, NEW u \in Users
        PROVE  ExecuteBody(s, u) \in Bodies
    BY DEF Bodies, CheckBody, AuthorizeBody, ExecuteBody
  <2> QED BY Zenon, <2>1, <2>2, <2>3
<1>1. CASE f \in {"timeout", "malformed"}
  BY <1>1 DEF Answer
<1>2. CASE f \notin {"timeout", "malformed"} /\ q.op = "check"
  <2>1. Answer(q, f) = AnswerCheck(q.of, f)
    BY <1>2 DEF Answer
  <2>2. \E a \in {"true", "false", "text"} : AnswerCheck(q.of, f) = CheckBody(a)
    BY DEF AnswerCheck, Json
  <2> QED BY <1>a, <2>1, <2>2
<1>3. CASE f \notin {"timeout", "malformed"} /\ q.op = "authorize"
  <2>1. Answer(q, f) = AnswerAuthorize(q.of, f)
    BY <1>3 DEF Answer
  <2>2. q.of \in Users
    BY <1>3 DEF Questions
  <2>3. \E s \in {"pending", "completed", "not text"}, u \in Users :
            AnswerAuthorize(q.of, f) = AuthorizeBody(s, u)
    BY <2>2 DEF AnswerAuthorize, Recorded, Users
  <2> QED BY <1>a, <2>1, <2>3
<1>4. CASE f \notin {"timeout", "malformed"} /\ q.op = "execute"
  <2>1. Answer(q, f) = AnswerExecute(q.of, f)
    BY <1>4 DEF Answer
  <2>2. q.of \in Users
    BY <1>4 DEF Questions
  <2>3. \E s \in {"true", "false", "text"}, u \in Users :
            AnswerExecute(q.of, f) = ExecuteBody(s, u)
    BY <2>2 DEF AnswerExecute, Users
  <2> QED BY <1>a, <2>1, <2>3
<1> QED BY <1>1, <1>2, <1>3, <1>4 DEF Questions

\* The answer to q under fault f arrives and is taken for a yes.
Yes(q, f) == Answer(q, f) # Silence /\ Read(q, Answer(q, f)) = "yes"

LEMMA YesIsRouted ==
    ASSUME NEW q \in Questions, NEW f, Yes(q, f)
    PROVE  f \notin {"timeout", "malformed"}
<1>1. f # "timeout"
  BY DEF Yes, Answer
<1>2. ASSUME f = "malformed" PROVE FALSE
  <2>1. Answer(q, f) = Raw
    BY <1>2 DEF Answer
  <2>2. Raw.kind = "raw" /\ Raw.kind # q.op
    BY DEF Raw, Questions
  <2> QED BY <2>1, <2>2 DEF Yes, Read
<1> QED BY <1>1, <1>2

LEMMA YesToCheck ==
    ASSUME NEW q \in Questions, NEW f, f \notin {"timeout", "malformed"}, q.op = "check"
    PROVE  Yes(q, f) <=>
              /\ f # "string_false"
              /\ LET looked == IF f = "wrong_resource" THEN "study" ELSE q.of
                 IN  looked \in Assigned \/ TakenBack(looked, f)
<1> DEFINE looked == IF f = "wrong_resource" THEN "study" ELSE q.of
           held == looked \in Assigned \/ TakenBack(looked, f)
           field == IF f = "string_false" THEN "text" ELSE Json(held)
<1>1. Answer(q, f) = CheckBody(field)
  BY DEF Answer, AnswerCheck
<1> HIDE DEF field
<1>2. CheckBody(field) # Silence /\ CheckBody(field).kind = "check"
        /\ CheckBody(field).authorized = field
  BY DEF CheckBody, Silence
<1>3. Yes(q, f) <=> field = "true"
  BY <1>1, <1>2 DEF Yes, Read, ReadCheck
<1> HIDE DEF held
<1>4. field = "true" <=> f # "string_false" /\ held
  BY DEF field, Json
<1> QED BY <1>3, <1>4 DEF held

LEMMA YesToAuthorize ==
    ASSUME NEW q \in Questions, NEW f, f \notin {"timeout", "malformed"}, q.op = "authorize"
    PROVE  Yes(q, f) <=>
              /\ f # "wrong_type"
              /\ Recorded(q.of, f).status = "completed"
              /\ Recorded(q.of, f).user = q.of
<1> DEFINE status == IF f = "wrong_type" THEN "not text" ELSE Recorded(q.of, f).status
           user == Recorded(q.of, f).user
<1>1. Answer(q, f) = AuthorizeBody(status, user)
  BY DEF Answer, AnswerAuthorize
<1>2. status = "completed" <=> f # "wrong_type" /\ Recorded(q.of, f).status = "completed"
  OBVIOUS
<1> HIDE DEF status, user
<1>3. /\ AuthorizeBody(status, user) # Silence
      /\ AuthorizeBody(status, user).kind = "authorize"
      /\ AuthorizeBody(status, user).status = status
      /\ AuthorizeBody(status, user).user = user
  BY DEF AuthorizeBody, Silence
<1>4. Yes(q, f) <=> status = "completed" /\ user = q.of
  BY <1>1, <1>3 DEF Yes, Read, ReadAuthorize
<1> QED BY <1>2, <1>4 DEF user

LEMMA YesToExecute ==
    ASSUME NEW q \in Questions, NEW f, f \notin {"timeout", "malformed"}, q.op = "execute"
    PROVE  Yes(q, f) <=>
              /\ Completed(q.of, f)
              /\ f # "execute_wrong_type"
              /\ f = "execute_wrong_binding" => q.of = "supervisor"
<1> DEFINE success == CASE ~Completed(q.of, f)                                -> "false"
                        [] Completed(q.of, f) /\ f = "execute_wrong_type" -> "text"
                        [] Completed(q.of, f) /\ f # "execute_wrong_type" -> "true"
           user == IF Completed(q.of, f) /\ f = "execute_wrong_binding"
                   THEN "supervisor" ELSE q.of
<1>1. Answer(q, f) = ExecuteBody(success, user)
  BY DEF Answer, AnswerExecute
<1>2. success = "true" <=> Completed(q.of, f) /\ f # "execute_wrong_type"
  OBVIOUS
<1>3. Completed(q.of, f) => (user = q.of <=> (f = "execute_wrong_binding" => q.of = "supervisor"))
  OBVIOUS
<1> HIDE DEF success, user
<1>4. /\ ExecuteBody(success, user) # Silence
      /\ ExecuteBody(success, user).kind = "execute"
      /\ ExecuteBody(success, user).success = success
      /\ ExecuteBody(success, user).user = user
  BY DEF ExecuteBody, Silence
<1>5. Yes(q, f) <=> success = "true" /\ user = q.of
  BY <1>1, <1>4 DEF Yes, Read, ReadExecute
<1> QED BY <1>2, <1>3, <1>5

\* The truth, when no fault is about: HealthyAnswersAreTrue of one answer.
LEMMA HealthyYes ==
    ASSUME NEW q \in Questions
    PROVE  Yes(q, "none") <=> Granted(q, "none")
<1>1. CASE q.op = "check"
  BY <1>1, YesToCheck DEF Granted, TakenBack
<1>2. CASE q.op = "authorize"
  <2>1. Yes(q, "none") <=> /\ Recorded(q.of, "none").status = "completed"
                           /\ Recorded(q.of, "none").user = q.of
    BY <1>2, YesToAuthorize
  <2> QED BY <1>2, <2>1 DEF Granted, Recorded, Completed
<1>3. CASE q.op = "execute"
  BY <1>3, YesToExecute DEF Granted, Completed
<1> QED BY <1>1, <1>2, <1>3 DEF Questions

----------------------------------------------------------------------------
(* What the faults of the benchmark can make a client believe. *)

\* Each fault is armed for one call.
LEMMA FaultCalls ==
    ASSUME NEW t \in Trials
    PROVE  /\ t.fault \in {"string_false", "stale_allow"} => t.call = "dashboard"
           /\ t.fault = "wrong_resource" => t.call = "sibling"
           /\ t.fault \in {"wrong_type", "authorize_other_user", "execute_wrong_type",
                           "execute_wrong_binding"} => t.call = "drive"
           /\ t.fault = "replay_completed" => t.call = "delegated"
           /\ t.fault \in {"execute_wrong_type", "execute_wrong_binding"}
                => t.mode \in ExecuteModes
BY DEF Trials, Controls, FaultTrials, Trial

LEMMA Questioned ==
    ASSUME NEW t \in Trials, NEW i \in 1..Len(Conversation(t))
    PROVE  /\ Conversation(t)[i] \in Questions
           /\ \/ Conversation(t)[i] = PolicyQuestion(t)
              \/ /\ t.call \notin Dashboards
                 /\ Conversation(t)[i] \in {Execute(UserOf(t.call)), Execute(Principal)}
<1>1. Conversation(t) \in Seq(Questions)
  BY ConversationType
<1>2. /\ t.call \in Calls
      /\ t.mode \in {"native", "workos", "arcade"} \cup Mediated
      /\ t.mode = "workos" => t.call \in Dashboards
      /\ t.mode = "arcade" => t.call \notin Dashboards
  BY TrialFields
<1> DEFINE q == PolicyQuestion(t)
           e == Execute(UserOf(t.call))
           p == Execute(Principal)
<1>3. \/ Conversation(t) = <<q>>
      \/ Conversation(t) = <<q, q>>
      \/ t.call \notin Dashboards /\ Conversation(t) = <<q, e>>
      \/ t.call \notin Dashboards /\ Conversation(t) = <<q, q, p>>
  BY <1>2 DEF Conversation, Mediated
<1> HIDE DEF q, e, p
<1>4. Conversation(t)[i] = q \/ (t.call \notin Dashboards /\ Conversation(t)[i] \in {e, p})
  BY <1>3
<1> QED BY <1>1, <1>4 DEF q, e, p

LEMMA DashboardQuestions ==
    ASSUME NEW t \in Trials, NEW i \in 1..Len(Conversation(t)), t.call \in Dashboards
    PROVE  Conversation(t)[i].op = "check"
<1>1. Conversation(t)[i] = PolicyQuestion(t)
  BY Questioned
<1> QED BY <1>1 DEF PolicyQuestion, Check

LEMMA DriveQuestions ==
    ASSUME NEW t \in Trials, NEW i \in 1..Len(Conversation(t)), t.call = "drive"
    PROVE  /\ Conversation(t)[i].op \in {"authorize", "execute"}
           /\ Conversation(t)[i].of = Principal
<1>1. PolicyQuestion(t) = Authorize(Principal)
  BY DEF PolicyQuestion, Dashboards, UserOf
<1>2. UserOf(t.call) = Principal
  BY DEF UserOf
<1>3. Conversation(t)[i] \in {Authorize(Principal), Execute(Principal)}
  BY <1>1, <1>2, Questioned
<1> QED BY <1>3 DEF Authorize, Execute

LEMMA DisturbedYes ==
    ASSUME NEW t \in Trials, NEW i \in 1..Len(Conversation(t)),
           Yes(Conversation(t)[i], t.fault), Disturbs(t.fault, Conversation(t)[i])
    PROVE  t.fault \in Exposing
<1> DEFINE q == Conversation(t)[i]
<1>1. q \in Questions
  BY Questioned
<1>2. t.fault \notin {"timeout", "malformed"}
  BY <1>1, YesIsRouted
<1>3. t.fault \in Faults
  <2>1. t.fault # "none"
    BY DEF Disturbs
  <2> QED BY <2>1, TrialFields
<1>4. t.fault # "string_false"
  <2> SUFFICES ASSUME t.fault = "string_false" PROVE FALSE
    OBVIOUS
  <2>1. t.call \in Dashboards
    BY FaultCalls DEF Dashboards
  <2>2. q.op = "check"
    BY <2>1, DashboardQuestions
  <2> QED BY <1>1, <1>2, <2>2, YesToCheck
<1>5. t.fault \notin {"wrong_type", "authorize_other_user"}
  <2> SUFFICES ASSUME t.fault \in {"wrong_type", "authorize_other_user"} PROVE FALSE
    OBVIOUS
  <2>1. q.op = "authorize"
    BY DEF Disturbs
  <2>2. q.of = Principal
    BY FaultCalls, DriveQuestions
  <2>3. t.fault # "wrong_type" /\ Recorded(q.of, t.fault).user = q.of
    BY <1>1, <1>2, <2>1, YesToAuthorize
  <2> QED BY <2>2, <2>3 DEF Recorded, Principal
<1>6. t.fault \notin {"execute_wrong_type", "execute_wrong_binding"}
  <2> SUFFICES ASSUME t.fault \in {"execute_wrong_type", "execute_wrong_binding"} PROVE FALSE
    OBVIOUS
  <2>1. q.op = "execute"
    BY DEF Disturbs
  <2>2. q.of = Principal
    BY FaultCalls, DriveQuestions
  <2>3. t.fault # "execute_wrong_type" /\ q.of = "supervisor"
    BY <1>1, <1>2, <2>1, YesToExecute
  <2> QED BY <2>2, <2>3 DEF Principal
<1> QED BY <1>2, <1>3, <1>4, <1>5, <1>6, FaultsListed DEF Exposing

\* FaultTrialsFailClosed of a run that was told yes all along.
LEMMA FailClosedYes ==
    ASSUME NEW t \in Trials, t.fault # "none", ~StopsLocally(t),
           \A i \in 1..Len(Conversation(t)) : Yes(Conversation(t)[i], t.fault)
    PROVE  t.fault \in Exposing /\ t.mode \notin Mediated
<1>1. Len(Conversation(t)) \in 1..3
  BY ConversationType
<1>2. t.fault \in Exposing
  <2>1. \E i \in 1..Len(Conversation(t)) : Disturbs(t.fault, Conversation(t)[i])
    <3>1. CASE t.fault \in {"execute_wrong_type", "execute_wrong_binding"}
      <4>1. t.call = "drive" /\ t.mode \in ExecuteModes
        BY <3>1, FaultCalls
      <4>2. \/ Conversation(t) = <<PolicyQuestion(t), Execute(UserOf(t.call))>>
            \/ Conversation(t) = <<PolicyQuestion(t), PolicyQuestion(t), Execute(Principal)>>
        BY <4>1 DEF Conversation, ExecuteModes, Mediated, Dashboards
      <4>3. \A u : Disturbs(t.fault, Execute(u))
        BY <3>1 DEF Disturbs, Execute
      <4>4. CASE Conversation(t) = <<PolicyQuestion(t), Execute(UserOf(t.call))>>
        <5>1. 2 \in 1..Len(Conversation(t)) /\ Conversation(t)[2] = Execute(UserOf(t.call))
          BY <4>4
        <5> QED BY <5>1, <4>3
      <4>5. CASE Conversation(t) =
                    <<PolicyQuestion(t), PolicyQuestion(t), Execute(Principal)>>
        <5>1. 3 \in 1..Len(Conversation(t)) /\ Conversation(t)[3] = Execute(Principal)
          BY <4>5
        <5> QED BY <5>1, <4>3
      <4> QED BY <4>2, <4>4, <4>5
    <3>2. CASE t.fault \in {"wrong_type", "authorize_other_user"}
      <4>1. t.call = "drive"
        BY <3>2, FaultCalls
      <4>2. PolicyQuestion(t) = Authorize(Principal)
        BY <4>1 DEF PolicyQuestion, Dashboards, UserOf
      <4>3. Disturbs(t.fault, PolicyQuestion(t))
        BY <3>2, <4>2 DEF Disturbs, Authorize
      <4>4. 1 \in 1..Len(Conversation(t)) /\ Conversation(t)[1] = PolicyQuestion(t)
        BY <1>1, <4>1, TrialFields DEF Conversation, Mediated
      <4> QED BY <4>3, <4>4
    <3>3. CASE t.fault \notin {"execute_wrong_type", "execute_wrong_binding",
                               "wrong_type", "authorize_other_user"}
      <4>1. 1 \in 1..Len(Conversation(t))
        BY <1>1
      <4> QED BY <3>3, <4>1 DEF Disturbs
    <3> QED BY <3>1, <3>2, <3>3
  <2> QED BY <2>1, DisturbedYes
<1>3. t.mode \notin Mediated
  BY <1>2, FaultCalls DEF Exposing, StopsLocally, RevokedLocally
<1> QED BY <1>2, <1>3

----------------------------------------------------------------------------
(* The inductive invariant. *)

\* What the i-th question of run r left at Arcade if it was handled.
Noted(r, i) ==
    LET q == Conversation(trial[r])[i]
        f == trial[r].fault
    IN  /\ IsRouted("authorize", q, f) =>
             [run |-> r, nth |-> i, status |-> Recorded(q.of, f).status,
              user |-> Recorded(q.of, f).user] \in authorizations
        /\ IsRouted("execute", q, f) /\ Completed(q.of, f) => r \in executed

\* Where a run is, and what it then may hold.
Placed(r) ==
    /\ stage[r] = "idle" => /\ trial[r] = Nothing
                            /\ heard[r] = << >>
                            /\ wire[r] = Nothing
                            /\ r \notin effects
    /\ stage[r] # "idle" => trial[r] \in Trials
    /\ stage[r] \in {"deciding", "waiting"} => /\ armed[r] = trial[r].fault
                                               /\ Len(heard[r]) < Len(Conversation(trial[r]))
    /\ stage[r] = "deciding" => wire[r] = Nothing
    /\ stage[r] # "waiting" => reply[r] = Nothing
    /\ stage[r] = "waiting" \/ heard[r] # << >> => ~StopsLocally(trial[r])

\* A request with a server carries the fault of its own run, and if the run
\* still waits for it, the question the run is at.
Sent(r) ==
    wire[r] # Nothing =>
        /\ wire[r].fault = trial[r].fault
        /\ stage[r] = "waiting" => /\ reply[r] = Nothing
                                   /\ wire[r].nth = Len(heard[r]) + 1
                                   /\ wire[r].question = Conversation(trial[r])[Len(heard[r]) + 1]

\* An answer on its way is the one to the question the run is at.
Replied(r) ==
    reply[r] # Nothing =>
        LET q == Conversation(trial[r])[Len(heard[r]) + 1]
        IN  /\ reply[r] = Answer(q, trial[r].fault)
            /\ reply[r] # Silence
            /\ Noted(r, Len(heard[r]) + 1)

\* What was heard: a fault, or what the answer to that question is taken for.
Heard(r) ==
    \A i \in 1..Len(heard[r]) :
        LET q == Conversation(trial[r])[i]
            f == trial[r].fault
        IN  /\ i \in 1..Len(Conversation(trial[r]))
            /\ \/ heard[r][i] = "fault"
               \/ /\ Answer(q, f) # Silence
                  /\ heard[r][i] = Read(q, Answer(q, f))
                  /\ Noted(r, i)

\* A run goes on, and takes effect, on nothing but a yes.
Earned(r) ==
    /\ stage[r] # "done" => \A i \in 1..Len(heard[r]) : heard[r][i] = "yes"
    /\ r \in effects => /\ Len(heard[r]) = Len(Conversation(trial[r]))
                        /\ \A i \in 1..Len(heard[r]) : heard[r][i] = "yes"

RunInv(r) == Placed(r) /\ Sent(r) /\ Replied(r) /\ Heard(r) /\ Earned(r)

WireInv == TypeOK /\ \A r \in Runs : RunInv(r)

LEMMA WireInit == Init => WireInv
<1> SUFFICES ASSUME Init PROVE WireInv
  OBVIOUS
<1>1. TypeOK
  BY DEF Init, TypeOK
<1>2. ASSUME NEW r \in Runs PROVE RunInv(r)
  BY <1>2 DEF Init, RunInv, Placed, Sent, Replied, Heard, Earned
<1> QED BY <1>1, <1>2 DEF WireInv

----------------------------------------------------------------------------
(* The steps. *)

\* A step of one run leaves what is known of another.
LEMMA OthersKeep ==
    ASSUME NEW r \in Runs, RunInv(r),
           trial'[r] = trial[r], armed'[r] = armed[r], stage'[r] = stage[r],
           heard'[r] = heard[r], wire'[r] = wire[r], reply'[r] = reply[r],
           r \in effects' <=> r \in effects,
           authorizations \subseteq authorizations', executed \subseteq executed'
    PROVE  RunInv(r)'
<1>1. \A i : Noted(r, i) => Noted(r, i)'
  BY DEF Noted
<1>2. Placed(r)' /\ Sent(r)' /\ Earned(r)'
  BY DEF RunInv, Placed, Sent, Earned
<1>3. Replied(r)'
  BY <1>1 DEF RunInv, Replied
<1>4. Heard(r)'
  BY <1>1 DEF RunInv, Heard
<1> QED BY <1>2, <1>3, <1>4 DEF RunInv

LEMMA BeginKeeps ==
    ASSUME WireInv, NEW r \in Runs, Begin(r) PROVE WireInv'
<1> USE DEF Begin, serverVars
<1>1. PICK t \in Trials : /\ trial' = [trial EXCEPT ![r] = t]
                          /\ armed' = [armed EXCEPT ![r] = t.fault]
  OBVIOUS
<1>2. TypeOK'
  <2>1. t.fault \in Faults \cup {"none"}
    BY TrialFields
  <2> QED BY <1>1, <2>1 DEF WireInv, TypeOK
<1>3. RunInv(r)'
  <2>1. /\ trial'[r] = t /\ armed'[r] = t.fault /\ stage'[r] = "deciding"
        /\ heard'[r] = << >> /\ wire'[r] = Nothing /\ reply'[r] = Nothing
        /\ r \notin effects'
    BY <1>1 DEF WireInv, TypeOK, RunInv, Placed
  <2>2. Len(Conversation(t)) \in 1..3
    BY ConversationType
  <2>3. Len(heard'[r]) = 0 /\ Len(heard'[r]) < Len(Conversation(t))
    <3>1. Len(<< >>) = 0
      OBVIOUS
    <3>2. heard'[r] = << >>
      BY <2>1
    <3>3. 0 < Len(Conversation(t))
      BY ONLY <2>2
    <3> QED BY ONLY <3>1, <3>2, <3>3
  <2>4. Placed(r)'
    BY <2>1, <2>3 DEF Placed
  <2>5. Sent(r)' /\ Replied(r)'
    BY <2>1 DEF Sent, Replied
  <2>6. Heard(r)' /\ Earned(r)'
    BY <2>1, <2>3 DEF Heard, Earned
  <2> QED BY <2>4, <2>5, <2>6 DEF RunInv
<1>4. ASSUME NEW q \in Runs \ {r} PROVE RunInv(q)'
  BY <1>1, OthersKeep DEF WireInv, TypeOK
<1> QED BY <1>2, <1>3, <1>4 DEF WireInv

LEMMA DenyLocallyKeeps ==
    ASSUME WireInv, NEW r \in Runs, DenyLocally(r) PROVE WireInv'
<1> USE DEF DenyLocally, Conclude, serverVars
<1>1. TypeOK'
  BY DEF WireInv, TypeOK
<1>2. RunInv(r)'
  <2>1. /\ trial'[r] = trial[r] /\ stage'[r] = "done" /\ heard'[r] = heard[r]
        /\ wire'[r] = wire[r] /\ reply'[r] = reply[r] /\ effects' = effects
        /\ stage[r] = "deciding"
    BY DEF WireInv, TypeOK
  <2>2. \A i : Noted(r, i) => Noted(r, i)'
    BY <2>1 DEF Noted
  <2>3. Placed(r)' /\ Sent(r)' /\ Replied(r)' /\ Earned(r)'
    BY <2>1 DEF WireInv, RunInv, Placed, Sent, Replied, Earned
  <2>4. Heard(r)'
    BY <2>1, <2>2 DEF WireInv, RunInv, Heard
  <2> QED BY <2>3, <2>4 DEF RunInv
<1>3. ASSUME NEW q \in Runs \ {r} PROVE RunInv(q)'
  BY OthersKeep DEF WireInv, TypeOK
<1> QED BY <1>1, <1>2, <1>3 DEF WireInv

LEMMA AskKeeps ==
    ASSUME WireInv, NEW r \in Runs, Ask(r) PROVE WireInv'
<1> USE DEF Ask, serverVars
<1> DEFINE n == Len(heard[r]) + 1
           q == Conversation(trial[r])[n]
<1>1. /\ trial[r] \in Trials /\ armed[r] = trial[r].fault
      /\ n \in 1..Len(Conversation(trial[r])) /\ n \in Nat
      /\ armed[r] \in Faults \cup {"none"}
  BY ConversationType DEF WireInv, TypeOK, RunInv, Placed
<1>2. q \in Questions
  BY <1>1, Questioned
<1>3. wire' = [wire EXCEPT ![r] = [question |-> q, nth |-> n, fault |-> armed[r]]]
  BY DEF Question
<1> HIDE DEF q, n
<1>4. TypeOK'
  BY <1>1, <1>2, <1>3 DEF WireInv, TypeOK
<1>5. RunInv(r)'
  <2>1. /\ trial'[r] = trial[r] /\ armed'[r] = armed[r] /\ stage'[r] = "waiting"
        /\ heard'[r] = heard[r] /\ reply'[r] = reply[r] /\ effects' = effects
        /\ stage[r] = "deciding" /\ ~StopsLocally(trial[r])
        /\ wire'[r] = [question |-> q, nth |-> n, fault |-> armed[r]]
    BY <1>3 DEF WireInv, TypeOK
  <2>2. \A i : Noted(r, i) => Noted(r, i)'
    BY <2>1 DEF Noted
  <2>3. Placed(r)' /\ Replied(r)' /\ Earned(r)'
    BY <2>1 DEF WireInv, RunInv, Placed, Replied, Earned
  <2>4. Sent(r)'
    BY <1>1, <2>1 DEF WireInv, RunInv, Placed, Sent, q, n
  <2>5. Heard(r)'
    BY <2>1, <2>2 DEF WireInv, RunInv, Heard
  <2> QED BY <2>3, <2>4, <2>5 DEF RunInv
<1>6. ASSUME NEW o \in Runs \ {r} PROVE RunInv(o)'
  BY <1>3, OthersKeep DEF WireInv, TypeOK
<1> QED BY <1>4, <1>5, <1>6 DEF WireInv

LEMMA HandleKeeps ==
    ASSUME WireInv, NEW r \in Runs, Handle(r) PROVE WireInv'
<1> DEFINE q == wire[r].question
           f == wire[r].fault
           record == Recorded(q.of, f)
           n == Len(heard[r]) + 1
           entry == [run |-> r, nth |-> wire[r].nth, status |-> record.status,
                     user |-> record.user]
<1>1. /\ wire[r] # Nothing
      /\ reply' = [reply EXCEPT ![r] =
            IF stage[r] = "waiting" /\ Answer(q, f) # Silence THEN Answer(q, f) ELSE @]
      /\ authorizations' = IF IsRouted("authorize", q, f)
                           THEN authorizations \cup {entry} ELSE authorizations
      /\ executed' = IF IsRouted("execute", q, f) /\ Completed(q.of, f)
                     THEN executed \cup {r} ELSE executed
      /\ wire' = [wire EXCEPT ![r] = Nothing]
      /\ UNCHANGED <<trial, armed, stage, heard, effects>>
  BY Zenon DEF Handle, FaultOf
<1>2. /\ q \in Questions /\ f \in Faults \cup {"none"} /\ wire[r].nth \in Nat
      /\ f = trial[r].fault
  BY <1>1 DEF WireInv, TypeOK, RunInv, Sent
<1>3. Answer(q, f) \in Bodies \cup {Raw, Silence}
  BY <1>2, AnswerType
<1>4. IsRouted("authorize", q, f) => entry \in
          [run : Runs, nth : Nat, status : {"pending", "completed"}, user : Users]
  <2>1. IsRouted("authorize", q, f) => q.of \in Users
    BY <1>2 DEF IsRouted, Questions
  <2>2. q.of \in Users => record.status \in {"pending", "completed"} /\ record.user \in Users
    BY DEF Recorded, Users
  <2> HIDE DEF record
  <2> QED BY <1>2, <2>1, <2>2
<1>5. stage[r] = "waiting" => /\ reply[r] = Nothing
                              /\ wire[r].nth = n
                              /\ q = Conversation(trial[r])[n]
  BY <1>1 DEF WireInv, RunInv, Sent
<1> HIDE DEF q, f, record, entry
<1>6. TypeOK'
  <2>1. reply' \in [Runs -> Bodies \cup {Raw, Nothing}]
    BY <1>1, <1>3 DEF WireInv, TypeOK
  <2>2. wire' \in [Runs -> [question : Questions, nth : Nat, fault : Faults \cup {"none"}]
                            \cup {Nothing}]
    BY <1>1 DEF WireInv, TypeOK
  <2>3. /\ authorizations' \subseteq
                [run : Runs, nth : Nat, status : {"pending", "completed"}, user : Users]
        /\ executed' \subseteq Runs
    BY <1>1, <1>4 DEF WireInv, TypeOK
  <2> QED BY <1>1, <2>1, <2>2, <2>3 DEF WireInv, TypeOK
<1>7. authorizations \subseteq authorizations' /\ executed \subseteq executed'
  BY <1>1
<1>8. RunInv(r)'
  <2>1. /\ wire'[r] = Nothing
        /\ reply'[r] = IF stage[r] = "waiting" /\ Answer(q, f) # Silence
                       THEN Answer(q, f) ELSE reply[r]
    BY <1>1 DEF WireInv, TypeOK
  <2>2. \A i : Noted(r, i) => Noted(r, i)'
    BY <1>1, <1>7 DEF Noted
  <2>3. Placed(r)' /\ Sent(r)' /\ Earned(r)'
    BY <1>1, <2>1 DEF WireInv, RunInv, Placed, Sent, Earned
  <2>4. Heard(r)'
    BY <1>1, <2>2 DEF WireInv, RunInv, Heard
  <2>5. Replied(r)'
    <3>1. CASE stage[r] = "waiting"
      <4>1. Noted(r, n)'
        BY <1>1, <1>2, <1>5, <3>1 DEF Noted, record, entry
      <4>2. reply'[r] # Nothing => reply'[r] = Answer(q, f) /\ reply'[r] # Silence
        BY <2>1, <1>5, <3>1
      <4> QED BY <1>1, <1>2, <1>5, <3>1, <4>1, <4>2 DEF Replied
    <3>2. CASE stage[r] # "waiting"
      <4>1. reply'[r] = Nothing
        BY <2>1, <3>2 DEF WireInv, RunInv, Placed
      <4> QED BY <4>1 DEF Replied
    <3> QED BY <3>1, <3>2
  <2> QED BY <2>3, <2>4, <2>5 DEF RunInv
<1>9. ASSUME NEW o \in Runs \ {r} PROVE RunInv(o)'
  BY <1>1, <1>7, OthersKeep DEF WireInv, TypeOK
<1> QED BY <1>6, <1>8, <1>9 DEF WireInv

\* Hearing an answer, or its absence, in answer to the question at hand.
LEMMA HearKeeps ==
    ASSUME WireInv, NEW r \in Runs, stage[r] = "waiting",
           NEW verdict \in {"yes", "no", "fault"}, Hear(r, verdict),
           LET q == Conversation(trial[r])[Len(heard[r]) + 1]
               f == trial[r].fault
           IN  \/ verdict = "fault"
               \/ /\ Answer(q, f) # Silence
                  /\ verdict = Read(q, Answer(q, f))
                  /\ Noted(r, Len(heard[r]) + 1)
                  /\ wire[r] = Nothing
    PROVE  WireInv'
<1> DEFINE n == Len(heard[r]) + 1
           goesOn == verdict = "yes" /\ MoreToAsk(trial[r], n)
<1>1. /\ heard \in [Runs -> Seq({"yes", "no", "fault"})]
      /\ heard[r] \in Seq({"yes", "no", "fault"})
      /\ trial[r] \in Trials
      /\ Len(heard[r]) \in Nat
      /\ n \in 1..Len(Conversation(trial[r]))
  BY ConversationType DEF WireInv, TypeOK, RunInv, Placed
<1>2. /\ heard' = [heard EXCEPT ![r] = Append(@, verdict)]
      /\ reply' = [reply EXCEPT ![r] = Nothing]
      /\ UNCHANGED <<trial, wire, authorizations, executed>>
  BY DEF Hear, serverVars
<1>3. /\ heard'[r] = Append(heard[r], verdict)
      /\ Len(heard'[r]) = n
      /\ heard'[r][n] = verdict
      /\ \A i \in 1..Len(heard[r]) : heard'[r][i] = heard[r][i]
      /\ heard'[r] \in Seq({"yes", "no", "fault"})
  <2>1. heard'[r] = Append(heard[r], verdict)
    BY <1>1, <1>2
  <2> QED BY <1>1, <2>1
<1>4. \/ /\ goesOn
         /\ stage' = [stage EXCEPT ![r] = "deciding"]
         /\ UNCHANGED <<armed, effects>>
      \/ /\ ~goesOn
         /\ stage' = [stage EXCEPT ![r] = "done"]
         /\ armed' = [armed EXCEPT ![r] = "none"]
         /\ effects' = IF verdict = "yes" THEN effects \cup {r} ELSE effects
  BY <1>3 DEF Hear, Conclude
<1>5. goesOn => n < Len(Conversation(trial[r])) /\ verdict = "yes"
  BY DEF MoreToAsk
<1>6. ~goesOn /\ verdict = "yes" => n = Len(Conversation(trial[r]))
  <2>1. Len(Conversation(trial[r])) \in 1..3
    BY <1>1, ConversationType
  <2> QED BY <1>1, <2>1 DEF MoreToAsk
<1>7. goesOn => wire[r] = Nothing
  OBVIOUS
<1>8. r \notin effects
  BY <1>1 DEF WireInv, RunInv, Placed, Earned
<1> HIDE DEF goesOn
<1>9. TypeOK'
  <2>1. heard' \in [Runs -> Seq({"yes", "no", "fault"})]
    BY <1>1, <1>2, <1>3
  <2>2. /\ reply' \in [Runs -> Bodies \cup {Raw, Nothing}]
        /\ stage' \in [Runs -> {"idle", "deciding", "waiting", "done"}]
        /\ armed' \in [Runs -> Faults \cup {"none"}]
        /\ effects' \subseteq Runs
    BY <1>2, <1>4 DEF WireInv, TypeOK
  <2> QED BY <1>2, <2>1, <2>2 DEF WireInv, TypeOK
<1>10. RunInv(r)'
  <2>1. reply'[r] = Nothing /\ trial'[r] = trial[r] /\ wire'[r] = wire[r]
    BY <1>2 DEF WireInv, TypeOK
  <2>2. \/ /\ goesOn /\ stage'[r] = "deciding" /\ armed'[r] = armed[r] /\ r \notin effects'
        \/ /\ ~goesOn /\ stage'[r] = "done" /\ (r \in effects' => verdict = "yes")
    BY <1>4, <1>8 DEF WireInv, TypeOK
  <2>3. \A i : Noted(r, i) => Noted(r, i)'
    BY <1>2 DEF Noted
  <2>4. Placed(r)'
    BY <1>1, <1>3, <1>5, <1>7, <2>1, <2>2 DEF WireInv, RunInv, Placed
  <2>5. Sent(r)' /\ Replied(r)'
    BY <1>7, <2>1, <2>2 DEF WireInv, RunInv, Sent, Replied
  <2>6. Heard(r)'
    BY <1>1, <1>3, <2>1, <2>3 DEF WireInv, RunInv, Heard
  <2>7. Earned(r)'
    BY <1>1, <1>3, <1>5, <1>6, <2>1, <2>2 DEF WireInv, RunInv, Earned
  <2> QED BY <2>4, <2>5, <2>6, <2>7 DEF RunInv
<1>11. ASSUME NEW o \in Runs \ {r} PROVE RunInv(o)'
  <2>1. /\ trial'[o] = trial[o] /\ armed'[o] = armed[o] /\ stage'[o] = stage[o]
        /\ heard'[o] = heard[o] /\ wire'[o] = wire[o] /\ reply'[o] = reply[o]
        /\ (o \in effects' <=> o \in effects)
    BY <1>2, <1>4 DEF WireInv, TypeOK
  <2>2. authorizations \subseteq authorizations' /\ executed \subseteq executed'
    BY <1>2
  <2> QED BY <2>1, <2>2, OthersKeep DEF WireInv
<1> QED BY <1>9, <1>10, <1>11 DEF WireInv

LEMMA ReceiveKeeps ==
    ASSUME WireInv, NEW r \in Runs, Receive(r) PROVE WireInv'
<1> DEFINE q == Conversation(trial[r])[Len(heard[r]) + 1]
           f == trial[r].fault
<1>1. stage[r] = "waiting" /\ reply[r] # Nothing /\ Hear(r, Read(q, reply[r]))
  BY DEF Receive, Question
<1>2. reply[r] = Answer(q, f) /\ Answer(q, f) # Silence /\ Noted(r, Len(heard[r]) + 1)
  BY <1>1 DEF WireInv, RunInv, Replied
<1>3. wire[r] = Nothing
  BY <1>1 DEF WireInv, RunInv, Sent
<1>4. Read(q, reply[r]) \in {"yes", "no", "fault"}
  <2>1. trial[r] \in Trials /\ Len(heard[r]) + 1 \in 1..Len(Conversation(trial[r]))
    BY <1>1, ConversationType DEF WireInv, TypeOK, RunInv, Placed
  <2>2. q \in Questions
    BY <2>1, Questioned
  <2>3. q.op \in {"check", "authorize", "execute"}
    BY <2>2 DEF Questions
  <2> HIDE DEF q
  <2> QED BY <2>3 DEF Read, ReadCheck, ReadAuthorize, ReadExecute
<1> QED BY <1>1, <1>2, <1>3, <1>4, HearKeeps

LEMMA GiveUpKeeps ==
    ASSUME WireInv, NEW r \in Runs, GiveUp(r) PROVE WireInv'
BY HearKeeps DEF GiveUp

THEOREM WireInvariant == Spec => []WireInv
<1>1. ASSUME WireInv, [Next]_vars PROVE WireInv'
  <2>1. ASSUME NEW r \in Runs, Begin(r) PROVE WireInv'
    BY <1>1, <2>1, BeginKeeps
  <2>2. ASSUME NEW r \in Runs, DenyLocally(r) PROVE WireInv'
    BY <1>1, <2>2, DenyLocallyKeeps
  <2>3. ASSUME NEW r \in Runs, Ask(r) PROVE WireInv'
    BY <1>1, <2>3, AskKeeps
  <2>4. ASSUME NEW r \in Runs, Receive(r) PROVE WireInv'
    BY <1>1, <2>4, ReceiveKeeps
  <2>5. ASSUME NEW r \in Runs, GiveUp(r) PROVE WireInv'
    BY <1>1, <2>5, GiveUpKeeps
  <2>6. ASSUME NEW r \in Runs, Handle(r) PROVE WireInv'
    BY <1>1, <2>6, HandleKeeps
  <2>7. ASSUME UNCHANGED vars PROVE WireInv'
    <3>1. TypeOK'
      BY <1>1, <2>7 DEF WireInv, TypeOK, vars
    <3>2. ASSUME NEW r \in Runs PROVE RunInv(r)'
      BY <1>1, <2>7, OthersKeep DEF WireInv, vars
    <3> QED BY <3>1, <3>2 DEF WireInv
  <2> QED BY <1>1, <2>1, <2>2, <2>3, <2>4, <2>5, <2>6, <2>7 DEF Next, Client
<1> QED BY <1>1, WireInit, PTL DEF Spec

----------------------------------------------------------------------------
(* What follows from it. *)

\* Trials, requests, answers and records keep their types, for any number of
\* overlapping runs.
THEOREM TypeCorrect == Spec => []TypeOK
<1>1. WireInv => TypeOK
  BY DEF WireInv
<1> QED BY <1>1, WireInvariant, PTL

\* The questions a run has heard the answer to, and the yes among them.
LEMMA HeardQuestions ==
    ASSUME WireInv, NEW r \in Runs, NEW i \in 1..Len(heard[r])
    PROVE  /\ trial[r] \in Trials
           /\ i \in 1..Len(Conversation(trial[r]))
           /\ Conversation(trial[r])[i] \in Questions
           /\ ~StopsLocally(trial[r])
           /\ \/ heard[r][i] = "fault"
              \/ heard[r][i] = "yes" <=> Yes(Conversation(trial[r])[i], trial[r].fault)
           /\ heard[r][i] = "yes" =>
                 Yes(Conversation(trial[r])[i], trial[r].fault) /\ Noted(r, i)
<1>1. heard[r] # << >>
  OBVIOUS
<1>2. trial[r] \in Trials /\ ~StopsLocally(trial[r])
  BY <1>1 DEF WireInv, RunInv, Placed
<1>3. i \in 1..Len(Conversation(trial[r]))
  BY DEF WireInv, RunInv, Heard
<1>4. Conversation(trial[r])[i] \in Questions
  BY <1>2, <1>3, Questioned
<1>5. \/ heard[r][i] = "fault"
      \/ /\ Answer(Conversation(trial[r])[i], trial[r].fault) # Silence
         /\ heard[r][i] = Read(Conversation(trial[r])[i],
                               Answer(Conversation(trial[r])[i], trial[r].fault))
         /\ Noted(r, i)
  BY DEF WireInv, RunInv, Heard
<1> QED BY <1>2, <1>3, <1>4, <1>5 DEF Yes

\* A run without a fault hears the truth or nothing, whatever the other runs
\* have armed.
THEOREM HealthIsTruth == Spec => []HealthyAnswersAreTrue
<1>1. WireInv => HealthyAnswersAreTrue
  BY HeardQuestions, HealthyYes DEF HealthyAnswersAreTrue, Begun
<1> QED BY <1>1, WireInvariant, PTL

\* No defect of form or binding is taken for an allow.
THEOREM DefectsDeny == Spec => []DisturbedAnswersDeny
<1>1. WireInv => DisturbedAnswersDeny
  BY HeardQuestions, DisturbedYes DEF DisturbedAnswersDeny, Begun
<1> QED BY <1>1, WireInvariant, PTL

LEMMA EffectIsYes ==
    ASSUME WireInv, NEW r \in effects
    PROVE  /\ r \in Runs /\ trial[r] \in Trials /\ ~StopsLocally(trial[r])
           /\ \A i \in 1..Len(Conversation(trial[r])) :
                 i \in 1..Len(heard[r]) /\ heard[r][i] = "yes"
<1>1. r \in Runs
  BY DEF WireInv, TypeOK
<1>2. /\ Len(heard[r]) = Len(Conversation(trial[r]))
      /\ \A i \in 1..Len(heard[r]) : heard[r][i] = "yes"
      /\ trial[r] \in Trials
  BY <1>1 DEF WireInv, RunInv, Earned, Placed
<1>3. 1 \in 1..Len(heard[r])
  BY <1>2, ConversationType
<1>4. ~StopsLocally(trial[r])
  BY <1>1, <1>3, HeardQuestions
<1> QED BY <1>1, <1>2, <1>4

\* No fault opens a mediated mode, and only a wrong decision in a perfect
\* form opens another.
THEOREM FaultsFailClosed == Spec => []FaultTrialsFailClosed
<1>1. ASSUME WireInv PROVE FaultTrialsFailClosed
  <2> SUFFICES ASSUME NEW r \in effects, trial[r].fault # "none"
               PROVE  trial[r].fault \in Exposing /\ trial[r].mode \notin Mediated
    BY DEF FaultTrialsFailClosed
  <2>1. /\ r \in Runs /\ trial[r] \in Trials /\ ~StopsLocally(trial[r])
        /\ \A i \in 1..Len(Conversation(trial[r])) :
              i \in 1..Len(heard[r]) /\ heard[r][i] = "yes"
    BY <1>1, EffectIsYes
  <2>2. \A i \in 1..Len(Conversation(trial[r])) :
            Yes(Conversation(trial[r])[i], trial[r].fault)
    BY <1>1, <2>1, HeardQuestions
  <2> QED BY <2>1, <2>2, FailClosedYes
<1> QED BY <1>1, WireInvariant, PTL

\* Behind every effect are the completed authorizations and the execution its
\* mode asks Arcade for.
THEOREM EffectsHaveATrace == Spec => []EffectsAreTraceable
<1>1. ASSUME WireInv PROVE EffectsAreTraceable
  <2> SUFFICES ASSUME NEW r \in effects, NEW i \in 1..Len(Conversation(trial[r]))
               PROVE  LET q == Conversation(trial[r])[i]
                      IN  /\ q.op = "authorize" =>
                               [run |-> r, nth |-> i, status |-> "completed", user |-> q.of]
                                  \in authorizations
                          /\ q.op = "execute" => r \in executed
    BY DEF EffectsAreTraceable
  <2> DEFINE q == Conversation(trial[r])[i]
             f == trial[r].fault
  <2>1. q \in Questions /\ Yes(q, f) /\ Noted(r, i)
    BY <1>1, EffectIsYes, HeardQuestions
  <2>2. f \notin {"timeout", "malformed"}
    BY <2>1, YesIsRouted
  <2>3. q.op = "authorize" => /\ IsRouted("authorize", q, f)
                              /\ Recorded(q.of, f).status = "completed"
                              /\ Recorded(q.of, f).user = q.of
    BY <2>1, <2>2, YesToAuthorize DEF IsRouted
  <2>4. q.op = "execute" => IsRouted("execute", q, f) /\ Completed(q.of, f)
    BY <2>1, <2>2, YesToExecute DEF IsRouted
  <2> QED BY <2>1, <2>3, <2>4 DEF Noted
<1> QED BY <1>1, WireInvariant, PTL
----------------------------------------------------------------------------
(* Why a run ends: its own steps run out.                                  *)

\* The steps a client can still take: two for each question it has not heard
\* the answer to, one of them behind it while it waits.
Unheard(r) == Len(Conversation(trial[r])) - Len(heard[r])
Left(r) ==
    CASE stage[r] = "deciding" -> 2 * Unheard(r)
      [] stage[r] = "waiting"  -> 2 * Unheard(r) - 1
      [] OTHER                 -> 0

Started == {r \in Runs : stage[r] # "idle"}

\* A client that is not done has a step left, and never more than six.
StepsAreLeft ==
    \A r \in Started : Left(r) \in 0..6 /\ (Left(r) = 0 <=> stage[r] = "done")

\* Every step of a client uses one up; no other run and no server adds one.
StepsAreUsedUp ==
    \A r \in Started : IF Client(r) THEN Left(r)' < Left(r) ELSE Left(r)' = Left(r)

LEMMA Shorter == \A m \in Nat, n \in 1..3 : m < n => n - m \in 1..3
OBVIOUS

LEMMA LeftIsBounded == WireInv => StepsAreLeft
<1> SUFFICES ASSUME WireInv, NEW r \in Started
             PROVE  Left(r) \in 0..6 /\ (Left(r) = 0 <=> stage[r] = "done")
  BY DEF StepsAreLeft
<1>1. r \in Runs /\ stage[r] \in {"deciding", "waiting", "done"}
  BY DEF Started, WireInv, TypeOK
<1>2. CASE stage[r] = "done"
  BY <1>2 DEF Left
<1>3. CASE stage[r] \in {"deciding", "waiting"}
  <2>1. Len(Conversation(trial[r])) \in 1..3
    BY <1>1, <1>3, ConversationType DEF WireInv, RunInv, Placed
  <2>2. Len(heard[r]) \in Nat /\ Len(heard[r]) < Len(Conversation(trial[r]))
    BY <1>1, <1>3 DEF WireInv, TypeOK, RunInv, Placed
  <2>3. Unheard(r) \in 1..3
    BY <2>1, <2>2, Shorter DEF Unheard
  <2> QED BY ONLY <1>3, <2>3 DEF Left
<1> QED BY <1>1, <1>2, <1>3

LEMMA ClientUsesOne ==
    ASSUME WireInv, NEW r \in Runs, Client(r) PROVE Left(r)' < Left(r)
<1>1. /\ stage[r] \in {"deciding", "waiting"} /\ trial'[r] = trial[r]
      /\ r \in Started
  BY DEF Client, DenyLocally, Ask, Receive, GiveUp, Hear, Started
<1>2. Left(r) \in 0..6 /\ Left(r) # 0
  BY <1>1, LeftIsBounded DEF StepsAreLeft
<1>3. CASE DenyLocally(r)
  <2>1. stage'[r] = "done"
    BY <1>3 DEF DenyLocally, Conclude, WireInv, TypeOK
  <2>2. Left(r)' = 0
    BY <2>1 DEF Left
  <2> QED BY <1>2, <2>2
<1>4. Unheard(r) \in 1..3 /\ Len(heard[r]) \in Nat /\ Len(Conversation(trial[r])) \in 1..3
  <2>1. Len(Conversation(trial[r])) \in 1..3
    BY <1>1, ConversationType DEF WireInv, RunInv, Placed
  <2>2. Len(heard[r]) \in Nat /\ Len(heard[r]) < Len(Conversation(trial[r]))
    BY <1>1 DEF WireInv, TypeOK, RunInv, Placed
  <2> QED BY <2>1, <2>2, Shorter DEF Unheard
<1>5. CASE Ask(r)
  <2>1. stage[r] = "deciding" /\ stage'[r] = "waiting" /\ heard' = heard
    BY <1>5 DEF Ask, WireInv, TypeOK
  <2>2. Unheard(r)' = Unheard(r)
    BY <1>1, <2>1 DEF Unheard
  <2>3. Left(r) = 2 * Unheard(r) /\ Left(r)' = 2 * Unheard(r) - 1
    BY <2>1, <2>2 DEF Left
  <2> QED BY ONLY <1>4, <2>3
<1>6. ASSUME NEW v, stage[r] = "waiting", Hear(r, v) PROVE Left(r)' < Left(r)
  <2>1. stage'[r] = "done" \/ stage'[r] = "deciding"
    BY <1>6 DEF Hear, Conclude, WireInv, TypeOK
  <2>2. CASE stage'[r] = "done"
    <3>1. Left(r)' = 0
      BY <2>2 DEF Left
    <3> QED BY <1>2, <3>1
  <2>3. CASE stage'[r] = "deciding"
    <3>1. heard[r] \in Seq({"yes", "no", "fault"}) /\ heard'[r] = Append(heard[r], v)
      BY <1>6 DEF Hear, WireInv, TypeOK
    <3>2. Len(heard'[r]) = Len(heard[r]) + 1
      BY <3>1
    <3>3. Unheard(r)' = Unheard(r) - 1
      BY <1>1, <1>4, <3>2 DEF Unheard
    <3>4. Left(r) = 2 * Unheard(r) - 1 /\ Left(r)' = 2 * (Unheard(r) - 1)
      BY <1>6, <2>3, <3>3 DEF Left
    <3> QED BY ONLY <1>4, <3>4
  <2> QED BY <2>1, <2>2, <2>3
<1>7. CASE Receive(r)
  BY <1>6, <1>7 DEF Receive
<1>8. CASE GiveUp(r)
  BY <1>6, <1>8 DEF GiveUp
<1> QED BY <1>3, <1>5, <1>7, <1>8 DEF Client

\* The steps of the servers, and of the other runs, leave what a run is at.
LEMMA OthersUseNone ==
    ASSUME WireInv, [Next]_vars, NEW r \in Started, ~Client(r) PROVE Left(r)' = Left(r)
<1> SUFFICES /\ stage'[r] = stage[r]
             /\ trial'[r] = trial[r]
             /\ heard'[r] = heard[r]
  BY DEF Left, Unheard
<1>1. r \in Runs /\ stage[r] # "idle"
  BY DEF Started
<1>2. CASE UNCHANGED vars
  BY <1>2 DEF vars
<1>3. ASSUME NEW q \in Runs, Begin(q)
      PROVE  stage'[r] = stage[r] /\ trial'[r] = trial[r] /\ heard'[r] = heard[r]
  <2>1. q # r
    BY <1>1, <1>3 DEF Begin
  <2> QED BY <1>1, <1>3, <2>1 DEF Begin, WireInv, TypeOK
<1>4. ASSUME NEW q \in Runs, Client(q)
      PROVE  stage'[r] = stage[r] /\ trial'[r] = trial[r] /\ heard'[r] = heard[r]
  <2>1. q # r
    BY <1>4
  <2>2. CASE DenyLocally(q)
    BY <1>1, <2>1, <2>2 DEF DenyLocally, Conclude, WireInv, TypeOK
  <2>3. CASE Ask(q)
    BY <1>1, <2>1, <2>3 DEF Ask, WireInv, TypeOK
  <2>4. ASSUME NEW v, Hear(q, v)
        PROVE  stage'[r] = stage[r] /\ trial'[r] = trial[r] /\ heard'[r] = heard[r]
    BY <1>1, <2>1, <2>4 DEF Hear, Conclude, WireInv, TypeOK
  <2> QED BY <1>4, <2>2, <2>3, <2>4 DEF Client, Receive, GiveUp
<1>5. ASSUME NEW q \in Runs, Handle(q)
      PROVE  stage'[r] = stage[r] /\ trial'[r] = trial[r] /\ heard'[r] = heard[r]
  BY <1>5 DEF Handle
<1> QED BY <1>2, <1>3, <1>4, <1>5 DEF Next

\* A client takes at most six steps from its first question, whatever the
\* servers and the other runs do: what is left to TLC of EveryRunEnds is that a
\* client with a step left can take it (the deadline of every wait).
THEOREM ClientsRunOut == Spec => [](StepsAreLeft) /\ [][StepsAreUsedUp]_vars
<1>1. WireInv /\ [Next]_vars => [StepsAreUsedUp]_vars
  BY ClientUsesOne, OthersUseNone DEF StepsAreUsedUp, Started
<1> QED BY <1>1, LeftIsBounded, WireInvariant, PTL DEF Spec
=============================================================================
