---------------------------- MODULE ProviderWire ----------------------------
(***************************************************************************)
(* The provider wire: benchmark runs that ask the WorkOS and Arcade        *)
(* emulators over HTTP while a fault is armed for one of them.             *)
(*                                                                         *)
(* A run is one FrameworkAdapter.run: it makes a gate with clients of its  *)
(* own, arms the fault of its case at the client, lets the call be         *)
(* authorized and executed, and disarms.  The servers are shared: a thread *)
(* handles each request, when it comes to it, by the fault the request     *)
(* names.  A client waits three seconds and then takes no answer for a     *)
(* provider fault.  Runs overlap freely: several processes use one server. *)
(*                                                                         *)
(* The in-process transport is the special case in which a request is      *)
(* handled as soon as it is made, by an emulator no other run uses.        *)
(***************************************************************************)
EXTENDS Integers, Sequences

CONSTANTS
    Runs,        \* runs of the benchmark that may overlap
    Nothing,     \* no trial, no request, no reply
    Assigned,    \* resources the principal has a WorkOS role on
    Connected    \* users who completed Arcade's authorization for the tool

Resources == {"study", "sibling"}
Users == {"maya", "leo", "supervisor"}
Principal == "maya"

ASSUME GrantsAssumption == Assigned \subseteq Resources /\ Connected \subseteq Users

----------------------------------------------------------------------------
(* The trials. *)

Mediated == {"opa-mediated", "cerbos-mediated", "typesec"}
WorkosModes == {"native", "workos"} \cup Mediated
AuthorizeModes == {"native", "arcade"} \cup Mediated
ExecuteModes == {"arcade"} \cup Mediated

Dashboards == {"dashboard", "sibling"}
Calls == Dashboards \cup {"drive", "delegated"}

\* The resource or the user a call is about.
ResourceOf(call) == IF call = "sibling" THEN "sibling" ELSE "study"
UserOf(call) == IF call = "delegated" THEN "leo" ELSE Principal

Trial(calls, faults, modes) == [call : calls, fault : faults, mode : modes]

FaultTrials ==
    UNION { Trial({"dashboard"},
                  {"timeout", "malformed", "string_false", "stale_allow"}, WorkosModes),
            Trial({"sibling"}, {"wrong_resource"}, WorkosModes),
            Trial({"drive"},
                  {"timeout", "malformed", "wrong_type", "authorize_other_user"},
                  AuthorizeModes),
            Trial({"delegated"}, {"replay_completed"}, AuthorizeModes),
            Trial({"drive"}, {"execute_wrong_type", "execute_wrong_binding"}, ExecuteModes) }

\* The same calls with no fault armed.
Controls ==
    Trial(Dashboards, {"none"}, WorkosModes)
        \cup Trial({"drive", "delegated"}, {"none"}, AuthorizeModes)

Trials == FaultTrials \cup Controls
Faults == {t.fault : t \in FaultTrials}

\* Mutant: the gate of a mediated mode is not told of the revocation.
NeverRevokedLocally(t) == t.fault = "stale_allow" /\ t.mode = "native"

\* The adapter revokes locally what the stale answer pretends is still there.
RevokedLocally(t) == t.fault = "stale_allow" /\ t.mode \in Mediated

\* A mediated mode denies these before it asks a provider: the capability is
\* revoked, the engine finds no grant on the sibling, the delegated user is
\* not the principal.
StopsLocally(t) ==
    t.mode \in Mediated /\ (RevokedLocally(t) \/ t.call \in {"sibling", "delegated"})

----------------------------------------------------------------------------
(* What a run asks of the providers, in order. *)

Check(resource) == [op |-> "check", of |-> resource]
Authorize(user) == [op |-> "authorize", of |-> user]
Execute(user) == [op |-> "execute", of |-> user]
Questions == [op : {"check"}, of : Resources] \cup [op : {"authorize", "execute"}, of : Users]

\* What the policy check asks of a provider.
PolicyQuestion(t) ==
    CASE t.call \in Dashboards /\ t.mode = "native" -> Check("study")
      [] t.call \in Dashboards /\ t.mode # "native" -> Check(ResourceOf(t.call))
      [] t.call \notin Dashboards                   -> Authorize(UserOf(t.call))

\* The check at authorization, and what the execution adds: the check again
\* in the modes that revalidate, and the execution at Arcade.
Conversation(t) ==
    LET asked == PolicyQuestion(t)
    IN  CASE t.mode = "native" -> <<asked>>
          [] t.mode = "workos" -> <<asked, asked>>
          [] t.mode = "arcade" -> <<asked, Execute(UserOf(t.call))>>
          [] t.mode \in Mediated /\ t.call \in Dashboards -> <<asked, asked>>
          [] t.mode \in Mediated /\ t.call \notin Dashboards ->
                <<asked, asked, Execute(Principal)>>

----------------------------------------------------------------------------
(* The emulators. *)

Silence == [kind |-> "silence"]
Raw == [kind |-> "raw"]
CheckBody(authorized) == [kind |-> "check", authorized |-> authorized]
AuthorizeBody(status, user) == [kind |-> "authorize", status |-> status, user |-> user]
ExecuteBody(success, user) == [kind |-> "execute", success |-> success, user |-> user]

Json(b) == IF b THEN "true" ELSE "false"

\* A role the provider has taken back, as the stale_allow fault supposes.
TakenBack(resource, fault) == fault = "stale_allow" /\ resource = "study"

AnswerCheck(resource, fault) ==
    LET looked == IF fault = "wrong_resource" THEN "study" ELSE resource
        authorized == looked \in Assigned \/ TakenBack(looked, fault)
    IN  CheckBody(IF fault = "string_false" THEN "text" ELSE Json(authorized))

Completed(user, fault) == user \in Connected \/ fault = "replay_completed"

\* Mutant: the corrupted status is kept on record.
RecordedAsAnswered(user, fault) ==
    [status |-> CASE fault = "wrong_type"   -> "not text"
                  [] Completed(user, fault) -> "completed"
                  [] OTHER                  -> "pending",
     user   |-> IF fault = "authorize_other_user" THEN "supervisor" ELSE user]

\* The record the server keeps of an authorization, and its response.
Recorded(user, fault) ==
    [status |-> IF Completed(user, fault) THEN "completed" ELSE "pending",
     user   |-> IF fault = "authorize_other_user" THEN "supervisor" ELSE user]

AnswerAuthorize(user, fault) ==
    LET record == Recorded(user, fault)
    IN  AuthorizeBody(IF fault = "wrong_type" THEN "not text" ELSE record.status, record.user)

AnswerExecute(user, fault) ==
    IF Completed(user, fault)
    THEN ExecuteBody(IF fault = "execute_wrong_type" THEN "text" ELSE "true",
                     IF fault = "execute_wrong_binding" THEN "supervisor" ELSE user)
    ELSE ExecuteBody("false", user)

Answer(question, fault) ==
    CASE fault = "timeout"   -> Silence
      [] fault = "malformed" -> Raw
      [] OTHER               ->
            CASE question.op = "check"     -> AnswerCheck(question.of, fault)
              [] question.op = "authorize" -> AnswerAuthorize(question.of, fault)
              [] question.op = "execute"   -> AnswerExecute(question.of, fault)

\* The requests that get past the faults of the transport to their route.
IsRouted(op, question, fault) == question.op = op /\ fault \notin {"timeout", "malformed"}

----------------------------------------------------------------------------
(* The clients: what an answer is taken for. *)

\* Mutant: bool() of whatever the field holds.
ReadCheckTruthy(body) == IF body.authorized = "false" THEN "no" ELSE "yes"

ReadCheck(body) ==
    CASE body.authorized = "true"  -> "yes"
      [] body.authorized = "false" -> "no"
      [] OTHER                     -> "fault"

ReadAuthorize(user, body) ==
    CASE body.status \notin {"not_started", "pending", "completed", "failed"} -> "fault"
      [] body.status = "completed" /\ body.user = user                       -> "yes"
      [] OTHER                                                               -> "no"

ReadExecute(user, body) ==
    CASE body.success = "true" /\ body.user = user -> "yes"
      [] body.success = "false"                    -> "no"
      [] OTHER                                     -> "fault"

Read(question, body) ==
    CASE body.kind # question.op -> "fault"
      [] body.kind = "check"     -> ReadCheck(body)
      [] body.kind = "authorize" -> ReadAuthorize(question.of, body)
      [] body.kind = "execute"   -> ReadExecute(question.of, body)

----------------------------------------------------------------------------
(* The runs and the servers. *)

VARIABLES
    trial,           \* the trial of each run
    armed,           \* the fault its clients put in their requests
    stage,           \* idle, deciding, waiting (for an answer), done
    heard,           \* what each run took the answers for, in order
    wire,            \* the request of each run that is with a server
    reply,           \* the answer on its way to each run
    effects,         \* the runs whose call took effect
    authorizations,  \* Arcade's records of authorizations
    executed         \* the runs whose call Arcade executed

vars == <<trial, armed, stage, heard, wire, reply, effects, authorizations, executed>>
serverVars == <<authorizations, executed>>

Init ==
    /\ trial = [r \in Runs |-> Nothing]
    /\ armed = [r \in Runs |-> "none"]
    /\ stage = [r \in Runs |-> "idle"]
    /\ heard = [r \in Runs |-> << >>]
    /\ wire = [r \in Runs |-> Nothing]
    /\ reply = [r \in Runs |-> Nothing]
    /\ effects = {}
    /\ authorizations = {}
    /\ executed = {}

\* A run starts and arms the fault of its case at its own client.
Begin(r) ==
    /\ stage[r] = "idle"
    /\ \E t \in Trials :
        /\ trial' = [trial EXCEPT ![r] = t]
        /\ armed' = [armed EXCEPT ![r] = t.fault]
    /\ stage' = [stage EXCEPT ![r] = "deciding"]
    /\ UNCHANGED <<heard, wire, reply, effects, serverVars>>

\* The run ends, and disarms its client in any case.
Conclude(r) ==
    /\ stage' = [stage EXCEPT ![r] = "done"]
    /\ armed' = [armed EXCEPT ![r] = "none"]

DenyLocally(r) ==
    /\ stage[r] = "deciding"
    /\ StopsLocally(trial[r])
    /\ Conclude(r)
    /\ UNCHANGED <<trial, heard, wire, reply, effects, serverVars>>

Question(r) == Conversation(trial[r])[Len(heard[r]) + 1]

\* A request opens a connection and carries the fault armed now.
Ask(r) ==
    /\ stage[r] = "deciding"
    /\ ~StopsLocally(trial[r])
    /\ stage' = [stage EXCEPT ![r] = "waiting"]
    /\ wire' = [wire EXCEPT ![r] =
            [question |-> Question(r), nth |-> Len(heard[r]) + 1, fault |-> armed[r]]]
    /\ UNCHANGED <<trial, armed, heard, reply, effects, serverVars>>

\* Mutant: the fault is state of the server, set by whoever armed one.
FaultOfServer(r) ==
    IF \E q \in Runs : armed[q] # "none"
    THEN armed[CHOOSE q \in Runs : armed[q] # "none"]
    ELSE "none"

FaultOf(r) == wire[r].fault

\* A server thread handles the request, perhaps after the client gave up;
\* then nobody reads the answer.
Handle(r) ==
    /\ wire[r] # Nothing
    /\ LET question == wire[r].question
           fault == FaultOf(r)
           answer == Answer(question, fault)
           record == Recorded(question.of, fault)
       IN  /\ reply' = [reply EXCEPT ![r] =
                            IF stage[r] = "waiting" /\ answer # Silence THEN answer ELSE @]
           /\ authorizations' =
                IF IsRouted("authorize", question, fault)
                THEN authorizations \cup
                        {[run |-> r, nth |-> wire[r].nth,
                          status |-> record.status, user |-> record.user]}
                ELSE authorizations
           /\ executed' =
                IF IsRouted("execute", question, fault) /\ Completed(question.of, fault)
                THEN executed \cup {r}
                ELSE executed
    /\ wire' = [wire EXCEPT ![r] = Nothing]
    /\ UNCHANGED <<trial, armed, stage, heard, effects>>

\* Mutant: an authorization at Arcade is taken for the execution.
MoreToAuthorize(t, n) == n < Len(Conversation(t)) /\ Conversation(t)[n + 1].op # "execute"

MoreToAsk(t, n) == n < Len(Conversation(t))

\* The run goes on with the next request, or takes effect, on a yes, and is
\* denied on anything else.
Hear(r, verdict) ==
    /\ heard' = [heard EXCEPT ![r] = Append(@, verdict)]
    /\ reply' = [reply EXCEPT ![r] = Nothing]
    /\ IF verdict = "yes" /\ MoreToAsk(trial[r], Len(heard'[r]))
       THEN /\ stage' = [stage EXCEPT ![r] = "deciding"]
            /\ UNCHANGED <<armed, effects>>
       ELSE /\ Conclude(r)
            /\ effects' = IF verdict = "yes" THEN effects \cup {r} ELSE effects
    /\ UNCHANGED <<trial, wire, serverVars>>

Receive(r) ==
    /\ stage[r] = "waiting"
    /\ reply[r] # Nothing
    /\ Hear(r, Read(Question(r), reply[r]))

\* Mutant: the request has no deadline; only a closed connection ends it.
GiveUpIfClosed(r) ==
    /\ stage[r] = "waiting"
    /\ reply[r] = Nothing
    /\ wire[r] = Nothing
    /\ Hear(r, "fault")

\* Three seconds without an answer, or a connection that broke.
GiveUp(r) ==
    /\ stage[r] = "waiting"
    /\ reply[r] = Nothing
    /\ Hear(r, "fault")

Client(r) == DenyLocally(r) \/ Ask(r) \/ Receive(r) \/ GiveUp(r)

Next == \E r \in Runs : Begin(r) \/ Client(r) \/ Handle(r)

Spec == Init /\ [][Next]_vars

\* A client is one thread with a deadline on every wait.  Nothing is asked of
\* the servers.
FairSpec == Spec /\ \A r \in Runs : WF_vars(Client(r))

----------------------------------------------------------------------------
(* What it should give. *)

Bodies ==
    [kind : {"check"}, authorized : {"true", "false", "text"}]
        \cup [kind : {"authorize"}, status : {"pending", "completed", "not text"}, user : Users]
        \cup [kind : {"execute"}, success : {"true", "false", "text"}, user : Users]

TypeOK ==
    /\ trial \in [Runs -> Trials \cup {Nothing}]
    /\ armed \in [Runs -> Faults \cup {"none"}]
    /\ stage \in [Runs -> {"idle", "deciding", "waiting", "done"}]
    /\ heard \in [Runs -> Seq({"yes", "no", "fault"})]
    /\ wire \in [Runs -> [question : Questions, nth : Nat, fault : Faults \cup {"none"}]
                            \cup {Nothing}]
    /\ reply \in [Runs -> Bodies \cup {Raw, Nothing}]
    /\ effects \subseteq Runs
    /\ authorizations \subseteq
            [run : Runs, nth : Nat, status : {"pending", "completed"}, user : Users]
    /\ executed \subseteq Runs

Begun == {r \in Runs : trial[r] # Nothing}
Done == {r \in Runs : stage[r] = "done"}

\* What the provider knows, whatever it says.
Granted(question, fault) ==
    IF question.op = "check"
    THEN question.of \in Assigned /\ ~TakenBack(question.of, fault)
    ELSE question.of \in Connected

\* A run without a fault hears the truth or nothing, whatever faults other
\* runs have armed at the servers it shares with them, and however late the
\* servers are (protocol.request_fault against the state of an emulator).
HealthyAnswersAreTrue ==
    \A r \in Begun : trial[r].fault = "none" =>
        \A i \in 1..Len(heard[r]) :
            \/ heard[r][i] = "fault"
            \/ heard[r][i] = "yes" <=> Granted(Conversation(trial[r])[i], "none")

Exposing == {"stale_allow", "wrong_resource", "replay_completed"}
\* The questions whose answer a fault changes.
Disturbs(fault, question) ==
    CASE fault \in {"execute_wrong_type", "execute_wrong_binding"} -> question.op = "execute"
      [] fault \in {"wrong_type", "authorize_other_user"}         -> question.op = "authorize"
      [] OTHER                                                    -> fault # "none"

\* An answer a fault disturbed is taken for an allow only where the fault is a
\* wrong decision in a perfect form; every defect of form or of binding is
\* refused by the client (clients.py _required_bool and its like).
DisturbedAnswersDeny ==
    \A r \in Begun : \A i \in 1..Len(heard[r]) :
        (heard[r][i] = "yes" /\ Disturbs(trial[r].fault, Conversation(trial[r])[i]))
            => trial[r].fault \in Exposing

\* A run with a fault has an effect only in a mode that leaves the decision to
\* the provider: the mediated modes score 100 on runner._fail_closed.
FaultTrialsFailClosed ==
    \A r \in effects :
        trial[r].fault = "none" \/ (trial[r].fault \in Exposing /\ trial[r].mode \notin Mediated)

\* A call with an Arcade tool takes effect only on a completed authorization of
\* its own user on Arcade's record for each it asked for, and after Arcade
\* executed it where the mode delegates the execution: an authorization is
\* never replayed as one.
EffectsAreTraceable ==
    \A r \in effects : \A i \in 1..Len(Conversation(trial[r])) :
        LET question == Conversation(trial[r])[i]
        IN  /\ question.op = "authorize" =>
                 [run |-> r, nth |-> i, status |-> "completed", user |-> question.of]
                    \in authorizations
            /\ question.op = "execute" => r \in executed

\* A run ends though the server may never answer (CLIENT_TIMEOUT).
EveryRunEnds == \A r \in Runs : (stage[r] # "idle") ~> (stage[r] = "done")

\* "fault cases execute against their HTTP emulators": a run with a fault asks
\* the provider it disturbs before it is over.
FaultCasesReachTheirEmulator ==
    \A r \in Done : trial[r].fault # "none" => heard[r] # << >>
=============================================================================
