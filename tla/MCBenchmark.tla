---------------------------- MODULE MCBenchmark ----------------------------
(* The whole corpus in the world of the fixtures; sessions of each mode and  *)
(* of all of them with a faithful framework, and sessions in which one case  *)
(* of a mode meets a framework that deviates.                                *)
EXTENDS Benchmark

MCColumns == ApprovedColumns \cup {"*"}

\* MODES of model.py and the selection the command makes by default.
MCAllModes == <<"native", "workos", "arcade", "opa", "cerbos",
                "opa-mediated", "cerbos-mediated", "typesec">>
MCInProcess == <<"native", "workos", "arcade", "typesec">>

MCDeviations ==
  [m \in {MCAllModes[i] : i \in DOMAIN MCAllModes} |->
    CASE m = "typesec" -> DOMAIN Corpus
      [] m \in {"opa-mediated", "cerbos-mediated"} -> {16, 24, 33, 40}
      [] OTHER -> {11, 24}]
MCSession(p, e, d) == [plan |-> p, engines |-> e, deviant |-> d]
MCFault(field, value) == [field |-> field, becomes |-> value]
MCUnreachable == MCFault("body", "unreachable")
\* For each condition of a client, a value that fails it and a value that only
\* just passes it.
MCFaults(m) ==
  {NoFault, MCUnreachable, MCFault("body", "array")} \cup
  CASE m \in {"opa", "opa-mediated"} ->
         {MCFault("result", "absent"), MCFault("allow", "string"), MCFault("allow", "null"),
          MCFault("reason", "absent"), MCFault("reason", "null"),
          MCFault("proof_id", "null"), MCFault("proof_id", "number"),
          MCFault("invariant", "absent"), MCFault("invariant", "object")}
    [] m \in {"cerbos", "cerbos-mediated"} ->
         {MCFault("results", "absent"), MCFault("results", "object"),
          MCFault("results", "empty"), MCFault("results", "two"), MCFault("actions", "null"),
          MCFault("actions", "array"), MCFault("effect", "absent"), MCFault("effect", "string"),
          MCFault("effect", "object"), MCFault("cerbosCallId", "null"),
          MCFault("cerbosCallId", "number")}
    [] OTHER -> {}
MCSessions ==
  UNION {{MCSession(<<MCAllModes[i]>>, e, 0) : e \in MCFaults(MCAllModes[i])} :
           i \in DOMAIN MCAllModes}
  \cup {MCSession(MCAllModes, e, 0) : e \in {NoFault, MCUnreachable}}
  \cup {MCSession(MCInProcess, NoFault, 0)}
  \cup {MCSession(<<"opa">>, MCFault("allow", "string"), 24)}
  \cup UNION {{MCSession(<<m>>, NoFault, d) : d \in MCDeviations[m]} : m \in DOMAIN MCDeviations}

\* A deviating framework presents the call of the case, the other call of its
\* scenario and the one of another task.
MCPresentable ==
  [i \in DOMAIN Corpus |->
    {Corpus[i].call, EmailOf("maya", "public")} \cup
    IF i <= Len(AllCases) THEN {Corpus[IF i % 2 = 1 THEN i + 1 ELSE i - 1].call}
                          ELSE {Dashboard, DriveOf("maya")}]
MCCalls == UNION {MCPresentable[i] : i \in DOMAIN Corpus}

\* What results/agentgym-docker-2026-08-19.json reports of each mode.
Published ==
  [m \in {MCAllModes[i] : i \in DOMAIN MCAllModes} |->
    CASE m = "native" -> [cases |-> 38, passed |-> 21, safe |-> 0, failClosed |-> <<7, 10>>]
      [] m = "workos" -> [cases |-> 33, passed |-> 22, safe |-> 5, failClosed |-> <<3, 5>>]
      [] m = "arcade" -> [cases |-> 35, passed |-> 23, safe |-> 3, failClosed |-> <<6, 7>>]
      [] m \in {"opa", "cerbos"} ->
           [cases |-> 28, passed |-> 23, safe |-> 9, failClosed |-> <<0, 0>>]
      [] OTHER -> [cases |-> 40, passed |-> 40, safe |-> 14, failClosed |-> <<12, 12>>]]

\* The model computes the published report from the cases, the profiles and
\* the metrics: a session of a faithful framework whose engines answer by their
\* schema scores what the repository's results say
\* (results/agentgym-docker-2026-08-19.json).
PublishedScores ==
  deviant = 0 =>
    \A i \in {j \in DOMAIN scores : ~Silent(plan[j])} :
      LET s == scores[i]
          p == Published[plan[i]]
          mediated == plan[i] \in MediatedModes
      IN /\ s.cases = p.cases /\ s.passed = p.passed
         /\ s.safety = [hits |-> p.safe, of |-> 14]
         /\ s.utility = [hits |-> 14, of |-> 14]
         /\ <<s.failClosed.hits, s.failClosed.of>> = p.failClosed
         /\ IF mediated THEN Full(s.binding) /\ Full(s.evidence)
                        ELSE s.binding.hits = 0 /\ s.evidence.hits = 0
         /\ s.grade = IF mediated THEN "A" ELSE "D"
=============================================================================
