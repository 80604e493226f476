------------------------ MODULE ExternalCallsProofs ------------------------
(***************************************************************************)
(* Theorems about ExternalCalls, for every set of callers, of jobs and of  *)
(* replies, and every configuration.                                       *)
(***************************************************************************)
EXTENDS ExternalCalls, TLAPS

-----------------------------------------------------------------------------
(* The reasoner. *)

\* The fallback knows the classes of the planner.
LEMMA ClassifyType ==
  ASSUME NEW e
  PROVE  Classify(e) \in ValidClasses
BY DEF Classify, ValidClasses, Classes, Sensitive

\* The fallback suggests tools of the allowlist.
LEMMA FallbackToolsType ==
  ASSUME NEW c
  PROVE  FallbackTools(c) \subseteq Allowlist
BY DEF FallbackTools, Allowlist, Tools

\* Every fallback is a reasoning.
LEMMA DeterministicType ==
  ASSUME NEW e, NEW mode \in {"fallback", "disabled"}
  PROVE  DeterministicReason(e, mode) \in Reasonings
<1>1. Classify(e) \in ValidClasses /\ FallbackTools(Classify(e)) \in SUBSET Allowlist
  BY ClassifyType, FallbackToolsType
<1>2. 20 \in 0 .. 100 /\ 95 \in 0 .. 100
  OBVIOUS
<1> QED
  BY <1>1, <1>2 DEF DeterministicReason, Reasonings

\* A confidence is clamped, whatever the model wrote.
LEMMA ClampedType ==
  ASSUME NEW c, c.form \in {"number", "nan", "other"},
         c.form = "number" => c.value \in Int
  PROVE  Clamped(c) \in 0 .. 100
BY DEF Clamped

\* Every reply becomes a reasoning.
LEMMA ReasonType ==
  ASSUME NEW e, NEW y \in Replies
  PROVE  ReasonAbout(e, y) \in Reasonings
<1>1. CASE y.form = "unconfigured"
  BY <1>1, DeterministicType DEF ReasonAbout
<1>2. CASE y.form = "object" /\ y.cls \in ValidClasses
  <2>1. Clamped(y.confidence) \in 0 .. 100
    BY <1>2, ClampedType, JobAssumption
  <2>2. y.tools \cap Allowlist \in SUBSET Allowlist
    OBVIOUS
  <2> QED
    BY <1>2, <2>1, <2>2 DEF ReasonAbout, Reasonings
<1>3. CASE y.form # "unconfigured" /\ ~(y.form = "object" /\ y.cls \in ValidClasses)
  BY <1>3, DeterministicType DEF ReasonAbout
<1> QED
  BY <1>1, <1>2, <1>3

\* The table of the reasoner names the tools of the planner's table.
LEMMA TablesAgree ==
  ASSUME NEW c \in ValidClasses
  PROVE  FallbackTools(c) = { StepsFor(c)[i] : i \in DOMAIN StepsFor(c) }
<1>1. CASE c = "payment_failed"
  BY <1>1 DEF FallbackTools, StepsFor
<1>2. CASE c \in {"payment_succeeded", "payment_recovered"}
  BY <1>2 DEF FallbackTools, StepsFor
<1>3. CASE c = "api_failure"
  BY <1>3 DEF FallbackTools, StepsFor
<1>4. CASE c = "transaction_lookup_requested"
  BY <1>4 DEF FallbackTools, StepsFor
<1>5. CASE c = "doku_payment_methods_requested"
  BY <1>5 DEF FallbackTools, StepsFor
<1>6. CASE c \in {"refund_requested", "suspicious_payment", "unknown"}
  BY <1>6 DEF FallbackTools, StepsFor
<1> QED
  BY <1>1, <1>2, <1>3, <1>4, <1>5, <1>6 DEF ValidClasses, Classes, Sensitive

-----------------------------------------------------------------------------
(* The verification of a run that asked DOKU. *)

\* The results VerifyCall looks at.
CallResults(o, w) ==
  [ NoResults EXCEPT !["call_doku_mcp_tool"] = o, !["write_audit_log"] = w ]

\* They are what the executor can report.
LEMMA CallResultsType ==
  ASSUME NEW o \in {"none", "failed"} \cup DokuAnswers, NEW w \in {"ok", "failed"}
  PROVE  /\ CallResults(o, w) \in Results
         /\ CallResults(o, w)["call_doku_mcp_tool"] = o
         /\ CallResults(o, w)["write_audit_log"] = w
BY DEF CallResults, NoResults, Results, Tools, Outcomes

\* The plan of an event is a plan, of the event's class.
LEMMA PlanOfType ==
  ASSUME NEW e
  PROVE  PlanOf(e) \in Plans /\ PlanOf(e).cls = Classify(e)
<1> DEFINE c == Classify(e)
<1>1. c \in Classes
  BY ClassifyType DEF ValidClasses
<1>2. RiskFor(c, e) \in Risks
  BY <1>1 DEF RiskFor, Risks, Classes, Sensitive
<1>3. StepsFor(c) \in StepLists
  BY <1>1 DEF StepLists
<1>4. CreatePlan(e) \in Plans /\ CreatePlan(e).cls = c
  BY <1>1, <1>2, <1>3 DEF CreatePlan, Plans
<1> QED
  BY <1>4 DEF PlanOf, ApplyPolicy, Plans, NeedsHuman

\* verify_run returns a verdict for every plan and every results.
LEMMA VerdictType ==
  ASSUME NEW e, NEW p \in Plans, NEW x \in Results
  PROVE  VerifyRun(e, p, x) \in Verdicts
BY DEF VerifyRun, VerifyDuplicate, VerifyEscalation, VerifyRecovery,
       VerifyLookup, VerifyPaymentMethods, VerifyRecord, Verified, Rejected,
       Verdicts, Reasons, Plans

\* What may stand in for the result of an execution: the invoice number of the
\* event of a lookup, and an answer mistaken for a list of payment methods.
StandsIn(e, o) ==
  \/ Classify(e) = "transaction_lookup_requested" /\ e.invoice
  \/ Classify(e) = "doku_payment_methods_requested" /\ o \in Mistaken

\* A run that asked DOKU is verified only on an answer, and only on the result of
\* an execution unless something stands in for it.
LEMMA VerifiedByResult ==
  ASSUME NEW e, AsksDoku(e),
         NEW o \in {"failed"} \cup DokuAnswers, NEW w \in {"ok", "failed"},
         VerifyRun(e, PlanOf(e), CallResults(o, w)).ok
  PROVE  o \in DokuAnswers /\ (o \in ResultAnswers \/ StandsIn(e, o))
<1> DEFINE x == CallResults(o, w)
           p == PlanOf(e)
<1>1. /\ x \in Results /\ x["call_doku_mcp_tool"] = o /\ x["write_audit_log"] = w
  BY CallResultsType
<1>2. p \in Plans /\ p.cls = Classify(e) /\ ~p.human
  BY PlanOfType DEF AsksDoku
<1> HIDE DEF x, p
<1>3. o # "failed"
  <2> SUFFICES ASSUME o = "failed" PROVE FALSE
    OBVIOUS
  <2>1. VerifyRun(e, p, x) = Rejected("tool_failed")
    BY <1>1 DEF VerifyRun, Tools
  <2> QED
    BY <2>1 DEF x, p, Rejected
<1>4. VerifyRun(e, p, x).ok /\ ~(\E t \in Tools : x[t] = "failed")
  BY DEF x, p, VerifyRun, Rejected
<1>5. CASE p.cls = "doku_payment_methods_requested"
  <2>1. VerifyPaymentMethods(x).ok
    BY <1>2, <1>4, <1>5 DEF VerifyRun
  <2>2. o \notin {"none", "blank", "rpcError"}
    BY <1>1, <2>1 DEF VerifyPaymentMethods, Rejected
  <2> QED
    BY <1>2, <1>3, <1>5, <2>2 DEF DokuAnswers, ResultAnswers, StandsIn, Mistaken
<1>6. CASE p.cls = "transaction_lookup_requested"
  <2>1. VerifyLookup(e, x).ok
    BY <1>2, <1>4, <1>6 DEF VerifyRun
  <2>2. Called(x, "call_doku_mcp_tool")
    BY <1>1 DEF Called, DokuAnswers
  <2>3. o = "record" \/ e.invoice
    BY <1>1, <2>1, <2>2 DEF VerifyLookup, Rejected
  <2> QED
    BY <1>2, <1>3, <1>6, <2>3 DEF ResultAnswers, StandsIn
<1> QED
  BY <1>5, <1>6 DEF AsksDoku, p
-----------------------------------------------------------------------------
(* Types. *)

\* A step is one of a caller, of the server, or none.
LEMMA CallCases ==
  ASSUME [CallNext]_callVars
  PROVE  \/ \E c \in Calls : CallerStep(c) \/ Handle(c)
         \/ UNCHANGED callVars
BY DEF CallNext, CallsEnded

\* A run that has reached the verification is one.
VerifiesEvents == \A c \in Calls : step[c] \in {"reason", "verify"} => job[c].kind = "event"

CallTypeInv == CallTypeOK /\ VerifiesEvents

\* The first state has the types.
LEMMA CallTypeInit == CallInit => CallTypeInv
<1> SUFFICES ASSUME CallInit PROVE CallTypeInv
  OBVIOUS
<1>1. NoReasoning \in Reasonings \cup {NoReasoning} /\ Rejected("none") \in Verdicts
  BY DEF Rejected, Verdicts, Reasons
<1>2. \A j : FirstStep(j) \in CallSteps /\ FirstStep(j) # "verify"
                /\ (FirstStep(j) = "reason" => j.kind = "event")
  BY DEF FirstStep, CallSteps
<1>3. "none" \in Wires
  BY DEF Wires
<1>4. CallTypeOK
  BY <1>1, <1>2, <1>3 DEF CallInit, CallTypeOK
<1>5. VerifiesEvents
  BY <1>2 DEF CallInit, VerifiesEvents
<1> QED
  BY <1>4, <1>5 DEF CallTypeInv

\* A step of a caller keeps the types.
LEMMA CallerTypeStep ==
  ASSUME CallTypeInv, NEW c \in Calls, CallerStep(c)
  PROVE  CallTypeInv'
<1> USE DEF CallTypeInv, CallTypeOK
<1>1. AfterCall(c) \in {"verify", "done"} /\ (AfterCall(c) = "verify" => job[c].kind = "event")
  BY DEF AfterCall
<1>2. CASE Reason(c)
  <2>1. PICK y \in Replies :
          \/ /\ reasoning' = [ reasoning EXCEPT ![c] = ReasonAbout(job[c].e, y) ]
             /\ GoTo(c, IF AsksDoku(job[c].e) THEN "initialize" ELSE "done")
             /\ UNCHANGED verdict
          \/ /\ verdict' = [ verdict EXCEPT ![c] = Rejected("runtime_exception") ]
             /\ GoTo(c, "done")
             /\ UNCHANGED reasoning
    BY <1>2 DEF Reason
  <2>2. ReasonAbout(job[c].e, y) \in Reasonings
    BY ReasonType
  <2>3. Rejected("runtime_exception") \in Verdicts
    BY DEF Rejected, Verdicts, Reasons
  <2>4. reasoning' \in [ Calls -> Reasonings \cup {NoReasoning} ]
        /\ verdict' \in [ Calls -> Verdicts ]
    BY <2>1, <2>2, <2>3
  <2>5. \E s \in {"initialize", "done"} : step' = [ step EXCEPT ![c] = s ]
    BY <2>1 DEF GoTo
  <2>6. UNCHANGED << configured, job, wire, executed, outcome >>
    BY <1>2 DEF Reason
  <2> QED
    BY <2>4, <2>5, <2>6 DEF VerifiesEvents, CallSteps
<1>3. CASE CheckCase(c) \/ SendTools(c)
  <2>1. \E s \in {"done", "initialize", "await_tools"} : step' = [ step EXCEPT ![c] = s ]
    BY <1>3 DEF CheckCase, SendTools, GoTo
  <2>2. wire' \in [ Calls -> Wires ]
    BY <1>3 DEF CheckCase, SendTools, Wires
  <2>3. UNCHANGED << configured, job, reasoning, executed, outcome, verdict >>
    BY <1>3 DEF CheckCase, SendTools
  <2> QED
    BY <2>1, <2>2, <2>3 DEF VerifiesEvents, CallSteps
<1>4. CASE SendInitialize(c) \/ ReceiveInitialize(c) \/ ReceiveTools(c) \/ GiveUpWaiting(c)
  <2>1. \E s \in {"await_initialize", "tools", AfterCall(c)} : step' = [ step EXCEPT ![c] = s ]
    BY <1>4 DEF SendInitialize, ReceiveInitialize, ReceiveTools, GiveUpWaiting,
       Return, GoTo
  <2>2. wire' \in [ Calls -> Wires ]
    BY <1>4 DEF SendInitialize, ReceiveInitialize, ReceiveTools, GiveUpWaiting, Wires
  <2>3. outcome' \in [ Calls -> {"none", "failed"} \cup DokuAnswers ]
    BY <1>4 DEF SendInitialize, ReceiveInitialize, ReceiveTools, GiveUpWaiting,
       Return, Taken, ErrorAnswers, DokuAnswers
  <2>4. UNCHANGED << configured, job, reasoning, executed, verdict >>
    BY <1>4 DEF SendInitialize, ReceiveInitialize, ReceiveTools, GiveUpWaiting
  <2> QED
    BY <1>1, <2>1, <2>2, <2>3, <2>4 DEF VerifiesEvents, CallSteps
<1>5. CASE VerifyCall(c)
  <2>1. PICK w \in {"ok", "failed"} :
          verdict' = [ verdict EXCEPT ![c] =
                         IF VerifyRaises(PlanOf(job[c].e), CallResults(outcome[c], w))
                         THEN Rejected("runtime_exception")
                         ELSE VerifyRun(job[c].e, PlanOf(job[c].e),
                                        CallResults(outcome[c], w)) ]
    BY <1>5 DEF VerifyCall, CallResults
  <2>2. VerifyRun(job[c].e, PlanOf(job[c].e), CallResults(outcome[c], w)) \in Verdicts
    BY PlanOfType, CallResultsType, VerdictType
  <2>3. Rejected("runtime_exception") \in Verdicts
    BY DEF Rejected, Verdicts, Reasons
  <2>4. verdict' \in [ Calls -> Verdicts ]
    BY <2>1, <2>2, <2>3
  <2> QED
    BY <1>5, <2>4 DEF VerifyCall, GoTo, VerifiesEvents, CallSteps
<1> QED
  BY <1>2, <1>3, <1>4, <1>5 DEF CallerStep

\* A step of the server keeps the types.
LEMMA HandleTypeStep ==
  ASSUME CallTypeInv, NEW c \in Calls, Handle(c)
  PROVE  CallTypeInv'
<1>1. wire' \in [ Calls -> Wires ]
  BY DEF Handle, CallTypeInv, CallTypeOK, Wires
<1>2. executed' \in [ Calls -> Nat ]
  BY DEF Handle, CallTypeInv, CallTypeOK
<1> QED
  BY <1>1, <1>2 DEF Handle, CallTypeInv, CallTypeOK, VerifiesEvents

\* Every step keeps the types.
LEMMA CallTypeStep == CallTypeInv /\ [CallNext]_callVars => CallTypeInv'
<1> SUFFICES ASSUME CallTypeInv, [CallNext]_callVars PROVE CallTypeInv'
  OBVIOUS
<1>1. CASE UNCHANGED callVars
  BY <1>1 DEF callVars, CallTypeInv, CallTypeOK, VerifiesEvents
<1> QED
  BY <1>1, CallCases, CallerTypeStep, HandleTypeStep

\* Every variable keeps its type: in particular no confidence the model writes,
\* a number beyond any bound or none at all, leaves the range.
THEOREM CallTypeCorrectness == CallSpec => []CallTypeOK
<1>1. CallTypeInv => CallTypeOK
  BY DEF CallTypeInv
<1> QED
  BY <1>1, CallTypeInit, CallTypeStep, PTL DEF CallSpec

-----------------------------------------------------------------------------
(* The two tables. *)

\* A step of the reasoner writes what the planner will say, unless the model
\* said it.
LEMMA MirrorStep ==
  CallTypeInv /\ FallbackMirrorsPlanner /\ [CallNext]_callVars
    => FallbackMirrorsPlanner'
<1> SUFFICES ASSUME CallTypeInv, FallbackMirrorsPlanner, [CallNext]_callVars,
                    NEW c \in Calls, reasoning'[c].mode \in {"fallback", "disabled"}
             PROVE  LET p == CreatePlan(job'[c].e)
                    IN  /\ reasoning'[c].cls = p.cls
                        /\ reasoning'[c].tools = { p.steps[i] : i \in DOMAIN p.steps }
  BY DEF FallbackMirrorsPlanner
<1>1. job' = job
  BY CallCases DEF CallerStep, Reason, CheckCase, SendInitialize, ReceiveInitialize,
     SendTools, ReceiveTools, GiveUpWaiting, VerifyCall, Handle, callVars
<1>2. CASE reasoning'[c] = reasoning[c]
  BY <1>1, <1>2 DEF FallbackMirrorsPlanner
<1>3. CASE reasoning'[c] # reasoning[c]
  <2>1. Reason(c)
    <3>1. PICK d \in Calls : CallerStep(d) /\ reasoning' # reasoning
      BY <1>3, CallCases DEF Handle, callVars
    <3>2. Reason(d)
      BY <3>1 DEF CallerStep, CheckCase, SendInitialize, ReceiveInitialize,
         SendTools, ReceiveTools, GiveUpWaiting, VerifyCall
    <3> QED
      BY <1>3, <3>2 DEF Reason, CallTypeInv, CallTypeOK
  <2>2. PICK y \in Replies : reasoning'[c] = ReasonAbout(job[c].e, y)
    BY <1>3, <2>1 DEF Reason, CallTypeInv, CallTypeOK
  <2>3. PICK mode \in {"fallback", "disabled"} :
          reasoning'[c] = DeterministicReason(job[c].e, mode)
    BY <2>2 DEF ReasonAbout
  <2>4. /\ reasoning'[c].cls = Classify(job[c].e)
        /\ reasoning'[c].tools = FallbackTools(Classify(job[c].e))
    BY <2>3 DEF DeterministicReason
  <2>5. /\ CreatePlan(job[c].e).cls = Classify(job[c].e)
        /\ CreatePlan(job[c].e).steps = StepsFor(Classify(job[c].e))
    BY DEF CreatePlan
  <2> QED
    BY <1>1, <2>4, <2>5, TablesAgree, ClassifyType
<1> QED
  BY <1>2, <1>3

\* The reasoning recorded without the model's help is what the planner says.
THEOREM FallbackMirrors == CallSpec => []FallbackMirrorsPlanner
<1>1. CallInit => FallbackMirrorsPlanner
  BY DEF CallInit, FallbackMirrorsPlanner, NoReasoning
<1> QED
  BY <1>1, CallTypeInit, CallTypeStep, MirrorStep, PTL DEF CallSpec
-----------------------------------------------------------------------------
(* The requests.  How far a caller has come says what is on its wire, and    *)
(* the wire says what DOKU executed: the inductive invariant of what follows. *)

\* DOKU is asked to execute only what it may be asked.
SentBy(c) ==
  /\ step[c] \in {"reason", "check_case", "initialize"} => wire[c] = "none"
  /\ step[c] = "reason" => job[c].kind = "event"
  /\ step[c] = "check_case" => job[c].kind = "case"
  /\ step[c] = "initialize" =>
       /\ job[c].kind = "event" => AsksDoku(job[c].e)
       /\ job[c].kind = "case" => ~job[c].write \/ job[c].execute
  /\ step[c] = "verify" => AsksDoku(job[c].e) /\ job[c].kind = "event"
  /\ step[c] \in {"await_initialize", "tools", "await_tools"} => MayReach(c)
  /\ step[c] = "await_initialize" => wire[c] \in {"initialize", "initialized"}
  /\ step[c] = "tools" => wire[c] = "initialized"
  /\ step[c] = "await_tools" => wire[c] \in {"tools", "executed", "refused"}
  /\ wire[c] \in {"tools", "executed", "refused"} => MayReach(c)

\* One execution at most, and an answer only of a request that was treated.
AnsweredTo(c) ==
  /\ executed[c] = IF wire[c] = "executed" THEN 1 ELSE 0
  /\ step[c] \notin {"verify", "done"} => outcome[c] = "none"
  /\ step[c] = "verify" => outcome[c] # "none"
  /\ outcome[c] \in ResultAnswers => wire[c] = "executed"
  /\ outcome[c] \in ErrorAnswers => wire[c] \in {"executed", "refused"}

\* A positive verdict is about an execution, or about what stands in for one, and
\* it comes after the request was treated.  The outcome stays what was verified.
VerifiedBy(c) ==
  verdict[c].ok =>
    /\ step[c] = "done"
    /\ wire[c] \in {"executed", "refused"}
    /\ wire[c] = "executed" \/ StandsIn(job[c].e, outcome[c])

CallInv(c) == SentBy(c) /\ AnsweredTo(c) /\ VerifiedBy(c)

CallsInv == \A c \in Calls : CallInv(c)

\* The first state satisfies the invariant.
LEMMA CallsInit == CallInit => CallsInv
<1> SUFFICES ASSUME CallInit, NEW c \in Calls PROVE CallInv(c)
  BY DEF CallsInv
<1>1. /\ step[c] = FirstStep(job[c]) /\ wire[c] = "none" /\ executed[c] = 0
      /\ outcome[c] = "none" /\ verdict[c] = Rejected("none") /\ job[c] \in Jobs
  BY DEF CallInit
<1>2. SentBy(c)
  BY <1>1 DEF SentBy, FirstStep
<1>3. AnsweredTo(c)
  BY <1>1 DEF AnsweredTo, FirstStep, ResultAnswers, ErrorAnswers
<1>4. VerifiedBy(c)
  BY <1>1 DEF VerifiedBy, Rejected
<1> QED
  BY <1>2, <1>3, <1>4 DEF CallInv

\* What no step of another caller touches.
LEMMA CallFrame ==
  ASSUME NEW s \in Calls, CallInv(s),
         configured' = configured, job' = job,
         step'[s] = step[s], wire'[s] = wire[s], executed'[s] = executed[s],
         outcome'[s] = outcome[s], verdict'[s] = verdict[s]
  PROVE  CallInv(s)'
BY DEF CallInv, SentBy, AnsweredTo, VerifiedBy, MayReach

\* A caller and the server leave the other callers alone.
LEMMA OtherCalls ==
  ASSUME CallTypeOK, NEW c \in Calls, CallerStep(c) \/ Handle(c),
         NEW s \in Calls \ {c}
  PROVE  /\ step'[s] = step[s] /\ wire'[s] = wire[s]
         /\ executed'[s] = executed[s] /\ outcome'[s] = outcome[s]
         /\ verdict'[s] = verdict[s]
<1>1. CASE Reason(c) \/ CheckCase(c) \/ SendInitialize(c) \/ ReceiveInitialize(c)
  BY <1>1 DEF Reason, CheckCase, SendInitialize, ReceiveInitialize, Return, GoTo,
     CallTypeOK
<1>2. CASE SendTools(c) \/ ReceiveTools(c) \/ GiveUpWaiting(c) \/ VerifyCall(c)
  BY <1>2 DEF SendTools, ReceiveTools, GiveUpWaiting, VerifyCall, Return, GoTo,
     CallTypeOK
<1>3. CASE Handle(c)
  BY <1>3 DEF Handle, CallTypeOK
<1> QED
  BY <1>1, <1>2, <1>3 DEF CallerStep

\* The configuration and the jobs are fixed.
LEMMA FixedCalls ==
  ASSUME [CallNext]_callVars
  PROVE  configured' = configured /\ job' = job
BY CallCases DEF CallerStep, Reason, CheckCase, SendInitialize, ReceiveInitialize,
   SendTools, ReceiveTools, GiveUpWaiting, VerifyCall, Handle, callVars

\* A step of caller c keeps its own part of the invariant.
LEMMA CallerInvStep ==
  ASSUME CallTypeInv, NEW c \in Calls, CallInv(c), CallerStep(c)
  PROVE  CallInv(c)'
<1> USE DEF CallTypeInv, CallTypeOK
<1>0. /\ configured' = configured /\ job' = job /\ MayReach(c)' = MayReach(c)
      /\ job[c] \in Jobs
  BY DEF CallerStep, Reason, CheckCase, SendInitialize, ReceiveInitialize,
     SendTools, ReceiveTools, GiveUpWaiting, VerifyCall, MayReach
<1>1. CASE Reason(c)
  <2>1. /\ step[c] = "reason" /\ step'[c] \in {"initialize", "done"}
        /\ (step'[c] = "initialize" => AsksDoku(job[c].e))
        /\ UNCHANGED << wire, executed, outcome >>
        /\ (verdict'[c] = verdict[c] \/ verdict'[c] = Rejected("runtime_exception"))
    BY <1>1 DEF Reason, GoTo
  <2>2. SentBy(c)'
    BY <1>0, <2>1 DEF CallInv, SentBy
  <2>3. AnsweredTo(c)'
    BY <1>0, <2>1 DEF CallInv, AnsweredTo
  <2>4. VerifiedBy(c)'
    BY <1>0, <2>1 DEF CallInv, VerifiedBy, Rejected
  <2> QED
    BY <2>2, <2>3, <2>4 DEF CallInv
<1>2. CASE CheckCase(c)
  <2>1. /\ step[c] = "check_case" /\ step'[c] \in {"initialize", "done"}
        /\ (step'[c] = "initialize" => ~job[c].write \/ job[c].execute)
        /\ UNCHANGED << wire, executed, outcome, verdict >>
    BY <1>2 DEF CheckCase, GoTo
  <2> QED
    BY <1>0, <2>1 DEF CallInv, SentBy, AnsweredTo, VerifiedBy
<1>3. CASE SendInitialize(c)
  <2>1. /\ step[c] = "initialize" /\ wire[c] = "none"
        /\ UNCHANGED << executed, verdict >>
    BY <1>3 DEF SendInitialize, CallInv, SentBy
  <2>2. CASE configured
    <3>1. /\ step'[c] = "await_initialize" /\ wire'[c] = "initialize"
          /\ outcome' = outcome
      BY <1>3, <2>2 DEF SendInitialize, GoTo
    <3>2. MayReach(c)
      BY <2>1, <2>2 DEF CallInv, SentBy, MayReach
    <3> QED
      BY <1>0, <2>1, <3>1, <3>2 DEF CallInv, SentBy, AnsweredTo, VerifiedBy
  <2>3. CASE ~configured
    <3>1. /\ step'[c] = AfterCall(c) /\ outcome'[c] = "failed" /\ wire' = wire
      BY <1>3, <2>3 DEF SendInitialize, Return, GoTo
    <3> QED
      BY <1>0, <2>1, <3>1 DEF CallInv, SentBy, AnsweredTo, VerifiedBy, AfterCall,
         ResultAnswers, ErrorAnswers
  <2> QED
    BY <2>2, <2>3
<1>4. CASE ReceiveInitialize(c) \/ GiveUpWaiting(c)
  <2>1. /\ step[c] \in {"await_initialize", "await_tools"} /\ MayReach(c)
        /\ UNCHANGED << wire, executed, verdict >>
    BY <1>4 DEF ReceiveInitialize, GiveUpWaiting, CallInv, SentBy
  <2>2. CASE step'[c] = "tools" /\ outcome' = outcome /\ wire[c] = "initialized"
    BY <1>0, <2>1, <2>2 DEF CallInv, SentBy, AnsweredTo, VerifiedBy
  <2>3. CASE step'[c] = AfterCall(c) /\ outcome'[c] = "failed"
    BY <1>0, <2>1, <2>3 DEF CallInv, SentBy, AnsweredTo, VerifiedBy, AfterCall,
       MayReach, ResultAnswers, ErrorAnswers
  <2> QED
    BY <1>4, <2>2, <2>3 DEF ReceiveInitialize, GiveUpWaiting, Return, GoTo
<1>5. CASE SendTools(c)
  <2>1. /\ step[c] = "tools" /\ step'[c] = "await_tools" /\ wire'[c] = "tools"
        /\ UNCHANGED << executed, outcome, verdict >>
    BY <1>5 DEF SendTools, GoTo
  <2>2. wire[c] = "initialized" /\ MayReach(c) /\ outcome[c] = "none"
    BY <2>1 DEF CallInv, SentBy, AnsweredTo
  <2> QED
    BY <1>0, <2>1, <2>2 DEF CallInv, SentBy, AnsweredTo, VerifiedBy, ResultAnswers,
       ErrorAnswers
<1>6. CASE ReceiveTools(c)
  <2>1. PICK o \in IF wire[c] = "executed" THEN DokuAnswers
                   ELSE IF wire[c] = "refused" THEN ErrorAnswers ELSE {} :
                     Return(c, Taken(c, o))
    BY <1>6 DEF ReceiveTools
  <2>2. /\ step[c] = "await_tools" /\ step'[c] = AfterCall(c)
        /\ outcome'[c] \in {o, "failed"}
        /\ UNCHANGED << wire, executed, verdict >>
    BY <1>6, <2>1 DEF ReceiveTools, Return, GoTo, Taken, DokuAnswers, ErrorAnswers
  <2>3. SentBy(c)'
    BY <1>0, <2>2 DEF CallInv, SentBy, AfterCall, MayReach
  <2>4. AnsweredTo(c)'
    BY <2>1, <2>2 DEF CallInv, AnsweredTo, AfterCall, ResultAnswers, ErrorAnswers,
       DokuAnswers
  <2>5. VerifiedBy(c)'
    BY <1>0, <2>2 DEF CallInv, VerifiedBy
  <2> QED
    BY <2>3, <2>4, <2>5 DEF CallInv
<1>7. CASE VerifyCall(c)
  <2>1. PICK w \in {"ok", "failed"} :
          verdict' = [ verdict EXCEPT ![c] =
                         IF VerifyRaises(PlanOf(job[c].e), CallResults(outcome[c], w))
                         THEN Rejected("runtime_exception")
                         ELSE VerifyRun(job[c].e, PlanOf(job[c].e),
                                        CallResults(outcome[c], w)) ]
    BY <1>7 DEF VerifyCall, CallResults
  <2>2. /\ step[c] = "verify" /\ step'[c] = "done" /\ AsksDoku(job[c].e)
        /\ outcome[c] \in {"failed"} \cup DokuAnswers
        /\ UNCHANGED << wire, executed, outcome >>
    BY <1>7 DEF VerifyCall, GoTo, CallInv, SentBy, AnsweredTo
  <2>3. VerifiedBy(c)'
    <3> SUFFICES ASSUME verdict'[c].ok
                 PROVE  /\ wire[c] \in {"executed", "refused"}
                        /\ wire[c] = "executed" \/ StandsIn(job[c].e, outcome[c])
      BY <1>0, <2>2 DEF VerifiedBy
    <3>1. VerifyRun(job[c].e, PlanOf(job[c].e), CallResults(outcome[c], w)).ok
      BY <2>1 DEF Rejected
    <3>2. /\ outcome[c] \in DokuAnswers
          /\ outcome[c] \in ResultAnswers \/ StandsIn(job[c].e, outcome[c])
      BY <2>2, <3>1, VerifiedByResult
    <3> QED
      BY <3>2 DEF CallInv, AnsweredTo, DokuAnswers, ResultAnswers, ErrorAnswers
  <2> QED
    BY <1>0, <2>2, <2>3 DEF CallInv, SentBy, AnsweredTo
<1> QED
  BY <1>1, <1>2, <1>3, <1>4, <1>5, <1>6, <1>7 DEF CallerStep

\* The server treats a request once, and keeps the invariant of its caller.
LEMMA HandleInvStep ==
  ASSUME CallTypeInv, NEW c \in Calls, CallInv(c), Handle(c)
  PROVE  CallInv(c)'
<1> USE DEF CallTypeInv, CallTypeOK
<1>1. /\ UNCHANGED << configured, job, step, outcome, verdict >>
      /\ wire[c] \in {"initialize", "tools"}
      /\ \/ wire[c] = "initialize" /\ wire'[c] = "initialized" /\ executed' = executed
         \/ /\ wire[c] = "tools" /\ wire'[c] = "executed"
            /\ executed'[c] = executed[c] + 1
         \/ wire[c] = "tools" /\ wire'[c] = "refused" /\ executed' = executed
  BY DEF Handle
<1>2. SentBy(c)'
  BY <1>1 DEF CallInv, SentBy, MayReach
<1>3. AnsweredTo(c)'
  BY <1>1 DEF CallInv, AnsweredTo
<1>4. VerifiedBy(c)'
  BY <1>1 DEF CallInv, VerifiedBy
<1> QED
  BY <1>2, <1>3, <1>4 DEF CallInv

\* Every step keeps the invariant.
LEMMA CallsStep == CallTypeInv /\ CallsInv /\ [CallNext]_callVars => CallsInv'
<1> SUFFICES ASSUME CallTypeInv, CallsInv, [CallNext]_callVars, NEW s \in Calls
             PROVE  CallInv(s)'
  BY DEF CallsInv
<1>1. CASE UNCHANGED callVars
  BY <1>1, CallFrame DEF callVars, CallsInv
<1>2. ASSUME NEW c \in Calls, CallerStep(c) \/ Handle(c)
      PROVE  CallInv(s)'
  <2>1. CASE s = c
    BY <1>2, <2>1, CallerInvStep, HandleInvStep DEF CallsInv
  <2>2. CASE s # c
    BY <1>2, <2>2, OtherCalls, FixedCalls, CallFrame DEF CallsInv, CallTypeInv
  <2> QED
    BY <2>1, <2>2
<1> QED
  BY <1>1, <1>2, CallCases

\* The invariant of the calls.
LEMMA CallsInvariant == CallSpec => [](CallTypeInv /\ CallsInv)
BY CallTypeInit, CallTypeStep, CallsInit, CallsStep, PTL DEF CallSpec

\* When a run is verified, DOKU is through with its request and has executed it
\* exactly once, unless the event's own invoice number or an answer mistaken for a
\* list of payment methods stands in for the result.
THEOREM VerifiedOnExecution == CallSpec => []VerifiedWasExecuted
<1>1. CallsInv => VerifiedWasExecuted
  BY DEF CallsInv, CallInv, AnsweredTo, VerifiedBy, StandsIn, VerifiedWasExecuted
<1> QED
  BY <1>1, CallsInvariant, PTL

-----------------------------------------------------------------------------
(* The refinement. *)

\* The first state is one of the abstract calls.
LEMMA PromiseInit == CallInit => Promise!Init
BY DEF CallInit, Promise!Init

\* Every step is one of the abstract calls, or none.
LEMMA PromiseStep ==
  CallTypeInv /\ CallsInv /\ [CallNext]_callVars
    => [Promise!Next]_(Promise!toolCall)
<1> SUFFICES ASSUME CallTypeInv, CallsInv, [CallNext]_callVars
             PROVE  Promise!Next \/ UNCHANGED Promise!toolCall
  OBVIOUS
<1> USE DEF CallTypeInv, CallTypeOK
<1>1. { c \in Calls : MayReach(c) }' = { c \in Calls : MayReach(c) }
  BY FixedCalls DEF MayReach
<1>2. CASE executed' = executed /\ outcome' = outcome
  BY <1>1, <1>2 DEF Promise!toolCall
<1>3. ASSUME NEW c \in Calls, NEW o, Return(c, o), executed' = executed,
             step[c] \notin {"verify", "done"},
             o \in ResultAnswers \cup ErrorAnswers \cup {"failed"},
             o \in ResultAnswers => wire[c] = "executed"
      PROVE  Promise!Next
  <2>1. outcome[c] = "none" /\ (o \in ResultAnswers => executed[c] = 1)
    BY <1>3 DEF CallsInv, CallInv, AnsweredTo
  <2>2. Promise!End(c)
    BY <1>1, <1>3, <2>1 DEF Promise!End, Return
  <2> QED
    BY <2>2 DEF Promise!Next
<1>4. ASSUME NEW c \in Calls, CallerStep(c), outcome' # outcome
      PROVE  Promise!Next
  <2>1. CASE SendInitialize(c)
    BY <1>3, <1>4, <2>1 DEF SendInitialize, ResultAnswers
  <2>2. CASE ReceiveInitialize(c)
    BY <1>3, <1>4, <2>2 DEF ReceiveInitialize, ResultAnswers
  <2>3. CASE GiveUpWaiting(c)
    BY <1>3, <2>3 DEF GiveUpWaiting, ResultAnswers
  <2>4. CASE ReceiveTools(c)
    <3>1. PICK o \in IF wire[c] = "executed" THEN DokuAnswers
                     ELSE IF wire[c] = "refused" THEN ErrorAnswers ELSE {} :
                       Return(c, Taken(c, o))
      BY <2>4 DEF ReceiveTools
    <3>2. Taken(c, o) \in ResultAnswers \cup ErrorAnswers \cup {"failed"}
      BY <3>1 DEF Taken, DokuAnswers, ResultAnswers, ErrorAnswers
    <3>3. Taken(c, o) \in ResultAnswers => wire[c] = "executed"
      BY <3>1 DEF Taken, ResultAnswers, ErrorAnswers
    <3> QED
      BY <1>3, <2>4, <3>1, <3>2, <3>3 DEF ReceiveTools
  <2>5. CASE Reason(c) \/ CheckCase(c) \/ SendTools(c) \/ VerifyCall(c)
    BY <1>4, <2>5 DEF Reason, CheckCase, SendTools, VerifyCall
  <2> QED
    BY <1>4, <2>1, <2>2, <2>3, <2>4, <2>5 DEF CallerStep
<1>5. ASSUME NEW c \in Calls, CallerStep(c)
      PROVE  executed' = executed
  BY <1>5 DEF CallerStep, Reason, CheckCase, SendInitialize, ReceiveInitialize,
     SendTools, ReceiveTools, GiveUpWaiting, VerifyCall
<1>6. ASSUME NEW c \in Calls, Handle(c), executed' # executed
      PROVE  Promise!Next
  <2>1. /\ wire[c] = "tools" /\ executed' = [ executed EXCEPT ![c] = @ + 1 ]
        /\ outcome' = outcome
    BY <1>6 DEF Handle
  <2>2. /\ MayReach(c) /\ executed[c] = 0
        /\ outcome[c] \notin ResultAnswers \cup ErrorAnswers
    BY <2>1 DEF CallsInv, CallInv, SentBy, AnsweredTo
  <2>3. outcome[c] \in {"none", "failed"}
    BY <2>2 DEF DokuAnswers, ResultAnswers, ErrorAnswers
  <2>4. Promise!Execute(c)
    BY <1>1, <2>1, <2>2, <2>3 DEF Promise!Execute
  <2> QED
    BY <2>4 DEF Promise!Next
<1>7. CASE UNCHANGED callVars
  BY <1>2, <1>7 DEF callVars
<1>8. ASSUME NEW c \in Calls, Handle(c) PROVE outcome' = outcome
  BY <1>8 DEF Handle
<1> QED
  BY <1>2, <1>4, <1>5, <1>6, <1>7, <1>8, CallCases

\* Every call to DOKU, with its two requests, its timeouts and its late
\* executions, is an abstract tool call.
THEOREM CallsKeepPromise == CallSpec => KeepsPromise
BY CallsInvariant, PromiseInit, PromiseStep, PTL DEF CallSpec, KeepsPromise, Promise!Spec
=============================================================================
