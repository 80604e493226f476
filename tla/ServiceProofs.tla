---------------------------- MODULE ServiceProofs ----------------------------
(***************************************************************************)
(* Theorems about Service, for every set of requests, every configuration  *)
(* with a threshold that is not negative, and every combination of faults: *)
(* the service implements the runtime, so that every theorem about Spec    *)
(* holds of it; and its own properties.                                    *)
(***************************************************************************)
EXTENDS Service, OverlapProofs, SequenceTheorems

Views == [ run : Runs, status : TerminalStatuses \cup {"none"},
           tools : SUBSET Tools, verified : BOOLEAN ]

Names == { TraceName(id, i) : id \in Ids, i \in Instants }

WebTypes ==
  /\ judgeMode \in BOOLEAN
  /\ request \in [ Runs -> Requests \cup {NoRequest} ]
  /\ path \in [ Runs -> Names \cup {NoName} ]
  /\ dir \subseteq [ name : Names, view : Views ]
  /\ code \in [ Runs -> {0, 200, 400, 401, 404, 500} ]
  /\ shown \in [ Runs -> Views ]

\* The steps of the service.
LEMMA ServiceCases ==
  ASSUME [ServiceNext]_serviceVars
  PROVE  \/ \E r \in Runs, q \in Requests : Handle(r, q)
         \/ \E r \in Runs : Serve(r)
         \/ \E r \in Runs : Answer(r) \/ JudgeAnswer(r)
         \/ ServiceCrash
         \/ UNCHANGED serviceVars
BY DEF ServiceNext, HandlerStep, ServiceFinished

\* A request that is not turned away is converted to one of the payloads.
LEMMA Converted ==
  ASSUME WebTypes, NEW r \in Runs, NEW q \in Requests, Refusal(q) = 0
  PROVE  /\ Admissible(q) /\ EventOf(r, q) \in Payloads
         /\ judgeMode => q.route = "judge"
<1>1. /\ judgeMode => q.route = "judge"
      /\ q.route = "doku" => q.invoice # << >> /\ ~q.endless
      /\ q.route = "judge" => q.token /\ q.workflow \in JudgeWorkflows
  BY RequestAssumption DEF Refusal, WebTypes
<1> QED
  BY <1>1, RequestAssumption DEF Admissible

-----------------------------------------------------------------------------
(* The service implements the runtime. *)

\* Every step of the service is a step of the runtime or none.
LEMMA ServiceStepIsRuntimeStep ==
  ASSUME WebTypes, [ServiceNext]_serviceVars
  PROVE  [Next]_vars
<1>1. ASSUME NEW r \in Runs, NEW q \in Requests, Handle(r, q)
      PROVE  [Next]_vars
  BY <1>1, Converted DEF Handle, Next
<1>2. CASE \E r \in Runs : Serve(r)
  BY <1>2 DEF Serve, Next
<1>3. CASE \E r \in Runs : Answer(r) \/ JudgeAnswer(r)
  BY <1>3 DEF Answer, JudgeAnswer
<1>4. CASE ServiceCrash
  BY <1>4 DEF ServiceCrash, Next
<1>5. CASE UNCHANGED serviceVars
  BY <1>5 DEF serviceVars
<1> QED
  BY <1>1, <1>2, <1>3, <1>4, <1>5, ServiceCases

\* A run describes itself with a well-typed view.
LEMMA ViewType ==
  ASSUME TypeOK, NEW r \in Runs
  PROVE  View(r) \in Views /\ NoView(r) \in Views
BY DEF View, NoView, Views, TypeOK, Verdicts, ReportedTools

\* The web variables keep their types.
LEMMA WebTypeStep ==
  ASSUME TypeInv, WebTypes, [ServiceNext]_serviceVars
  PROVE  WebTypes'
<1>1. ASSUME NEW r \in Runs, NEW q \in Requests, Handle(r, q)
      PROVE  WebTypes'
  <2>1. Refusal(q) \in {0, 200, 400, 401, 404, 500}
    BY DEF Refusal
  <2> QED
    BY <1>1, <2>1 DEF Handle, WebTypes
<1>2. ASSUME NEW r \in Runs, Serve(r)
      PROVE  WebTypes'
  <2>1. pc[r] # "idle"
    BY <1>2, StepOfActive, StepNames DEF Serve, Active
  <2>2. Id(r) \in Ids
    BY <2>1 DEF TypeInv, Begun, Id, Ids
  <2>3. \A i \in Instants : TraceName(Id(r), i) \in Names
    BY <2>2 DEF Names
  <2>4. \A i \in Instants, w \in BOOLEAN :
          Stored(r, i, w) \subseteq [ name : Names, view : Views ]
    BY <2>3, ViewType DEF Stored, TypeInv, WebTypes
  <2>5. \/ UNCHANGED << path, dir >>
        \/ \E i \in Instants, w \in BOOLEAN :
             /\ dir' = Stored(r, i, w)
             /\ path' = path \/ path' = [ path EXCEPT ![r] = TraceName(Id(r), i) ]
    BY <1>2 DEF Serve
  <2>6. dir' \subseteq [ name : Names, view : Views ]
    BY <2>4, <2>5 DEF WebTypes
  <2>7. path' \in [ Runs -> Names \cup {NoName} ]
    BY <2>3, <2>5 DEF WebTypes
  <2> QED
    BY <1>2, <2>6, <2>7 DEF Serve, WebTypes
<1>3. ASSUME NEW r \in Runs, Answer(r) \/ JudgeAnswer(r)
      PROVE  WebTypes'
  BY <1>3, ViewType DEF Answer, JudgeAnswer, WebTypes, TypeInv
<1>4. CASE ServiceCrash
  BY <1>4 DEF ServiceCrash, WebTypes
<1>5. CASE UNCHANGED serviceVars
  BY <1>5 DEF serviceVars, web, WebTypes
<1> QED
  BY <1>1, <1>2, <1>3, <1>4, <1>5, ServiceCases

LEMMA ServiceTypes == ServiceSpec => [](TypeInv /\ WebTypes)
<1>1. ServiceInit => TypeInv /\ WebTypes
  <2> SUFFICES ASSUME ServiceInit PROVE TypeInv /\ WebTypes
    OBVIOUS
  <2>1. TypeInv
    BY TypeInit DEF ServiceInit
  <2> QED
    BY <2>1, ViewType DEF ServiceInit, WebTypes, TypeInv
<1>2. TypeInv /\ WebTypes /\ [ServiceNext]_serviceVars => TypeInv' /\ WebTypes'
  BY WebTypeStep, ServiceStepIsRuntimeStep, TypeStep
<1> QED
  BY <1>1, <1>2, PTL DEF ServiceSpec

\* The service, with its routes, its file names and its answers, does with the
\* state files only what the runtime does: every theorem about Spec holds of it.
THEOREM ServiceImplementsRuntime == ServiceSpec => Spec
<1>1. ServiceInit => Init
  BY DEF ServiceInit
<1>2. WebTypes /\ [ServiceNext]_serviceVars => [Next]_vars
  BY ServiceStepIsRuntimeStep
<1> QED
  BY <1>1, <1>2, ServiceTypes, PTL DEF ServiceSpec, Spec

\* So the service, whatever comes in by its three routes and however the requests
\* overlap, keeps the ledger of overlapping attempts: a link beyond the threshold
\* follows a mark of the same event id by another request.
THEOREM ServiceKeepsLedger == ServiceSpec => ImplementsConcurrentLedger
BY ServiceImplementsRuntime, OverlapRefinement, PTL

-----------------------------------------------------------------------------
(* A run keeps to the tools of its route. *)

\* What a handler has passed on, and what its run may do.
RouteRun(r) ==
  /\ request[r] = NoRequest => pc[r] = "idle"
  /\ pc[r] = "idle" =>
       res[r] = NoResults /\ plan[r] = EmptyPlan /\ status[r] = "none"
  /\ pc[r] # "idle" =>
       /\ request[r] \in Requests /\ Admissible(request[r])
       /\ judgeMode => request[r].route = "judge"
       /\ event[r] = EventOf(r, request[r])
  /\ pc[r] # "idle" /\ request[r].route # "event" =>
       /\ ~plan[r].human
       /\ pc[r] \in Tools => pc[r] \in RouteToolSet(request[r])
       /\ pc[r] # "append_pending_approval"
       /\ \A t \in Tools : Called(res[r], t) => t \in RouteToolSet(request[r])

\* A run that is not begun, or not of an event route, has filed nothing.
Unfiled(r) ==
  pc[r] = "idle" \/ request[r].route # "event" => \A a \in approvals : a.run # r

RouteInv == \A r \in Runs : RouteRun(r) /\ Unfiled(r)

\* The routes that are not open to any event have only tools that look.
LEMMA RouteToolsLook ==
  ASSUME NEW q \in Requests, q.route # "event"
  PROVE  /\ "write_audit_log" \in RouteToolSet(q)
         /\ RouteToolSet(q) \subseteq { "get_transaction_by_invoice_number",
                                       "call_doku_mcp_tool", "write_audit_log" }
BY RequestAssumption DEF RouteToolSet, ExpectedTools

\* The events that converted requests become are planned as harmless.
LEMMA LookupPlan ==
  ASSUME NEW e, e.type = "transaction.lookup_requested", NEW seen \in BOOLEAN
  PROVE  LET p == ApplyPolicy(e, CreatePlan(e), seen)
         IN  p.cls = "transaction_lookup_requested" /\ ~p.human
<1>1. Classify(e) = "transaction_lookup_requested"
  BY DEF Classify
<1>2. "transaction_lookup_requested" \notin Sensitive
  BY DEF Sensitive
<1>3. /\ CreatePlan(e).cls = "transaction_lookup_requested"
      /\ CreatePlan(e).human = ("transaction_lookup_requested" \in Sensitive)
  BY <1>1 DEF CreatePlan
<1>5. ~NeedsHuman(e, CreatePlan(e))
  BY <1>3 DEF NeedsHuman
<1>6. /\ ApplyPolicy(e, CreatePlan(e), seen).cls = "transaction_lookup_requested"
      /\ ApplyPolicy(e, CreatePlan(e), seen).human =
           (~seen /\ (CreatePlan(e).human \/ NeedsHuman(e, CreatePlan(e))))
  BY <1>3 DEF ApplyPolicy, CreatePlan
<1> QED
  BY <1>2, <1>3, <1>5, <1>6

LEMMA PaymentMethodsPlan ==
  ASSUME NEW e, e.type = "doku.payment_methods_requested", e.amount = 0,
         NEW seen \in BOOLEAN
  PROVE  LET p == ApplyPolicy(e, CreatePlan(e), seen)
         IN  p.cls = "doku_payment_methods_requested" /\ ~p.human
<1>1. Classify(e) = "doku_payment_methods_requested"
  BY DEF Classify
<1>2. "doku_payment_methods_requested" \notin Sensitive
  BY DEF Sensitive
<1>3. ~OverThreshold(e)
  BY ThresholdAssumption, ConfigAssumption DEF OverThreshold
<1>4. /\ CreatePlan(e).cls = "doku_payment_methods_requested"
      /\ CreatePlan(e).human = ("doku_payment_methods_requested" \in Sensitive)
  BY <1>1 DEF CreatePlan
<1>5. ~NeedsHuman(e, CreatePlan(e))
  BY <1>4, <1>3 DEF NeedsHuman
<1>6. /\ ApplyPolicy(e, CreatePlan(e), seen).cls = "doku_payment_methods_requested"
      /\ ApplyPolicy(e, CreatePlan(e), seen).human =
           (~seen /\ (CreatePlan(e).human \/ NeedsHuman(e, CreatePlan(e))))
  BY <1>4 DEF ApplyPolicy, CreatePlan
<1> QED
  BY <1>2, <1>4, <1>5, <1>6

\* The plan for a converted request is autonomous and begins with a tool of the
\* route: the amount of a lookup does not count, and the list of payment methods
\* has none.
LEMMA RoutePlan ==
  ASSUME NEW r \in Runs, NEW q \in Requests, Admissible(q), q.route # "event",
         NEW seen \in BOOLEAN
  PROVE  LET e == EventOf(r, q)
             p == ApplyPolicy(e, CreatePlan(e), seen)
         IN  ~p.human /\ FirstTool(e, p) \in RouteToolSet(q)
<1> DEFINE e == EventOf(r, q)
           p == ApplyPolicy(e, CreatePlan(e), seen)
<1>1. CASE q.route = "doku"
  <2>1. e.type = "transaction.lookup_requested" /\ e.doku = TRUE
    BY <1>1 DEF EventOf, DokuWebhookToAgentEvent
  <2> HIDE DEF e
  <2>2. p.cls = "transaction_lookup_requested" /\ ~p.human
    BY <2>1, LookupPlan
  <2> HIDE DEF p
  <2> QED
    BY <1>1, <2>1, <2>2 DEF FirstTool, RouteToolSet, e, p
<1>2. CASE q.route = "judge" /\ q.workflow = "transaction_lookup"
  <2>1. "provider" \notin q.inputs \cap AllowedInputs(q.workflow)
    BY <1>2 DEF AllowedInputs
  <2>2. e = BuildEventForWorkflow(r, q.workflow, q.inputs)
    BY <1>2 DEF EventOf
  <2>3. /\ e.type = "transaction.lookup_requested"
        /\ e.doku = ("provider" \in q.inputs \cap AllowedInputs(q.workflow))
    BY <1>2, <2>2 DEF BuildEventForWorkflow
  <2> HIDE DEF e
  <2>4. p.cls = "transaction_lookup_requested" /\ ~p.human
    BY <2>3, LookupPlan
  <2> HIDE DEF p
  <2>5. FirstTool(e, p) = "get_transaction_by_invoice_number"
    BY <2>1, <2>3, <2>4 DEF FirstTool
  <2> QED
    BY <1>2, <2>4, <2>5 DEF RouteToolSet, ExpectedTools, e, p
<1>3. CASE q.route = "judge" /\ q.workflow = "doku_payment_methods"
  <2>1. e.type = "doku.payment_methods_requested" /\ e.amount = 0
    BY <1>3 DEF EventOf, BuildEventForWorkflow
  <2> HIDE DEF e
  <2>2. p.cls = "doku_payment_methods_requested" /\ ~p.human
    BY <2>1, PaymentMethodsPlan
  <2> HIDE DEF p
  <2>3. FirstTool(e, p) = "call_doku_mcp_tool"
    BY <2>2 DEF FirstTool
  <2> QED
    BY <1>3, <2>2, <2>3 DEF RouteToolSet, ExpectedTools, e, p
<1> QED
  BY <1>1, <1>2, <1>3, RequestAssumption DEF Admissible, JudgeWorkflows

\* A step of a run keeps to the route.
LEMMA RouteRunStep ==
  ASSUME TypeInv, NEW r \in Runs, RouteRun(r), RunStep(r),
         request' = request, judgeMode' = judgeMode
  PROVE  RouteRun(r)'
<1> USE DEF TypeInv
<1> DEFINE q == request[r]
<1>1. /\ pc[r] # "idle" /\ pc'[r] # "idle" /\ event'[r] = event[r]
      /\ q \in Requests /\ Admissible(q) /\ q # NoRequest
      /\ judgeMode => q.route = "judge"
      /\ event[r] = EventOf(r, q)
  BY StepOfActive, StepNames DEF RouteRun, Active
<1> SUFFICES ASSUME q.route # "event"
             PROVE  /\ ~plan'[r].human
                    /\ pc'[r] \in Tools => pc'[r] \in RouteToolSet(q)
                    /\ pc'[r] # "append_pending_approval"
                    /\ \A t \in Tools : Called(res'[r], t) => t \in RouteToolSet(q)
  BY <1>1 DEF RouteRun
<1>2. /\ ~plan[r].human
      /\ pc[r] \in Tools => pc[r] \in RouteToolSet(q)
      /\ pc[r] # "append_pending_approval"
      /\ \A t \in Tools : Called(res[r], t) => t \in RouteToolSet(q)
  BY <1>1 DEF RouteRun
<1>3. /\ "write_audit_log" \in RouteToolSet(q)
      /\ RouteToolSet(q) \subseteq { "get_transaction_by_invoice_number",
                                    "call_doku_mcp_tool", "write_audit_log" }
  BY <1>1, RouteToolsLook
<1> HIDE DEF q
<1>4. CASE Raise(r)
  BY <1>2, <1>4, RaiseEffect DEF EmptyPlan, Tools
<1>5. CASE CheckIdempotency(r) /\ ~Raise(r)
  BY <1>2, <1>3, <1>5 DEF CheckIdempotency, IoRaise, Goto, locals, TypeOK,
     DuplicatePlan, Tools
<1>6. CASE MakePlan(r) /\ ~Raise(r)
  <2> DEFINE p == ApplyPolicy(event[r], CreatePlan(event[r]), Seen(Id(r)))
  <2>1. ~p.human /\ FirstTool(event[r], p) \in RouteToolSet(q)
    BY <1>1, RoutePlan DEF Seen, q
  <2> HIDE DEF p
  <2>2. pc'[r] = FirstTool(event[r], p) /\ plan'[r] = p /\ res'[r] = res[r]
    BY <1>6 DEF MakePlan, IoRaise, Goto, TypeOK, p
  <2> QED
    BY <1>2, <1>3, <2>1, <2>2
<1>7. CASE CallLocalTool(r) \/ CallDokuMcpTool(r)
  <2>1. pc[r] \in {"get_transaction_by_invoice_number", "call_doku_mcp_tool"}
    BY <1>2, <1>3, <1>7 DEF CallLocalTool, CallDokuMcpTool, LocalTools, Tools
  <2>2. pc'[r] = "write_audit_log" /\ plan'[r] = plan[r]
    BY <1>7, <2>1 DEF CallLocalTool, CallDokuMcpTool, AfterTool, Goto, TypeOK,
       LocalTools
  <2>3. \A t \in Tools \ {pc[r]} : res'[r][t] = res[r][t]
    BY <1>7 DEF CallLocalTool, CallDokuMcpTool, TypeOK, Results
  <2>4. pc[r] \in RouteToolSet(q)
    BY <1>2, <2>1 DEF Tools
  <2> QED
    BY <1>2, <1>3, <2>2, <2>3, <2>4 DEF Called
<1>8. CASE WriteAuditLog(r)
  <2>1. \A t \in Tools \ {"write_audit_log"} : res'[r][t] = res[r][t]
    BY <1>8 DEF WriteAuditLog, TypeOK, Results
  <2>2. pc'[r] = "verify_run" /\ plan'[r] = plan[r]
    BY <1>8 DEF WriteAuditLog, Goto, TypeOK
  <2> QED
    BY <1>2, <1>3, <2>1, <2>2 DEF Called, Tools
<1>9. CASE (Verify(r) \/ AppendMemory(r) \/ MarkProcessed(r) \/ WriteTrace(r))
           /\ ~Raise(r)
  <2>1. /\ pc'[r] \in {"append_memory", "mark_processed", "write_trace", "done"}
        /\ plan'[r] = plan[r] /\ res'[r] = res[r]
    BY <1>9 DEF Verify, AppendMemory, MarkProcessed, WriteTrace, IoRaise, Goto,
       locals, files, TypeOK
  <2> QED
    BY <1>2, <2>1 DEF Tools
<1>10. CASE ErrorAudit(r) \/ ErrorMemory(r) \/ ErrorMark(r) \/ ErrorTrace(r)
  <2>1. /\ pc'[r] \in ErrorSteps \cup {"done"}
        /\ plan'[r] = plan[r] /\ res'[r] = res[r]
    BY <1>10 DEF ErrorAudit, ErrorMemory, ErrorMark, ErrorTrace, GiveUp, Goto,
       locals, TypeOK, ErrorSteps
  <2> QED
    BY <1>2, <2>1 DEF Tools, ErrorSteps
<1>11. ~AppendPendingApproval(r)
  BY <1>2 DEF AppendPendingApproval
<1> QED
  BY <1>4, <1>5, <1>6, <1>7, <1>8, <1>9, <1>10, <1>11 DEF RunStep

\* A run that makes no step, or dies, keeps what it has.
LEMMA RouteFrame ==
  ASSUME NEW s \in Runs, RouteRun(s),
         pc'[s] = pc[s] \/ (pc[s] # "idle" /\ pc'[s] = "crashed"),
         event'[s] = event[s], plan'[s] = plan[s], res'[s] = res[s],
         status'[s] = status[s],
         request'[s] = request[s], judgeMode' = judgeMode
  PROVE  RouteRun(s)'
BY DEF RouteRun, Called, Tools

\* A handler turns its request away or passes it on as the event of the route.
LEMMA RouteHandle ==
  ASSUME TypeInv, WebTypes, NEW r \in Runs, NEW q \in Requests, Handle(r, q),
         RouteRun(r)
  PROVE  RouteRun(r)' /\ approvals' = approvals /\ pc[r] = "idle"
<1> USE DEF TypeInv
<1>1. /\ request'[r] = q /\ q # NoRequest /\ judgeMode' = judgeMode
      /\ pc[r] = "idle" /\ res[r] = NoResults /\ plan[r] = EmptyPlan
      /\ status[r] = "none"
  BY RequestAssumption DEF Handle, RouteRun, WebTypes
<1>2. CASE UNCHANGED vars
  BY <1>1, <1>2 DEF RouteRun, vars
<1>3. CASE Refusal(q) = 0 /\ Deliver(r, EventOf(r, q))
  <2>1. /\ Admissible(q) /\ (judgeMode => q.route = "judge")
    BY <1>3, Converted
  <2>2. /\ pc'[r] \in {"is_processed", "error_audit"}
        /\ plan'[r] = EmptyPlan /\ res'[r] = NoResults
        /\ event'[r] = EventOf(r, q) /\ approvals' = approvals
    BY <1>1, <1>3 DEF Deliver, Goto, TypeOK, files
  <2>3. ~EmptyPlan.human /\ \A t \in Tools : ~Called(NoResults, t)
    BY DEF EmptyPlan, Called, NoResults
  <2> QED
    BY <1>1, <2>1, <2>2, <2>3 DEF RouteRun, Tools, Called
<1> QED
  BY <1>1, <1>2, <1>3 DEF Handle, vars

\* Every run keeps to its route.
LEMMA RouteStep ==
  TypeInv /\ WebTypes /\ RouteInv /\ [ServiceNext]_serviceVars => RouteInv'
<1> SUFFICES ASSUME TypeInv, WebTypes, RouteInv, [ServiceNext]_serviceVars,
                    NEW s \in Runs
             PROVE  RouteRun(s)' /\ Unfiled(s)'
  BY DEF RouteInv
<1>0. RouteRun(s) /\ Unfiled(s)
  BY DEF RouteInv
<1>1. ASSUME NEW r \in Runs, NEW q \in Requests, Handle(r, q)
      PROVE  RouteRun(s)' /\ Unfiled(s)'
  <2>1. RouteRun(r)' /\ approvals' = approvals /\ pc[r] = "idle"
    BY <1>1, RouteHandle DEF RouteInv
  <2>2. CASE s = r
    BY <1>0, <2>1, <2>2 DEF Unfiled
  <2>3. CASE s # r
    <3>1. /\ pc'[s] = pc[s] /\ event'[s] = event[s] /\ plan'[s] = plan[s]
          /\ res'[s] = res[s] /\ status'[s] = status[s]
      BY <1>1, <2>3, Converted, OthersKeep DEF Handle, vars, TypeInv
    <3>2. request'[s] = request[s] /\ judgeMode' = judgeMode
      BY <1>1, <2>3 DEF Handle, WebTypes
    <3> QED
      BY <1>0, <2>1, <3>1, <3>2, RouteFrame DEF Unfiled
  <2> QED
    BY <2>2, <2>3
<1>2. ASSUME NEW r \in Runs, Serve(r)
      PROVE  RouteRun(s)' /\ Unfiled(s)'
  <2>1. RunStep(r) /\ request' = request /\ judgeMode' = judgeMode
    BY <1>2 DEF Serve
  <2>2. pc[r] # "idle" /\ pc'[r] # "idle"
    BY <2>1, StepOfActive, StepNames DEF Active
  <2>3. \/ approvals' = approvals
        \/ /\ pc[r] = "append_pending_approval"
           /\ approvals' = approvals \cup { OwnRequest(r) }
    BY <2>1, LinkWriters
  <2>4. RouteRun(r)' /\ RouteRun(r)
    BY <2>1, RouteRunStep DEF RouteInv
  <2>5. CASE s = r
    <3>1. request[r].route # "event" => pc[r] # "append_pending_approval"
      BY <2>2, <2>4 DEF RouteRun
    <3> QED
      BY <1>0, <2>1, <2>2, <2>3, <2>4, <2>5, <3>1 DEF Unfiled
  <2>6. CASE s # r
    <3>1. /\ pc'[s] = pc[s] /\ event'[s] = event[s] /\ plan'[s] = plan[s]
          /\ res'[s] = res[s] /\ status'[s] = status[s]
      BY <2>1, <2>6, OthersKeep DEF TypeInv
    <3> QED
      BY <1>0, <2>1, <2>3, <2>6, <3>1, RouteFrame DEF Unfiled, OwnRequest
  <2> QED
    BY <2>5, <2>6
<1>3. CASE \E r \in Runs : Answer(r) \/ JudgeAnswer(r)
  <2>1. UNCHANGED << vars, judgeMode, request >>
    BY <1>3 DEF Answer, JudgeAnswer
  <2> QED
    BY <1>0, <2>1, RouteFrame DEF vars, Unfiled
<1>4. CASE ServiceCrash
  <2>1. Crash /\ UNCHANGED << judgeMode, request >>
    BY <1>4 DEF ServiceCrash
  <2>2. /\ pc'[s] = pc[s] \/ (pc[s] # "idle" /\ pc'[s] = "crashed")
        /\ pc'[s] = "idle" => pc[s] = "idle"
        /\ approvals' = approvals /\ UNCHANGED locals
    BY <2>1, StepNames DEF Crash, Active, TypeInv, TypeOK
  <2> QED
    BY <1>0, <2>1, <2>2, RouteFrame DEF locals, Unfiled
<1>5. CASE UNCHANGED serviceVars
  BY <1>0, <1>5, RouteFrame DEF serviceVars, web, vars, Unfiled
<1> QED
  BY <1>1, <1>2, <1>3, <1>4, <1>5, ServiceCases

\* A run calls only the tools of its route, and in judge mode no event of anyone
\* else gets in.
THEOREM RouteToolsHold == ServiceSpec => []RouteTools
<1>1. ServiceInit => RouteInv
  <2> SUFFICES ASSUME ServiceInit PROVE RouteInv
    OBVIOUS
  <2> QED
    BY DEF ServiceInit, Init, RouteInv, RouteRun, Unfiled
<1>2. TypeInv /\ WebTypes /\ RouteInv => RouteTools
  <2> SUFFICES ASSUME TypeInv, WebTypes, RouteInv, NEW r \in Runs,
                      request[r] # NoRequest
               PROVE  /\ \A t \in Tools : Called(res[r], t) =>
                            t \in RouteToolSet(request[r])
                      /\ request[r].route # "event" => \A a \in approvals : a.run # r
                      /\ judgeMode /\ pc[r] # "idle" => request[r].route = "judge"
    BY DEF RouteTools
  <2>1. RouteRun(r) /\ Unfiled(r)
    BY DEF RouteInv
  <2>2. pc[r] = "idle" => \A t \in Tools : ~Called(res[r], t)
    BY <2>1 DEF RouteRun, Called, NoResults
  <2>3. request[r].route = "event" => RouteToolSet(request[r]) = Tools
    BY DEF RouteToolSet
  <2> QED
    BY <2>1, <2>2, <2>3 DEF RouteRun, Unfiled
<1> QED
  BY <1>1, <1>2, RouteStep, ServiceTypes, PTL DEF ServiceSpec

-----------------------------------------------------------------------------
(* A judge is shown the run that judge asked for. *)

\* A file of the trace directory is the finished run it speaks of.
OwnFile(f) ==
  /\ pc[f.view.run] = "done" /\ f.view = View(f.view.run)
  /\ \E i \in Instants : f.name = TraceName(Id(f.view.run), i)

\* A path is that of the run that returned it.
OwnPath(r) ==
  path[r] # NoName =>
    pc[r] = "done" /\ \E i \in Instants : path[r] = TraceName(Id(r), i)

OwnAnswer(r) ==
  /\ code[r] = 200 => pc[r] = "done" /\ request[r] # NoRequest /\ shown[r] = View(r)
  /\ code[r] # 200 => shown[r] = NoView(r)

\* Run r takes its event for a duplicate.
TakenForDuplicate(r) == plan[r].cls = "duplicate_event" \/ status[r] = "duplicate"

\* Another run has begun with the event id of r.
Repeated(r) == \E s \in Runs \ {r} : pc[s] # "idle" /\ Id(s) = Id(r)

ShownInv ==
  /\ SettledByRun
  /\ \A f \in dir : OwnFile(f)
  /\ \A r \in Runs : OwnPath(r) /\ OwnAnswer(r)
  /\ \A r \in Runs : TakenForDuplicate(r) => Repeated(r)

\* A run that has returned stays as it is.
LEMMA DoneStep ==
  ASSUME TypeInv, [Next]_vars, NEW s \in Runs, pc[s] = "done"
  PROVE  /\ pc'[s] = "done" /\ Id(s)' = Id(s) /\ View(s)' = View(s)
         /\ plan'[s] = plan[s] /\ status'[s] = status[s]
<1> USE DEF TypeInv
<1> DEFINE Same ==
      /\ pc'[s] = "done" /\ event'[s] = event[s] /\ plan'[s] = plan[s]
      /\ res'[s] = res[s] /\ verdict'[s] = verdict[s] /\ status'[s] = status[s]
<1>1. Same
  <2>1. ASSUME NEW r \in Runs, NEW p \in Payloads, Deliver(r, p)
        PROVE  Same
    <3>1. r # s
      BY <2>1 DEF Deliver
    <3> QED
      BY <2>1, <3>1, OthersKeep
  <2>2. ASSUME NEW r \in Runs, RunStep(r)
        PROVE  Same
    <3>1. r # s
      BY <2>2, StepOfActive, StepNames DEF Active, Ended
    <3> QED
      BY <2>2, <3>1, OthersKeep
  <2>3. CASE Crash
    BY <2>3, StepNames DEF Crash, Active, locals, Ended, TypeOK
  <2>4. CASE UNCHANGED vars
    BY <2>4 DEF vars
  <2> QED
    BY <2>1, <2>2, <2>3, <2>4, StepCases
<1> QED
  BY <1>1 DEF Id, View, ReportedTools, Called

\* What a step of run() stores: nothing, the whole trace of a run that has
\* returned, or a truncated one.
LEMMA Storing ==
  ASSUME TypeInv, NEW r \in Runs, Serve(r)
  PROVE  \/ UNCHANGED << path, dir >>
         \/ \E i \in Instants :
              /\ pc'[r] = "done" /\ Id(r)' = Id(r) /\ View(r)' = View(r)
              /\ path' = [ path EXCEPT ![r] = TraceName(Id(r), i) ]
              /\ dir' = Stored(r, i, TRUE)
         \/ \E i \in Instants : path' = path /\ dir' = Stored(r, i, FALSE)
<1> SUFFICES ASSUME NEW i \in Instants, TraceFile(r, TRUE) \in traces' \ traces,
                    RunStep(r)
             PROVE  pc'[r] = "done" /\ Id(r)' = Id(r) /\ View(r)' = View(r)
  BY DEF Serve
<1>1. pc[r] \in {"write_trace", "error_trace"}
  BY FileWriters
<1>2. WriteTrace(r) \/ ErrorTrace(r)
  BY <1>1 DEF RunStep, CheckIdempotency, MakePlan, CallLocalTool, CallDokuMcpTool,
     AppendPendingApproval, WriteAuditLog, Verify, AppendMemory, MarkProcessed,
     ErrorAudit, ErrorMemory, ErrorMark, LocalTools
<1>3. TraceFile(r, TRUE) # TraceFile(r, FALSE)
  <2>1. TraceFile(r, TRUE).whole = TRUE /\ TraceFile(r, FALSE).whole = FALSE
    BY DEF TraceFile
  <2> QED
    BY <2>1
<1>4. pc'[r] = "done" /\ UNCHANGED locals
  <2>1. \A t \in TornOrNot(r) : TraceFile(r, TRUE) \notin t \ traces
    BY <1>3 DEF TornOrNot
  <2> QED
    BY <1>2, <2>1 DEF WriteTrace, ErrorTrace, Goto, TypeInv, TypeOK
<1> QED
  BY <1>4 DEF locals, Id, View, ReportedTools, Called

\* A run that finds a mark of its event repeats the run that has set it.
LEMMA SeenRepeats ==
  ASSUME TypeInv, SettledByRun, NEW r \in Runs, pc[r] = "is_processed", Seen(Id(r))
  PROVE  Repeated(r)
<1>1. PICK p \in processed : p.id = Id(r)
  BY DEF Seen
<1>2. p.run \in Runs /\ Id(p.run) = Id(r) /\ pc[p.run] \in Remembered
  BY <1>1 DEF SettledByRun
<1>3. p.run # r /\ pc[p.run] # "idle"
  BY <1>2 DEF Remembered, ErrorSteps, Ended
<1> QED
  BY <1>2, <1>3 DEF Repeated

\* No other step makes a run take its event for a duplicate.
LEMMA TakingStep ==
  ASSUME TypeInv, SettledByRun, NEW r \in Runs, RunStep(r), TakenForDuplicate(r)'
  PROVE  TakenForDuplicate(r) \/ Repeated(r)
<1> USE DEF TypeInv
<1>1. ~Raise(r)
  BY RaiseEffect DEF EmptyPlan, TakenForDuplicate
<1>2. CASE CheckIdempotency(r)
  <2>1. pc[r] = "is_processed" /\ (Seen(Id(r)) \/ UNCHANGED << plan, status >>)
    BY <1>1, <1>2 DEF CheckIdempotency, IoRaise, locals
  <2> QED
    BY <2>1, SeenRepeats DEF TakenForDuplicate
<1>3. CASE MakePlan(r)
  <2> DEFINE p == ApplyPolicy(event[r], CreatePlan(event[r]), Seen(Id(r)))
  <2>1. p.cls # "duplicate_event"
    <3>1. CreatePlan(event[r]) \in Plans /\ Seen(Id(r)) \in BOOLEAN
      BY CreatePlanType DEF Seen
    <3>2. p.cls = CreatePlan(event[r]).cls
      BY <3>1, ApplyPolicyType
    <3> QED
      BY <3>2, CreatePlanClass
  <2> HIDE DEF p
  <2>2. plan'[r] = p /\ status'[r] = status[r]
    BY <1>1, <1>3 DEF MakePlan, IoRaise, TypeOK, p
  <2> QED
    BY <2>1, <2>2 DEF TakenForDuplicate
<1>4. CASE Verify(r)
  <2>1. \A v : TerminalStatus(plan[r], v) = "duplicate" =>
          plan[r].cls = "duplicate_event"
    BY DEF TerminalStatus
  <2> QED
    BY <1>1, <1>4, <2>1 DEF Verify, TypeOK, TakenForDuplicate
<1>5. CASE UNCHANGED << plan, status >>
  BY <1>5 DEF TakenForDuplicate
<1> QED
  BY <1>1, <1>2, <1>3, <1>4, <1>5 DEF RunStep, CallLocalTool, CallDokuMcpTool,
     AppendPendingApproval, WriteAuditLog, AppendMemory, MarkProcessed, WriteTrace,
     ErrorAudit, ErrorMemory, ErrorMark, ErrorTrace, GiveUp, IoRaise, locals

\* A run that has begun keeps its event.
LEMMA BegunStep ==
  ASSUME TypeInv, [Next]_vars, NEW s \in Runs, pc[s] # "idle"
  PROVE  pc'[s] # "idle" /\ Id(s)' = Id(s)
<1> USE DEF TypeInv
<1>1. ASSUME NEW r \in Runs, NEW p \in Payloads, Deliver(r, p)
      PROVE  pc'[s] # "idle" /\ Id(s)' = Id(s)
  <2>1. s # r
    BY <1>1 DEF Deliver
  <2> QED
    BY <1>1, <2>1, OthersKeep DEF Id
<1>2. ASSUME NEW r \in Runs, RunStep(r)
      PROVE  pc'[s] # "idle" /\ Id(s)' = Id(s)
  BY <1>2, OthersKeep, StepOfActive DEF Id
<1>3. CASE Crash
  BY <1>3 DEF Crash, locals, TypeOK, Id
<1>4. CASE UNCHANGED vars
  BY <1>4 DEF vars, Id
<1> QED
  BY <1>1, <1>2, <1>3, <1>4, StepCases

\* Whoever takes an event for a duplicate repeats another run.
LEMMA RepeatStep ==
  ASSUME TypeInv, RouteInv, ShownInv, [Next]_vars, NEW s \in Runs,
         TakenForDuplicate(s)'
  PROVE  Repeated(s)'
<1> USE DEF TypeInv
<1>1. CASE Repeated(s) /\ pc[s] # "idle"
  <2>1. PICK r \in Runs \ {s} : pc[r] # "idle" /\ Id(r) = Id(s)
    BY <1>1 DEF Repeated
  <2>2. Id(s)' = Id(s) /\ Id(r)' = Id(r) /\ pc'[r] # "idle"
    BY <1>1, <2>1, BegunStep
  <2> QED
    BY <2>1, <2>2 DEF Repeated
<1>2. CASE TakenForDuplicate(s)
  <2>1. pc[s] # "idle"
    BY <1>2 DEF RouteInv, RouteRun, TakenForDuplicate, EmptyPlan
  <2> QED
    BY <1>1, <1>2, <2>1 DEF ShownInv
<1>3. CASE plan'[s] = plan[s] /\ status'[s] = status[s]
  BY <1>2, <1>3 DEF TakenForDuplicate
<1>4. ASSUME NEW r \in Runs, RunStep(r)
      PROVE  Repeated(s)'
  <2>1. CASE s = r
    <3>1. TakenForDuplicate(s) \/ Repeated(s)
      BY <1>4, <2>1, TakingStep DEF ShownInv
    <3>2. pc[s] # "idle"
      BY <1>4, <2>1, StepOfActive, StepNames DEF Active
    <3> QED
      BY <1>1, <1>2, <3>1, <3>2
  <2> QED
    BY <1>3, <1>4, <2>1, OthersKeep
<1>5. ASSUME NEW r \in Runs, NEW p \in Payloads, Deliver(r, p)
      PROVE  Repeated(s)'
  <2>1. plan' = plan /\ status'[r] \in {status[r], "error"}
    BY <1>5 DEF Deliver, TypeOK
  <2>2. s # r => status'[s] = status[s]
    BY <1>5, OthersKeep
  <2>3. TakenForDuplicate(s)
    BY <2>1, <2>2 DEF TakenForDuplicate
  <2> QED
    BY <1>2, <2>3
<1>6. CASE Crash \/ UNCHANGED vars
  BY <1>3, <1>6 DEF Crash, locals, vars
<1> QED
  BY <1>4, <1>5, <1>6, StepCases

\* The trace directory holds what finished runs have written, under their names.
LEMMA FilesStep ==
  ASSUME TypeInv, WebTypes, ShownInv, [ServiceNext]_serviceVars
  PROVE  /\ \A f \in dir' : OwnFile(f)'
         /\ \A s \in Runs : OwnPath(s)'
<1>1. \A f \in dir : OwnFile(f)'
  <2> SUFFICES ASSUME NEW f \in dir
               PROVE  OwnFile(f)'
    OBVIOUS
  <2>1. f.view.run \in Runs /\ OwnFile(f)
    BY DEF ShownInv, WebTypes, Views
  <2> QED
    BY <2>1, DoneStep, ServiceStepIsRuntimeStep DEF OwnFile
<1>2. \A s \in Runs : path'[s] = path[s] => OwnPath(s)'
  <2> SUFFICES ASSUME NEW s \in Runs, path'[s] = path[s], path[s] # NoName
               PROVE  OwnPath(s)'
    BY DEF OwnPath
  <2>1. pc[s] = "done" /\ OwnPath(s)
    BY DEF ShownInv, OwnPath
  <2> QED
    BY <2>1, DoneStep, ServiceStepIsRuntimeStep DEF OwnPath
<1>3. ASSUME NEW r \in Runs, Serve(r)
      PROVE  /\ \A f \in dir' : OwnFile(f)'
             /\ \A s \in Runs : OwnPath(s)'
  <2>1. CASE UNCHANGED << path, dir >>
    BY <1>1, <1>2, <2>1
  <2>2. ASSUME NEW i \in Instants,
               pc'[r] = "done", Id(r)' = Id(r), View(r)' = View(r),
               path' = [ path EXCEPT ![r] = TraceName(Id(r), i) ],
               dir' = Stored(r, i, TRUE)
        PROVE  /\ \A f \in dir' : OwnFile(f)'
               /\ \A s \in Runs : OwnPath(s)'
    <3>1. ASSUME NEW f \in dir', f \notin dir
          PROVE  OwnFile(f)'
      <4>1. f = [ name |-> TraceName(Id(r), i), view |-> View(r) ]
        BY <2>2, <3>1 DEF Stored
      <4>2. f.name = TraceName(Id(r), i) /\ f.view = View(r) /\ f.view.run = r
        BY <4>1 DEF View
      <4> QED
        BY <2>2, <4>2 DEF OwnFile
    <3>4. OwnPath(r)'
      BY <2>2 DEF OwnPath, WebTypes
    <3>5. \A s \in Runs \ {r} : path'[s] = path[s]
      BY <2>2 DEF WebTypes
    <3>6. \A f \in dir' : OwnFile(f)'
      BY <1>1, <3>1
    <3>7. \A s \in Runs : OwnPath(s)'
      BY <1>2, <3>4, <3>5
    <3> QED
      BY <3>6, <3>7
  <2>3. ASSUME NEW i \in Instants, path' = path, dir' = Stored(r, i, FALSE)
        PROVE  /\ \A f \in dir' : OwnFile(f)'
               /\ \A s \in Runs : OwnPath(s)'
    <3>1. dir' \subseteq dir
      BY <2>3 DEF Stored
    <3> QED
      BY <1>1, <1>2, <2>3, <3>1
  <2> QED
    BY <1>3, <2>1, <2>2, <2>3, Storing
<1>4. CASE ServiceCrash
  BY <1>1, <1>2, <1>4 DEF ServiceCrash
<1>5. CASE UNCHANGED << path, dir >>
  BY <1>1, <1>2, <1>5
<1> QED
  BY <1>3, <1>4, <1>5, ServiceCases DEF Handle, Answer, JudgeAnswer, serviceVars, web

\* The file that a judge's path names is that of the judge's run.
LEMMA NamedFile ==
  ASSUME TypeInv, WebTypes, RouteInv, ShownInv, NEW r \in Runs, NEW f \in dir,
         request[r].route = "judge", pc[r] = "done", f.name = path[r]
  PROVE  f.view = View(r)
<1> DEFINE s == f.view.run
<1>1. s \in Runs /\ pc[s] = "done" /\ f.view = View(s)
  BY DEF ShownInv, OwnFile, WebTypes, Views
<1>2. PICK i \in Instants : f.name = TraceName(Id(s), i)
  BY DEF ShownInv, OwnFile
<1>3. /\ request[r] \in Requests /\ Admissible(request[r])
      /\ Id(r) = EventOf(r, request[r]).id
      /\ request[s] \in Requests /\ Admissible(request[s])
      /\ Id(s) = EventOf(s, request[s]).id
      /\ Id(s) \in Ids
  BY <1>1 DEF RouteInv, RouteRun, Id, TypeInv, Begun, Ids
<1>4. path[r] # NoName
  BY <1>2, <1>3, NameAssumption
<1>5. PICK j \in Instants : path[r] = TraceName(Id(r), j)
  BY <1>4 DEF ShownInv, OwnPath
<1>6. SafeName(Id(r)) = SafeName(Id(s))
  <2>1. TraceName(Id(r), j)[1] = SafeName(Id(r))
    BY DEF TraceName
  <2>2. TraceName(Id(s), i)[1] = SafeName(Id(s))
    BY DEF TraceName
  <2> QED
    BY <1>2, <1>5, <2>1, <2>2
<1>7. s = r
  BY <1>1, <1>3, <1>6, RequestAssumption
<1> QED
  BY <1>1, <1>7

\* What is answered is what the run says of itself.
LEMMA AnswerStep ==
  ASSUME TypeInv, WebTypes, RouteInv, ShownInv, [ServiceNext]_serviceVars,
         NEW s \in Runs
  PROVE  OwnAnswer(s)'
<1>1. ASSUME NEW r \in Runs, Answer(r) \/ JudgeAnswer(r)
      PROVE  OwnAnswer(s)'
  <2>1. UNCHANGED << vars, request >> /\ View(s)' = View(s)
    BY <1>1 DEF Answer, JudgeAnswer, vars, View, ReportedTools, Called
  <2>2. NoView(s)' = NoView(s) /\ OwnAnswer(s)
    BY DEF NoView, ShownInv
  <2>3. CASE s # r
    <3>1. code'[s] = code[s] /\ shown'[s] = shown[s]
      BY <1>1, <2>3 DEF Answer, JudgeAnswer, WebTypes
    <3> QED
      BY <2>1, <2>2, <3>1 DEF OwnAnswer, vars
  <2>4. CASE s = r
    <3>1. pc[s] = "done" /\ request[s] # NoRequest
      BY <1>1, <2>4 DEF Answer, JudgeAnswer, RouteInv, RouteRun
    <3>2. /\ code'[s] = 200 => shown'[s] = View(s)
          /\ code'[s] # 200 => shown'[s] = NoView(s)
      <4>1. CASE Answer(r)
        BY <2>2, <2>4, <4>1 DEF Answer, WebTypes, OwnAnswer
      <4>2. CASE JudgeAnswer(r)
        <5>1. request[s].route = "judge"
          BY <2>4, <4>2 DEF JudgeAnswer
        <5>2. \A f \in dir : f.name = path[s] => f.view = View(s)
          BY <3>1, <5>1, NamedFile
        <5> QED
          BY <2>2, <2>4, <4>2, <5>2 DEF JudgeAnswer, WebTypes, OwnAnswer
      <4> QED
        BY <1>1, <4>1, <4>2
    <3> QED
      BY <2>1, <2>2, <3>1, <3>2 DEF OwnAnswer, vars
  <2> QED
    BY <2>3, <2>4
<1>2. ASSUME code'[s] = code[s], shown'[s] = shown[s],
             request[s] # NoRequest => request'[s] = request[s]
      PROVE  OwnAnswer(s)'
  <2>1. NoView(s)' = NoView(s) /\ OwnAnswer(s)
    BY DEF NoView, ShownInv
  <2>2. CASE code[s] = 200
    BY <1>2, <2>1, <2>2, DoneStep, ServiceStepIsRuntimeStep DEF OwnAnswer
  <2> QED
    BY <1>2, <2>1, <2>2 DEF OwnAnswer
<1>3. ASSUME NEW r \in Runs, NEW q \in Requests, Handle(r, q)
      PROVE  OwnAnswer(s)'
  <2>1. NoView(s)' = NoView(s) /\ OwnAnswer(s)
    BY DEF NoView, ShownInv
  <2>2. CASE s # r
    BY <1>2, <1>3, <2>2 DEF Handle, WebTypes
  <2>3. CASE s = r
    <3>1. Refusal(q) # 200
      BY DEF Refusal
    <3>2. code[s] # 200
      BY <1>3, <2>1, <2>3 DEF Handle, OwnAnswer
    <3> QED
      BY <1>3, <2>1, <2>3, <3>1, <3>2 DEF Handle, WebTypes, OwnAnswer
  <2> QED
    BY <2>2, <2>3
<1> QED
  BY <1>1, <1>2, <1>3, ServiceCases DEF Serve, ServiceCrash, serviceVars, web

LEMMA ShownInvariant == ServiceSpec => [](RouteInv /\ ShownInv)
<1>1. ServiceInit => RouteInv /\ ShownInv
  <2> SUFFICES ASSUME ServiceInit PROVE RouteInv /\ ShownInv
    OBVIOUS
  <2>1. RouteInv
    BY DEF ServiceInit, Init, RouteInv, RouteRun, Unfiled
  <2>2. ShownInv
    BY DEF ServiceInit, Init, ShownInv, SettledByRun, OwnPath, OwnAnswer,
       TakenForDuplicate, EmptyPlan
  <2> QED
    BY <2>1, <2>2
<1>2. TypeInv /\ WebTypes /\ RouteInv /\ ShownInv /\ [ServiceNext]_serviceVars =>
        RouteInv' /\ ShownInv'
  <2> SUFFICES ASSUME TypeInv, WebTypes, RouteInv, ShownInv,
                      [ServiceNext]_serviceVars
               PROVE  RouteInv' /\ ShownInv'
    OBVIOUS
  <2>1. [Next]_vars
    BY ServiceStepIsRuntimeStep
  <2>2. SettledByRun'
    BY <2>1, SettledStep DEF ShownInv
  <2>3. \A r \in Runs : TakenForDuplicate(r)' => Repeated(r)'
    BY <2>1, RepeatStep
  <2> QED
    BY <2>2, <2>3, RouteStep, FilesStep, AnswerStep DEF ShownInv
<1> QED
  BY <1>1, <1>2, ServiceTypes, PTL DEF ServiceSpec

\* What a judge is shown is the judge's own run, and never a duplicate.
THEOREM JudgesSeeTheirRuns == ServiceSpec => []JudgeSeesOwnRun
<1>1. RouteInv /\ ShownInv => JudgeSeesOwnRun
  <2> SUFFICES ASSUME RouteInv, ShownInv, NEW r \in Runs, code[r] = 200,
                      request[r].route = "judge"
               PROVE  shown[r] = View(r) /\ status[r] # "duplicate"
    BY DEF JudgeSeesOwnRun
  <2>1. pc[r] = "done" /\ shown[r] = View(r)
    BY DEF ShownInv, OwnAnswer
  <2>2. ~Repeated(r)
    <3> SUFFICES ASSUME NEW s \in Runs \ {r}, pc[s] # "idle", Id(s) = Id(r)
                 PROVE  FALSE
      BY DEF Repeated
    <3>1. /\ request[r] \in Requests /\ Admissible(request[r])
          /\ Id(r) = EventOf(r, request[r]).id
          /\ request[s] \in Requests /\ Admissible(request[s])
          /\ Id(s) = EventOf(s, request[s]).id
      BY <2>1 DEF RouteInv, RouteRun, Id
    <3> QED
      BY <3>1, RequestAssumption
  <2> QED
    BY <2>1, <2>2 DEF ShownInv, TakenForDuplicate
<1> QED
  BY <1>1, ShownInvariant, PTL

\* A text between a word and another text.
Framed(h, a, x) == << h >> \o a \o x

\* The words of a text that stands between a word and one more.
LEMMA Between ==
  ASSUME NEW S, NEW h \in S, NEW a \in Seq(S), NEW x \in Seq(S), Len(x) = 1
  PROVE  LET v == Framed(h, a, x)
         IN  /\ Len(v) = Len(a) + 2 /\ v[Len(a) + 2] = x[1]
             /\ \A i \in 1 .. Len(a) : v[i + 1] = a[i]
<1> DEFINE u == << h >> \o a
<1>1. /\ u \in Seq(S) /\ Len(u) = Len(a) + 1
      /\ \A i \in 1 .. Len(a) : u[i + 1] = a[i]
  OBVIOUS
<1> HIDE DEF u
<1>2. /\ Len(u \o x) = Len(u) + 1 /\ (u \o x)[Len(u) + 1] = x[1]
      /\ \A j \in 1 .. Len(u) : (u \o x)[j] = u[j]
  <2>1. /\ Len(u \o x) = Len(u) + Len(x)
        /\ \A j \in 1 .. Len(u) + Len(x) : (u \o x)[j] =
              IF j <= Len(u) THEN u[j] ELSE x[j - Len(u)]
    BY <1>1, ConcatProperties
  <2>2. Len(u) \in Nat /\ Len(u) + 1 - Len(u) = 1
    BY <1>1
  <2> QED
    BY <2>1, <2>2
<1>3. \A i \in 1 .. Len(a) : i + 1 \in 1 .. Len(u)
  BY <1>1
<1> QED
  BY <1>1, <1>2, <1>3 DEF u, Framed

\* Two texts between the same word and one more are told apart.
LEMMA PlainTexts ==
  ASSUME NEW S, NEW h \in S, NEW a \in Seq(S), NEW b \in Seq(S),
         NEW x \in Seq(S), NEW y \in Seq(S), Len(x) = 1, Len(y) = 1,
         Framed(h, a, x) = Framed(h, b, y)
  PROVE  a = b /\ x = y
<1> DEFINE v == Framed(h, a, x)
           w == Framed(h, b, y)
<1>1. /\ Len(v) = Len(a) + 2 /\ v[Len(a) + 2] = x[1]
      /\ \A i \in 1 .. Len(a) : v[i + 1] = a[i]
  BY Between
<1>2. /\ Len(w) = Len(b) + 2 /\ w[Len(b) + 2] = y[1]
      /\ \A i \in 1 .. Len(b) : w[i + 1] = b[i]
  BY Between
<1>3. v = w
  OBVIOUS
<1> HIDE DEF v, w
<1>4. Len(a) = Len(b)
  BY <1>1, <1>2, <1>3
<1>5. x[1] = y[1] /\ \A i \in 1 .. Len(a) : a[i] = b[i]
  BY <1>1, <1>2, <1>3, <1>4
<1>6. a = b
  BY <1>4, <1>5, SeqEqual
<1>7. x = y
  BY <1>5, SeqEqual
<1> QED
  BY <1>6, <1>7

\* A notification is answered "duplicate" only if its event id has come before;
\* of plain texts, only if the invoice and the status have.
THEOREM DuplicatesAreRepeats == ServiceSpec => []DuplicateIsRepeat
<1>1. RouteInv /\ ShownInv => DuplicateIsRepeat
  <2> SUFFICES ASSUME RouteInv, ShownInv, NEW r \in Runs, request[r].route = "doku",
                      shown[r].status = "duplicate"
               PROVE  DuplicateIsRepeat!(r)!2
    BY DEF DuplicateIsRepeat
  <2>1. pc[r] = "done" /\ TakenForDuplicate(r)
    <3>1. OwnAnswer(r) /\ NoView(r).status = "none" /\ View(r).status = status[r]
      BY DEF ShownInv, NoView, View
    <3> QED
      BY <3>1 DEF OwnAnswer, TakenForDuplicate
  <2>2. PICK s \in Runs \ {r} : pc[s] # "idle" /\ Id(s) = Id(r)
    BY <2>1 DEF ShownInv, Repeated
  <2> DEFINE q == request[r]
             p == request[s]
  <2>3. /\ q \in Requests /\ Id(r) = EventOf(r, q).id
        /\ p \in Requests /\ Id(s) = EventOf(s, p).id
    BY <2>1, <2>2 DEF RouteInv, RouteRun, Id
  <2>4. ASSUME p.route = "doku", Plain(q.invoice), Plain(p.invoice), Plain(q.state),
               Plain(p.state), Len(q.state) = 1, Len(p.state) = 1
        PROVE  p.invoice = q.invoice /\ p.state = q.state
    <3>1. /\ Id(r) = << "doku_hook" >> \o q.invoice \o q.state
          /\ Id(s) = << "doku_hook" >> \o p.invoice \o p.state
      BY <2>3, <2>4 DEF EventOf, DokuWebhookToAgentEvent, DokuEventId, Plain
    <3>2. /\ q.invoice \in Seq(STRING) /\ q.state \in Seq(STRING)
          /\ p.invoice \in Seq(STRING) /\ p.state \in Seq(STRING)
      BY <2>3, <2>4, RequestAssumption
    <3> HIDE DEF q, p
    <3> DEFINE Words == STRING \cup {"doku_hook"}
    <3>3. /\ q.invoice \in Seq(Words) /\ q.state \in Seq(Words)
          /\ p.invoice \in Seq(Words) /\ p.state \in Seq(Words)
      BY <3>2, SeqMonotonic
    <3> HIDE DEF Words
    <3>4. "doku_hook" \in Words
      BY DEF Words
    <3>5. Framed("doku_hook", q.invoice, q.state) = Framed("doku_hook", p.invoice, p.state)
      BY <2>2, <3>1 DEF Framed
    <3>6. Len(q.state) = 1 /\ Len(p.state) = 1
      BY <2>4
    <3> QED
      BY <3>3, <3>4, <3>5, <3>6, PlainTexts
  <2> QED
    BY <2>2, <2>4
<1> QED
  BY <1>1, ShownInvariant, PTL

=============================================================================
