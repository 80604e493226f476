------------------------------ MODULE Service ------------------------------
(***************************************************************************)
(* The HTTP service around the runtime: the routes of server/api.py that   *)
(* take events, the DOKU webhook's conversion of a notification, the judge *)
(* routes (server/judge.py, judge/workflows.py, judge/trace_view.py) and   *)
(* the trace directory with its file names (agent/trace.py).               *)
(*                                                                         *)
(* A member of Runs is one request here.  Its handler converts it to an    *)
(* event, calls run() and answers; the judge handler answers with the      *)
(* trace it finds under the path that run() returned.                      *)
(*                                                                         *)
(* A text (an event id, an invoice number, a status) is a sequence of      *)
(* words; "_" stands between them.  A mark is a word that stands for a     *)
(* character other than a letter, a digit, "_" or "-".                     *)
(*                                                                         *)
(* A request is a record.  Its route is "event" (/agent/run and            *)
(* /webhooks/payment, the same handler twice), "doku" or "judge":          *)
(*   event  body: the payload                                              *)
(*   doku   invoice: the invoice number, << >> if there is none;           *)
(*          state: the status; amount, and endless: the amount is infinite *)
(*   judge  token: it is the configured one; workflow; inputs: the keys    *)
(***************************************************************************)
EXTENDS Runtime

CONSTANTS
  Requests,    \* the requests that may come
  NoRequest,   \* what a handler that was not called holds
  NoName,      \* the trace path of a run that returned none
  Marks,       \* the words that are not kept
  MaxWords,    \* how many words of a text fit into 80 characters
  Instants     \* the microseconds in which traces are written

VARIABLES
  judgeMode,   \* config.judge_mode
  request,     \* request[r]: the request of handler r
  path,        \* path[r]: the trace_path its run returned, or NoName
  dir,         \* the readable files of the trace directory, at most one a name
  code,        \* code[r]: the HTTP status of the answer, 0 while there is none
  shown        \* shown[r]: what the answer says of a run

web == << judgeMode, request, path, dir, code, shown >>

serviceVars == << vars, web >>

-----------------------------------------------------------------------------
(* Texts *)

\* re.sub with "_": all marks become the same.
Replaced(text) ==
  [ i \in DOMAIN text |-> IF text[i] \in Marks THEN "_" ELSE text[i] ]

\* strip("_")
Stripped(text) ==
  LET inner == { i \in DOMAIN text : text[i] # "_" }
      first == CHOOSE i \in inner : \A j \in inner : i <= j
      last  == CHOOSE i \in inner : \A j \in inner : i >= j
  IN  IF inner = {} THEN << >> ELSE SubSeq(text, first, last)

\* api.py's _safe_event_token: other characters become "_", at most 80 remain.
SafeToken(text) ==
  LET words == Stripped(Replaced(text))
  IN  IF words = << >> THEN << "unknown" >>
      ELSE IF Len(words) > MaxWords THEN SubSeq(words, 1, MaxWords) ELSE words

\* trace.py's _safe, which cuts nothing.  It keeps the dot, too; here, two ids
\* that differ in a dot may share a name.
SafeName(text) == IF text = << >> THEN << "event" >> ELSE Replaced(text)

\* Mutant of TraceName: the time alone.
TraceNameByTime(id, instant) == << << >>, instant >>

\* The name of a trace: the event and the time to the microsecond.
TraceName(id, instant) == << SafeName(id), instant >>

-----------------------------------------------------------------------------
(* /webhooks/doku *)

\* Mutant of DokuEventId: one id per invoice.
DokuEventIdByInvoice(q) == << "doku_hook" >> \o SafeToken(q.invoice)

DokuEventId(q) ==
  << "doku_hook" >> \o SafeToken(q.invoice) \o SafeToken(q.state)

DokuWebhookToAgentEvent(q) ==
  [ id |-> DokuEventId(q), type |-> "transaction.lookup_requested",
    amount |-> q.amount, doku |-> TRUE, invoice |-> TRUE, valid |-> TRUE ]

-----------------------------------------------------------------------------
(* judge/workflows.py.  Both workflows are read_only, so the handler's branch *)
(* for sandbox_write is never taken.                                          *)

JudgeWorkflows == { "transaction_lookup", "doku_payment_methods" }

AllowedInputs(w) == IF w = "transaction_lookup" THEN { "invoice_number" } ELSE {}

ExpectedTools(w) ==
  IF w = "transaction_lookup"
  THEN { "get_transaction_by_invoice_number", "write_audit_log" }
  ELSE { "call_doku_mcp_tool", "write_audit_log" }

\* r stands for the twelve digits of uuid4.
JudgeEventId(r, w) == << "judge", w, r >>

\* Mutant of BuildEventForWorkflow: all inputs go into the metadata.
BuildEventMergingInputs(r, w, inputs) ==
  [ id |-> JudgeEventId(r, w),
    type |-> IF w = "transaction_lookup" THEN "transaction.lookup_requested"
                                         ELSE "doku.payment_methods_requested",
    amount |-> IF w = "transaction_lookup" THEN 20000 ELSE 0,
    doku |-> "provider" \in inputs,
    invoice |-> w = "transaction_lookup",
    valid |-> TRUE ]

\* Of the inputs only an allowed one has a place in the event, and the invoice
\* number has a default.
BuildEventForWorkflow(r, w, inputs) ==
  LET safe == inputs \cap AllowedInputs(w)
  IN  [ id |-> JudgeEventId(r, w),
        type |-> IF w = "transaction_lookup" THEN "transaction.lookup_requested"
                                             ELSE "doku.payment_methods_requested",
        amount |-> IF w = "transaction_lookup" THEN 20000 ELSE 0,
        doku |-> "provider" \in safe,
        invoice |-> w = "transaction_lookup",
        valid |-> TRUE ]

-----------------------------------------------------------------------------
(* What a handler decides before it calls run(). *)

\* The status of a request that is turned away, 0 for one that goes on.  An
\* infinite amount raises an OverflowError that nobody catches; 401 stands for
\* the 500 of a service without a configured token, too.
Refusal(q) ==
  CASE judgeMode /\ q.route # "judge" -> 404
    [] ~judgeMode /\ q.route = "doku" /\ q.invoice = << >> -> 400
    [] ~judgeMode /\ q.route = "doku" /\ q.invoice # << >> /\ q.endless -> 500
    [] q.route = "judge" /\ ~q.token -> 401
    [] q.route = "judge" /\ q.token /\ q.workflow \notin JudgeWorkflows -> 400
    [] OTHER -> 0

EventOf(r, q) ==
  CASE q.route = "doku"  -> DokuWebhookToAgentEvent(q)
    [] q.route = "judge" -> BuildEventForWorkflow(r, q.workflow, q.inputs)
    [] OTHER             -> q.body

\* Requests that some configuration lets through.
Admissible(q) ==
  /\ q.route = "doku" => q.invoice # << >> /\ ~q.endless
  /\ q.route = "judge" => q.token /\ q.workflow \in JudgeWorkflows

\* The payloads are those of the requests, and the digits of uuid4 do not
\* repeat, nor does another sender guess them.
ASSUME RequestAssumption ==
  /\ NoRequest \notin Requests
  /\ \A q \in Requests :
       /\ q.route \in {"event", "doku", "judge"}
       /\ q.route = "doku" =>
            /\ q.invoice \in Seq(STRING) /\ q.state \in Seq(STRING)
            /\ q.endless \in BOOLEAN /\ q.amount \in Int
       /\ q.route = "judge" => q.token \in BOOLEAN
  /\ \A q \in Requests, r \in Runs : Admissible(q) => EventOf(r, q) \in Payloads
  /\ \A q, p \in Requests, r, s \in Runs :
       q.route = "judge" /\ r # s /\ Admissible(q) /\ Admissible(p) =>
         /\ EventOf(r, q).id # EventOf(s, p).id
         /\ SafeName(EventOf(r, q).id) # SafeName(EventOf(s, p).id)

\* A missing amount is within the threshold.
ASSUME ThresholdAssumption == MaxAutonomousAmount >= 0
ASSUME NameAssumption ==
  \A id \in Ids, i \in Instants : TraceName(id, i) # NoName

-----------------------------------------------------------------------------
(* Traces and views *)

\* The tools a result or a trace lists: an error lists none.
ReportedTools(r) ==
  IF status[r] = "error" THEN {} ELSE { t \in Tools : Called(res[r], t) }

\* What run r says of itself, in its result and in its trace.
View(r) ==
  [ run |-> r, status |-> status[r], tools |-> ReportedTools(r),
    verified |-> verdict[r].ok ]

NoView(r) == [ run |-> r, status |-> "none", tools |-> {}, verified |-> FALSE ]

\* The readable files after run r has written its trace, whole or not, in
\* that instant: mode "w" truncates what the name stood for.
Stored(r, instant, whole) ==
  LET name == TraceName(Id(r), instant)
  IN  { f \in dir : f.name # name } \cup
      (IF whole THEN { [ name |-> name, view |-> View(r) ] } ELSE {})

-----------------------------------------------------------------------------
ServiceInit ==
  /\ Init
  /\ judgeMode \in BOOLEAN
  /\ request = [ r \in Runs |-> NoRequest ]
  /\ path = [ r \in Runs |-> NoName ]
  /\ dir = {}
  /\ code = [ r \in Runs |-> 0 ]
  /\ shown = [ r \in Runs |-> NoView(r) ]

\* A request comes in and is turned away, or converted and handed to run().
Handle(r, q) ==
  /\ request[r] = NoRequest
  /\ request' = [ request EXCEPT ![r] = q ]
  /\ \/ /\ Refusal(q) # 0
        /\ code' = [ code EXCEPT ![r] = Refusal(q) ]
        /\ UNCHANGED vars
     \/ /\ Refusal(q) = 0
        /\ Deliver(r, EventOf(r, q))
        /\ UNCHANGED code
  /\ UNCHANGED << judgeMode, path, dir, shown >>

\* A step of run(); a trace that is opened is stored under a name, and the
\* name of a whole one is returned.
Serve(r) ==
  /\ RunStep(r)
  /\ \/ /\ traces' = traces
        /\ UNCHANGED << path, dir >>
     \/ \E instant \in Instants :
          \/ /\ TraceFile(r, TRUE) \in traces' \ traces
             /\ path' = [ path EXCEPT ![r] = TraceName(Id(r), instant) ]
             /\ dir' = Stored(r, instant, TRUE)
          \/ /\ TraceFile(r, FALSE) \in traces' \ traces
             /\ dir' = Stored(r, instant, FALSE)
             /\ UNCHANGED path
  /\ UNCHANGED << judgeMode, request, code, shown >>

\* The event routes answer with the result of the run.
Answer(r) ==
  /\ pc[r] = "done" /\ code[r] = 0
  /\ request[r].route # "judge"
  /\ code' = [ code EXCEPT ![r] = 200 ]
  /\ shown' = [ shown EXCEPT ![r] = View(r) ]
  /\ UNCHANGED << vars, judgeMode, request, path, dir >>

\* The judge route answers with a summary of the trace; one that is missing or
\* cannot be read is an error of the server, although the run is recorded.
JudgeAnswer(r) ==
  /\ pc[r] = "done" /\ code[r] = 0
  /\ request[r].route = "judge"
  /\ \/ \E f \in dir :
          /\ f.name = path[r]
          /\ code' = [ code EXCEPT ![r] = 200 ]
          /\ shown' = [ shown EXCEPT ![r] = f.view ]
     \/ /\ May("io") \/ \A f \in dir : f.name # path[r]
        /\ code' = [ code EXCEPT ![r] = 500 ]
        /\ UNCHANGED shown
  /\ UNCHANGED << vars, judgeMode, request, path, dir >>

\* The process dies; the traces that were being written are truncated.
ServiceCrash ==
  /\ Crash
  /\ \E at \in [ Runs -> Instants ] :
       dir' = { f \in dir : \A r \in Runs :
                  TraceFile(r, FALSE) \in traces' \ traces =>
                    f.name # TraceName(Id(r), at[r]) }
  /\ UNCHANGED << judgeMode, request, path, code, shown >>

Answered(r) == code[r] # 0 \/ pc[r] = "crashed"

\* Every request is answered or lost, and no other one comes.
ServiceFinished ==
  /\ \A r \in Runs : request[r] # NoRequest /\ Answered(r)
  /\ UNCHANGED serviceVars

HandlerStep(r) == Serve(r) \/ Answer(r) \/ JudgeAnswer(r)

ServiceNext ==
  \/ \E r \in Runs, q \in Requests : Handle(r, q)
  \/ \E r \in Runs : HandlerStep(r)
  \/ ServiceCrash
  \/ ServiceFinished

ServiceSpec == ServiceInit /\ [][ServiceNext]_serviceVars

-----------------------------------------------------------------------------
(* Properties, with every fault. *)

\* The tools a route may lead to.
RouteToolSet(q) ==
  CASE q.route = "doku"  -> { "call_doku_mcp_tool", "write_audit_log" }
    [] q.route = "judge" -> ExpectedTools(q.workflow)
    [] OTHER             -> Tools

\* A judge's run calls no tool but those its workflow announces, a notification
\* of DOKU leads to nothing but a look at DOKU, and a service in judge mode
\* touches no payment and files no request for a human, whatever the inputs and
\* the other requests.  (The announcement at workflows.py:30-46 and the executor
\* are written apart; what joins them is classification and policy.)
RouteTools ==
  \A r \in Runs : request[r] # NoRequest =>
    /\ \A t \in Tools : Called(res[r], t) => t \in RouteToolSet(request[r])
    /\ request[r].route # "event" => \A a \in approvals : a.run # r
    /\ judgeMode /\ pc[r] # "idle" => request[r].route = "judge"

\* What a judge is shown is the run that judge asked for: its status, its tools,
\* its verdict, never another run's and never a duplicate, although the answer is
\* read back from a file that any run may write.  (judge.py:91-95; it rests on
\* the uuid in the event id, which makes the trace name and the mark unique.)
JudgeSeesOwnRun ==
  \A r \in Runs : code[r] = 200 /\ request[r].route = "judge" =>
    shown[r] = View(r) /\ status[r] # "duplicate"

\* The token of a text is the text.
Plain(text) == SafeToken(text) = text

\* A notification of DOKU is answered "duplicate" only if another request had the
\* same event id; and if that was a notification too, both with texts the token
\* keeps and statuses of one word, it was of the same invoice and the same
\* status: a later status of an invoice is never dropped.  (api.py:66; texts that
\* are cut or have other characters may collide.)
DuplicateIsRepeat ==
  \A r \in Runs :
    request[r] # NoRequest /\ request[r].route = "doku"
      /\ shown[r].status = "duplicate" =>
      \E s \in Runs \ {r} :
        /\ pc[s] # "idle" /\ Id(s) = Id(r)
        /\ LET q == request[r]
                p == request[s]
            IN  p.route = "doku"
                /\ Plain(q.invoice) /\ Plain(p.invoice)
                /\ Plain(q.state) /\ Plain(p.state)
                /\ Len(q.state) = 1 /\ Len(p.state) = 1 =>
                  p.invoice = q.invoice /\ p.state = q.state

=============================================================================
