-------------------------------- MODULE Api ---------------------------------
(***************************************************************************)
(* The HTTP surface: the routes of aagcp/api.py and of prod_ui.py, which   *)
(* extends it, over one Orchestrator.  A Worker is a handler thread of     *)
(* ThreadingHTTPServer.                                                    *)
(*                                                                         *)
(* The journal holds hashes; the plan, the forecast and the receipt a      *)
(* handler needs are kept per request in the process's Registry.  A        *)
(* restart empties it, and a handler whose artifact is missing answers 409 *)
(* and calls nothing.  A handler reads the registry, calls the             *)
(* orchestrator, and on its return may set the registry: three steps, and  *)
(* other handlers run between them, as they do inside the call.            *)
(***************************************************************************)
EXTENDS OrchestratorProperties

VARIABLES
  reg,      \* reg[r]: the plan, forecast and receipt held in memory
  handler,  \* handler[w]: what worker w has read, or has still to set
  raced     \* history: the artifacts two handlers had to set at once

avars == <<log, size, last, call, ran, reg, handler, raced>>

Artifact == {"plan", "forecast", "receipt"}

NothingHeld == [k \in Artifact |-> None]

Free == [at |-> "free"]

Handler ==
  {Free}
    \cup [at: {"read"}, req: Request, kind: {"plan"}, value: PlanHash]
    \cup [at: {"read"}, req: Request, kind: {"forecast"}, value: Forecast]
    \cup [at: {"read"}, req: Request, kind: {"receipt"}, value: Receipt]
    \cup [at: {"calls"}]
    \cup [at: {"sets"}, req: Request, kind: {"plan"}, value: PlanHash]
    \cup [at: {"sets"}, req: Request, kind: {"forecast"}, value: Forecast]
    \cup [at: {"sets"}, req: Request, kind: {"receipt"}, value: Receipt]

RegistryType ==
  /\ reg \in [Request -> [Artifact -> PlanHash \cup Forecast \cup Receipt \cup {None}]]
  /\ handler \in [Worker -> Handler]
  /\ \A r \in Request :
       /\ reg[r].plan \in PlanHash \cup {None}
       /\ reg[r].forecast \in Forecast \cup {None}
       /\ reg[r].receipt \in Receipt \cup {None}

ApiInit ==
  /\ Init
  /\ reg = [r \in Request |-> NothingHeld]
  /\ handler = [w \in Worker |-> Free]
  /\ raced = {}

----------------------------------------------------------------------------
(* The routes: read the registry, then call the orchestrator.              *)

Fetch(w, r, kind) ==
  /\ handler[w] = Free
  /\ reg[r][kind] # None
  /\ handler' = [handler EXCEPT ![w] =
                   [at |-> "read", req |-> r, kind |-> kind, value |-> reg[r][kind]]]
  /\ UNCHANGED <<vars, reg, raced>>

Read(w, r, kind) ==
  handler[w].at = "read" /\ handler[w].req = r /\ handler[w].kind = kind

\* The gate of the call has passed; the call goes on in call[w].
Calls(w) ==
  /\ handler' = [handler EXCEPT ![w] = [at |-> "calls"]]
  /\ UNCHANGED <<reg, raced>>

\* prod_ui's observe, analyze and plan recompile from the estate scanned.
PostScanned(w, r, by) ==
  /\ handler[w] = Free
  /\ by # None
  /\ \/ Observe(w, r, by)
     \/ Analyze(w, r, by)
     \/ \E p \in PlanHash : Plan(w, r, p, by)
  /\ Calls(w)

PostSimulate(w, r) ==
  /\ Read(w, r, "plan")
  /\ \E f \in Forecast : f.plan = handler[w].value /\ Simulate(w, r, f)
  /\ Calls(w)

PostApprove(w, r, by) ==
  /\ Read(w, r, "forecast")
  /\ Approve(w, r, handler[w].value, by)
  /\ Calls(w)

PostExecute(w, r) ==
  /\ Read(w, r, "plan")
  /\ Execute(w, r, handler[w].value)
  /\ Calls(w)

PostReconcile(w, r) ==
  /\ Read(w, r, "plan")
  /\ \E c \in Receipt : Reconcile(w, r, handler[w].value, c)
  /\ Calls(w)

\* The receipt is the registry's, never receipt_for().
FaultReceipt(w) == Receipt
ReceiptOf(w) == {handler[w].value}

PostVerify(w, r, passed) ==
  /\ Read(w, r, "receipt")
  /\ \E c \in ReceiptOf(w) : Verify(w, r, c, passed)
  /\ Calls(w)

PostClose(w, r) ==
  /\ Read(w, r, "receipt")
  /\ \E c \in ReceiptOf(w) : Close(w, r, c)
  /\ Calls(w)

PostRefuse(w, r) == handler[w] = Free /\ Refuse(w, r) /\ Calls(w)

\* A gate refused the call: 409, and nothing was done.
Decline(w) ==
  /\ handler[w].at = "read"
  /\ handler' = [handler EXCEPT ![w] = Free]
  /\ UNCHANGED <<vars, reg, raced>>

----------------------------------------------------------------------------
(* Inside the call, and what the handler does on its return.               *)

\* What a handler sets in the registry after the call that recorded e.
Sets(r, e) ==
  CASE e.phase = "plan" ->
         [at |-> "sets", req |-> r, kind |-> "plan", value |-> e.plan]
    [] e.phase = "simulate" ->
         [at |-> "sets", req |-> r, kind |-> "forecast", value |-> e.forecast]
    [] e.phase \in Executed ->
         [at |-> "sets", req |-> r, kind |-> "receipt", value |-> e.receipt]
    [] OTHER -> Free

Setting(r, kind) ==
  {w \in Worker : handler[w].at = "sets" /\ handler[w].req = r /\ handler[w].kind = kind}

\* An error of the driver is answered 500.
ExecutorEnds(w) ==
  /\ \/ /\ ExecutorRaises(w)
        /\ handler' = [handler EXCEPT ![w] = Free]
     \/ /\ \E c \in Receipt : ExecuteStaged(w, c)
        /\ UNCHANGED handler
  /\ UNCHANGED <<reg, raced>>

Return(w) ==
  LET r == call[w].req
      s == Sets(r, call[w].entry)
  IN  /\ AppendEntry(w)
      /\ handler' = IF call[w].next = "return" THEN [handler EXCEPT ![w] = s] ELSE handler
      /\ raced' = IF s = Free THEN raced
                  ELSE IF Setting(r, s.kind) = {} THEN raced \ {<<r, s.kind>>}
                  ELSE raced \cup {<<r, s.kind>>}
      /\ UNCHANGED reg

FaultRegister(w) ==
  LET h == handler[w] IN
  /\ h.at = "sets"
  /\ reg' = [reg EXCEPT ![h.req] =
               [@ EXCEPT ![h.kind] = IF @ = None THEN h.value ELSE @]]
  /\ handler' = [handler EXCEPT ![w] = Free]
  /\ UNCHANGED <<vars, raced>>

Register(w) ==
  LET h == handler[w] IN
  /\ h.at = "sets"
  /\ reg' = [reg EXCEPT ![h.req] = [@ EXCEPT ![h.kind] = h.value]]
  /\ handler' = [handler EXCEPT ![w] = Free]
  /\ UNCHANGED <<vars, raced>>

\* The process dies, calls and registry with it, and serves the journal anew.
Restart ==
  /\ \/ \E w \in Worker : handler[w] # Free
     \/ \E r \in Request : reg[r] # NothingHeld
  /\ call' = [w \in Worker |-> Idle]
  /\ handler' = [w \in Worker |-> Free]
  /\ reg' = [r \in Request |-> NothingHeld]
  /\ raced' = {}
  /\ UNCHANGED <<log, size, last, ran>>

ApiNext ==
  \/ \E w \in Worker, r \in Request :
       \/ \E kind \in Artifact : Fetch(w, r, kind)
       \/ \E by \in Submitter : PostScanned(w, r, by)
       \/ PostSimulate(w, r)
       \/ \E by \in Principal : PostApprove(w, r, by)
       \/ PostExecute(w, r)
       \/ PostReconcile(w, r)
       \/ \E passed \in BOOLEAN : PostVerify(w, r, passed)
       \/ PostClose(w, r)
       \/ PostRefuse(w, r)
  \/ \E w \in Worker : Decline(w) \/ ExecutorEnds(w) \/ Return(w) \/ Register(w)
  \/ Restart

ApiSpec == ApiInit /\ [][ApiNext]_avars

----------------------------------------------------------------------------
(* Properties.                                                             *)

\* What the process holds is what the journal last recorded, or a handler is
\* on its way to set it: no later phase has replaced it, unless two handlers
\* had recorded one of its kind before the first had set its own, since when
\* either may have set it last.
RegistryIsCurrent ==
  \A r \in Request : \A kind \in Artifact :
    <<r, kind>> \notin raced =>
      IF Setting(r, kind) = {}
      THEN reg[r][kind] \in {None, last[r][kind]}
      ELSE \A w \in Setting(r, kind) : handler[w].value = last[r][kind]

\* "Every gate that matters ... cannot be reached around by an HTTP request":
\* however handlers overlap, and however often the process restarts, the
\* audit reports none of the causes the gates answer for; and never
\* CAUSE_NO_RECEIPT, which a caller of the orchestrator can provoke with a
\* receipt of its own: what is verified or closed over HTTP is an outcome
\* recorded of that very request, on an artifact held since who knows when.
HttpPassesTheAudit == \A r \in Request : BindingsHold(r) /\ ~NoReceipt(r)

\* Over HTTP the operator reconciles, verifies and closes as often as needed.
ApiFairness ==
  /\ \A w \in Worker :
       SF_avars(Return(w)) /\ SF_avars(ExecutorEnds(w)) /\ SF_avars(Register(w))
  /\ \A r \in Request :
       /\ \A kind \in Artifact : SF_avars(\E w \in Worker : Fetch(w, r, kind))
       /\ SF_avars(\E w \in Worker : PostReconcile(w, r))
       /\ SF_avars(\E w \in Worker : PostVerify(w, r, TRUE))
       /\ SF_avars(\E w \in Worker : PostClose(w, r))

ApiFairSpec == ApiSpec /\ ApiFairness

\* "verification cannot be made to wait on one that no longer exists": what
\* was executed is in the end closed or refused, restarts or not.
ExecutedIsConcluded ==
  \A r \in Request :
    Done(r) # {} ~> (Ended(r) \/ size[r] >= MaxEntries)
=============================================================================
