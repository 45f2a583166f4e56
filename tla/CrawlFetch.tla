----------------------------- MODULE CrawlFetch -----------------------------
(***************************************************************************)
(* One provider's crawl: BaseCrawler._send_concurrent_requests and         *)
(* _fetch_and_transform (sportscanner/crawlers/parsers/core/interfaces.py).*)
(* Every request is an asyncio task that waits for the semaphore, tries    *)
(* its url variants in order and reports to the provider's circuit         *)
(* breaker; the crawl collects the tasks that are done and cancels the     *)
(* rest once the breaker has tripped.  The tasks share one event loop: a   *)
(* step here is what runs between two awaits.                              *)
(***************************************************************************)
EXTENDS Integers, FiniteSets

CONSTANTS
  Requests,   \* the requests generated for the venues and dates of the crawl
  Variants,   \* urls of a request: its url and its fallback_urls
  Capacity,   \* CRAWLER_MAX_CONCURRENT_REQUESTS_PER_PROVIDER
  MinSample,  \* min_sample of the breaker (20 in the code)
  ParserMayRaise  \* can parser.parse or _on_empty_response raise?

ASSUME RequestsAssumption == IsFiniteSet(Requests)
ASSUME NumbersAssumption ==
  Variants \in Nat \ {0} /\ Capacity \in Nat \ {0} /\ MinSample \in Nat \ {0}
ASSUME ParserAssumption == ParserMayRaise \in BOOLEAN

VARIABLES
  task,            \* where each task is
  attempt,         \* attempt_index of each task, from 1
  sawClientError,  \* saw_client_error of each task
  ending,          \* how each task's request ended
  completed, failures, tripped,  \* the circuit breaker
  permits,         \* free permits of the semaphore
  collected,       \* tasks whose result is in successful_responses
  crawl            \* "running" until _send_concurrent_requests returns

breaker == <<completed, failures, tripped>>
vars == <<task, attempt, sawClientError, ending, breaker, permits, collected, crawl>>

\* "slots": parsed; "blanks": 200 without slots; "raised": the response came but
\* handling it raised; "http": every variant returned an error status;
\* "lost": connection error, or a body that is not the JSON it claims to be;
\* "skipped": short-circuited, the breaker had tripped.
Endings == {"none", "slots", "blanks", "raised", "http", "lost", "skipped"}

InState(s)  == {r \in Requests : task[r] = s}
Ended(kinds) == {r \in Requests : ending[r] \in kinds}

TypeOK ==
  /\ task \in [Requests -> {"queued", "sent", "done", "cancelled"}]
  /\ attempt \in [Requests -> 1..Variants]
  /\ sawClientError \in [Requests -> BOOLEAN]
  /\ ending \in [Requests -> Endings]
  /\ completed \in Nat /\ failures \in Nat /\ tripped \in BOOLEAN
  /\ permits \in 0..Capacity
  /\ collected \subseteq Requests
  /\ crawl \in {"running", "finished"}

Init ==
  /\ task = [r \in Requests |-> "queued"]
  /\ attempt = [r \in Requests |-> 1]
  /\ sawClientError = [r \in Requests |-> FALSE]
  /\ ending = [r \in Requests |-> "none"]
  /\ completed = 0 /\ failures = 0 /\ tripped = FALSE
  /\ permits = Capacity
  /\ collected = {}
  /\ crawl = IF Requests = {} THEN "finished" ELSE "running"

-----------------------------------------------------------------------------
\* Mutant: no minimum sample.
TripsAtOnce(done, failed) == 2 * failed >= done

\* _CircuitBreaker.record, called n times of which f with failed=True.  The
\* calls a response makes are one after the other: the last one decides on the
\* final counts, a call before it on the counts it leaves.
Trips(done, failed) == done >= MinSample /\ 2 * failed >= done

\* Mutant: only successes are counted as completed.
RecordSuccesses(failed) ==
  /\ completed' = completed + (IF failed THEN 0 ELSE 1)
  /\ failures' = failures + (IF failed THEN 1 ELSE 0)
  /\ tripped' = (tripped \/ Trips(completed', failures'))

Record(failed) ==
  /\ completed' = completed + 1
  /\ failures' = failures + (IF failed THEN 1 ELSE 0)
  /\ tripped' = (tripped \/ Trips(completed', failures'))

\* record(failed=False), and record(failed=True) when handling the response raises.
RecordTwice ==
  /\ completed' = completed + 2
  /\ failures' = failures + 1
  /\ tripped' = (tripped \/ Trips(completed + 1, failures) \/ Trips(completed', failures'))

\* Mutant: the semaphore is not released.
ReturnWithoutRelease(r, how) ==
  /\ task' = [task EXCEPT ![r] = "done"]
  /\ ending' = [ending EXCEPT ![r] = how]
  /\ UNCHANGED <<permits, attempt, sawClientError, collected, crawl>>

\* The coroutine returns: its permit goes back to the semaphore.
Return(r, how) ==
  /\ task' = [task EXCEPT ![r] = "done"]
  /\ ending' = [ending EXCEPT ![r] = how]
  /\ permits' = permits + 1
  /\ UNCHANGED <<attempt, sawClientError, collected, crawl>>

\* Mutant: the breaker is not looked at before sending.
SendRegardless(r) ==
  /\ task[r] = "queued" /\ permits > 0
  /\ task' = [task EXCEPT ![r] = "sent"]
  /\ permits' = permits - 1
  /\ UNCHANGED <<attempt, sawClientError, ending, breaker, collected, crawl>>

\* _bounded gets the semaphore; the first request goes out unless the breaker
\* tripped while the task was queued.
Send(r) ==
  /\ task[r] = "queued" /\ permits > 0 /\ ~tripped
  /\ task' = [task EXCEPT ![r] = "sent"]
  /\ permits' = permits - 1
  /\ UNCHANGED <<attempt, sawClientError, ending, breaker, collected, crawl>>

\* Mutant: a short-circuited task releases a permit twice.
ShortCircuitReleasing(r) ==
  /\ task[r] = "queued" /\ permits > 0 /\ tripped
  /\ task' = [task EXCEPT ![r] = "done"]
  /\ ending' = [ending EXCEPT ![r] = "skipped"]
  /\ permits' = permits + 1
  /\ UNCHANGED <<attempt, sawClientError, breaker, collected, crawl>>

ShortCircuit(r) ==
  /\ task[r] = "queued" /\ permits > 0 /\ tripped
  /\ task' = [task EXCEPT ![r] = "done"]
  /\ ending' = [ending EXCEPT ![r] = "skipped"]
  /\ UNCHANGED <<attempt, sawClientError, breaker, permits, collected, crawl>>

\* 200 with slots, or without any.
ReceiveSlots(r) ==
  /\ task[r] = "sent"
  /\ Record(FALSE)
  /\ \E how \in {"slots", "blanks"} : Return(r, how)

\* 200, but parser.parse or _on_empty_response raises after the record.
HandlingRaises(r) ==
  /\ task[r] = "sent" /\ ParserMayRaise
  /\ RecordTwice
  /\ Return(r, "raised")

LoseConnection(r) ==
  /\ task[r] = "sent"
  /\ Record(TRUE)
  /\ Return(r, "lost")

\* An error status: the next variant is tried, by the same task and within the
\* same permit.
TryNextVariant(r, clientError) ==
  /\ task[r] = "sent" /\ attempt[r] < Variants
  /\ attempt' = [attempt EXCEPT ![r] = @ + 1]
  /\ sawClientError' = [sawClientError EXCEPT ![r] = @ \/ clientError]
  /\ UNCHANGED <<task, ending, breaker, permits, collected, crawl>>

RunOutOfVariants(r, clientError) ==
  /\ task[r] = "sent" /\ attempt[r] = Variants
  /\ sawClientError' = [sawClientError EXCEPT ![r] = @ \/ clientError]
  /\ Record(~sawClientError'[r])
  /\ task' = [task EXCEPT ![r] = "done"]
  /\ ending' = [ending EXCEPT ![r] = "http"]
  /\ permits' = permits + 1
  /\ UNCHANGED <<attempt, collected, crawl>>

\* asyncio.wait returns with the tasks that are done.  Their results are kept;
\* with the breaker tripped the tasks still pending are cancelled: a queued one
\* is closed unstarted, a sent one stops at its await and frees its permit.
Pending == Requests \ (InState("done") \cup InState("cancelled"))

\* Mutants of the wait loop: the permits of cancelled tasks are lost; a tripped
\* breaker ends the loop before the done tasks are collected; the first failure
\* cancels the rest.
CollectLeaking ==
  /\ crawl = "running" /\ InState("done") \ collected # {}
  /\ collected' = InState("done")
  /\ task' = IF tripped THEN [r \in Requests |-> IF r \in Pending THEN "cancelled" ELSE task[r]]
                         ELSE task
  /\ crawl' = IF tripped \/ Pending = {} THEN "finished" ELSE "running"
  /\ UNCHANGED <<attempt, sawClientError, ending, breaker, permits>>

CollectTooLate ==
  /\ crawl = "running" /\ InState("done") \ collected # {}
  /\ IF tripped
     THEN /\ task' = [r \in Requests |-> IF r \in Pending THEN "cancelled" ELSE task[r]]
          /\ permits' = permits + Cardinality(InState("sent"))
          /\ UNCHANGED collected
     ELSE collected' = InState("done") /\ UNCHANGED <<task, permits>>
  /\ crawl' = IF tripped \/ Pending = {} THEN "finished" ELSE "running"
  /\ UNCHANGED <<attempt, sawClientError, ending, breaker>>

CollectUntilFailure ==
  /\ crawl = "running" /\ InState("done") \ collected # {}
  /\ collected' = InState("done")
  /\ IF failures > 0
     THEN /\ task' = [r \in Requests |-> IF r \in Pending THEN "cancelled" ELSE task[r]]
          /\ permits' = permits + Cardinality(InState("sent"))
     ELSE UNCHANGED <<task, permits>>
  /\ crawl' = IF failures > 0 \/ Pending = {} THEN "finished" ELSE "running"
  /\ UNCHANGED <<attempt, sawClientError, ending, breaker>>

Collect ==
  /\ crawl = "running" /\ InState("done") \ collected # {}
  /\ collected' = InState("done")
  /\ IF tripped
     THEN /\ task' = [r \in Requests |-> IF r \in Pending THEN "cancelled" ELSE task[r]]
          /\ permits' = permits + Cardinality(InState("sent"))
     ELSE UNCHANGED <<task, permits>>
  /\ crawl' = IF tripped \/ Pending = {} THEN "finished" ELSE "running"
  /\ UNCHANGED <<attempt, sawClientError, ending, breaker>>

Respond(r) ==
  \/ ReceiveSlots(r)
  \/ HandlingRaises(r)
  \/ LoseConnection(r)
  \/ \E clientError \in BOOLEAN : TryNextVariant(r, clientError)
  \/ \E clientError \in BOOLEAN : RunOutOfVariants(r, clientError)

Next ==
  \/ \E r \in Requests : Send(r) \/ ShortCircuit(r) \/ Respond(r)
  \/ Collect

Spec == Init /\ [][Next]_vars

\* The event loop runs what is ready, a request is answered or times out
\* (HTTPX_CLIENT_TIMEOUT), and a free permit goes to a waiting task.
Fairness ==
  /\ WF_vars(Collect)
  /\ \A r \in Requests : WF_vars(Send(r) \/ ShortCircuit(r)) /\ WF_vars(Respond(r))

FairSpec == Spec /\ Fairness

-----------------------------------------------------------------------------
\* The requests that reached the provider and came to an end.
Finished == Ended({"slots", "blanks", "raised", "http", "lost"})

\* Those _fetch_and_transform blames on the provider.
Blamed == Ended({"raised", "lost"}) \cup {r \in Ended({"http"}) : ~sawClientError[r]}

\* The breaker's books: every finished request is recorded once, except that
\* one whose handling raised is recorded as a success and as a failure.
BreakerLedger ==
  /\ completed = Cardinality(Finished) + Cardinality(Ended({"raised"}))
  /\ failures = Cardinality(Blamed)

\* Nobody keeps a permit: those not free are held by the requests in flight,
\* whatever returns, fails or is cancelled.
PermitsConserved == permits + Cardinality(InState("sent")) = Capacity

\* A crawl that returns has handed over everything that was fetched, also what
\* arrived between the trip and the cancellation, and leaves no task behind.
NothingFetchedIsLost ==
  crawl = "finished" =>
    /\ Ended({"slots", "blanks"}) \subseteq collected
    /\ InState("queued") = {} /\ InState("sent") = {}

\* An untripped crawl has an answer, or a definite failure, for every request:
\* only the breaker cuts a crawl short.
OnlyTheBreakerSkips ==
  /\ Ended({"skipped"}) # {} \/ InState("cancelled") # {} => tripped
  /\ crawl = "finished" /\ ~tripped => Finished = Requests

\* The breaker trips on evidence: half a sample of blamed requests.
TripNeedsEvidence == tripped => 2 * Cardinality(Blamed) >= MinSample

\* docs/crawlers.md: a request still queued when the breaker trips never
\* reaches the network.
NoRequestAfterTrip ==
  [][tripped => InState("sent")' \subseteq InState("sent")]_vars

\* However the provider behaves, the crawl returns.
CrawlReturns == <>(crawl = "finished")
=============================================================================
