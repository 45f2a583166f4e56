-------------------------- MODULE CrawlFetchProofs --------------------------
(***************************************************************************)
(* Proofs about CrawlFetch, for any requests, url variants, capacity and   *)
(* sample: the safety invariants its runs check, from one inductive        *)
(* invariant, and that nothing is sent once the breaker has tripped.       *)
(***************************************************************************)
EXTENDS CrawlFetch, FiniteSetTheorems, TLAPS

\* Where a task is says whether its request has ended, and a crawl that has
\* returned left no task waiting and collected those that were done.
TasksAndEndings ==
  /\ \A r \in Requests : task[r] = "done" <=> ending[r] # "none"
  /\ crawl = "finished" => Pending = {} /\ collected = InState("done")

\* What the breaker knew when it tripped; failures are never taken back.
TripCount == tripped => 2 * failures >= MinSample

SkippedAfterTrip ==
  Ended({"skipped"}) # {} \/ InState("cancelled") # {} => tripped

Inv ==
  /\ TypeOK
  /\ TasksAndEndings
  /\ TripCount
  /\ SkippedAfterTrip
  /\ PermitsConserved
  /\ BreakerLedger

-----------------------------------------------------------------------------
LEMMA AddOne ==
  ASSUME NEW S \in SUBSET Requests, NEW x \in Requests \ S
  PROVE  Cardinality(S) \in Nat /\ Cardinality(S \cup {x}) = Cardinality(S) + 1
BY RequestsAssumption, FS_Subset, FS_AddElement, FS_CardinalityType

LEMMA RemoveOne ==
  ASSUME NEW S \in SUBSET Requests, NEW x \in S
  PROVE  /\ Cardinality(S) \in Nat
         /\ Cardinality(S \ {x}) \in Nat
         /\ Cardinality(S \ {x}) = Cardinality(S) - 1
<1>1. IsFiniteSet(S) /\ IsFiniteSet(S \ {x})
  BY RequestsAssumption, FS_Subset
<1> QED BY <1>1, FS_RemoveElement, FS_CardinalityType

\* A request in flight ends: its permit is the one that comes back.
LEMMA PermitReturned ==
  ASSUME Inv, NEW r \in Requests, task[r] = "sent",
         task' = [task EXCEPT ![r] = "done"], permits' = permits + 1
  PROVE  PermitsConserved' /\ permits' \in 0..Capacity
<1>1. InState("sent")' = InState("sent") \ {r} /\ r \in InState("sent")
  BY DEF Inv, TypeOK, InState
<1>2. /\ Cardinality(InState("sent")) \in Nat
      /\ Cardinality(InState("sent")') \in Nat
      /\ Cardinality(InState("sent")') = Cardinality(InState("sent")) - 1
  BY <1>1, RemoveOne DEF InState
<1> QED BY <1>2, NumbersAssumption DEF Inv, TypeOK, PermitsConserved

\* A request that has not ended is in no book; the new ending enters it in
\* those that list this kind of ending.
LEMMA Booked ==
  ASSUME Inv, NEW r \in Requests, ending[r] = "none", NEW how \in Endings \ {"none"},
         ending' = [ending EXCEPT ![r] = how],
         \A q \in Requests \ {r} : sawClientError'[q] = sawClientError[q]
  PROVE  /\ how = "skipped" => Cardinality(Finished') = Cardinality(Finished)
         /\ how # "skipped" => Cardinality(Finished') = Cardinality(Finished) + 1
         /\ how # "raised" => Cardinality(Ended({"raised"})') = Cardinality(Ended({"raised"}))
         /\ how = "raised" => Cardinality(Ended({"raised"})') = Cardinality(Ended({"raised"})) + 1
         /\ IF how \in {"raised", "lost"} \/ (how = "http" /\ ~sawClientError'[r])
            THEN Cardinality(Blamed') = Cardinality(Blamed) + 1
            ELSE Cardinality(Blamed') = Cardinality(Blamed)
         /\ Cardinality(Finished) \in Nat
         /\ Cardinality(Ended({"raised"})) \in Nat
         /\ Cardinality(Blamed) \in Nat
<1>1. /\ Finished \in SUBSET Requests /\ r \notin Finished
      /\ Ended({"raised"}) \in SUBSET Requests /\ r \notin Ended({"raised"})
      /\ Blamed \in SUBSET Requests /\ r \notin Blamed
  BY DEF Finished, Blamed, Ended
<1>2. Finished' = IF how = "skipped" THEN Finished ELSE Finished \cup {r}
  BY DEF Inv, TypeOK, Finished, Ended, Endings
<1>3. Ended({"raised"})' = IF how = "raised" THEN Ended({"raised"}) \cup {r} ELSE Ended({"raised"})
  BY DEF Inv, TypeOK, Ended
<1>4. Blamed' = IF how \in {"raised", "lost"} \/ (how = "http" /\ ~sawClientError'[r])
                THEN Blamed \cup {r} ELSE Blamed
  <2>1. \A q \in Requests \ {r} : q \in Blamed' <=> q \in Blamed
    BY DEF Inv, TypeOK, Blamed, Ended
  <2>2. r \in Blamed' <=> how \in {"raised", "lost"} \/ (how = "http" /\ ~sawClientError'[r])
    BY DEF Inv, TypeOK, Blamed, Ended
  <2>3. Blamed' \in SUBSET Requests
    BY DEF Blamed, Ended
  <2> QED BY <1>1, <2>1, <2>2, <2>3
<1>5. /\ Cardinality(Finished) \in Nat /\ Cardinality(Ended({"raised"})) \in Nat
      /\ Cardinality(Blamed) \in Nat
      /\ Cardinality(Finished \cup {r}) = Cardinality(Finished) + 1
      /\ Cardinality(Ended({"raised"}) \cup {r}) = Cardinality(Ended({"raised"})) + 1
      /\ Cardinality(Blamed \cup {r}) = Cardinality(Blamed) + 1
  BY <1>1, AddOne
<1> QED BY <1>2, <1>3, <1>4, <1>5

\* A step that leaves the endings alone, and the client errors of the requests
\* that have ended, leaves the books alone.
LEMMA BooksKept ==
  ASSUME Inv, UNCHANGED <<ending, breaker>>,
         \A q \in Requests : ending[q] = "http" => sawClientError'[q] = sawClientError[q]
  PROVE  BreakerLedger'
<1>1. Finished' = Finished /\ Ended({"raised"})' = Ended({"raised"}) /\ Blamed' = Blamed
  BY DEF Finished, Blamed, Ended
<1> QED BY <1>1 DEF Inv, BreakerLedger, breaker

\* Either way of recording an outcome keeps the count a trip rests on.
LEMMA TripCountKept ==
  ASSUME Inv, RecordTwice \/ \E failed \in BOOLEAN : Record(failed)
  PROVE  /\ TripCount' /\ (tripped => tripped')
         /\ completed' \in Nat /\ failures' \in Nat /\ tripped' \in BOOLEAN
<1>0. \A a, b, c \in Nat : 2 * a >= c /\ b >= a => 2 * b >= c
  OBVIOUS
<1>1. /\ completed \in Nat /\ failures \in Nat /\ tripped \in BOOLEAN
      /\ MinSample \in Nat
      /\ tripped => 2 * failures >= MinSample
  BY NumbersAssumption DEF Inv, TypeOK, TripCount
<1>2. \A n, m \in Nat : Trips(n, m) => 2 * m >= MinSample
  BY <1>1 DEF Trips
<1>3. CASE RecordTwice
  <2>1. completed' \in Nat /\ failures' \in Nat /\ failures' >= failures
    BY <1>1, <1>3 DEF RecordTwice
  <2>2. tripped' \in BOOLEAN /\ (tripped => tripped')
    BY <1>1, <1>3 DEF RecordTwice, Trips
  <2>3. tripped' => tripped \/ Trips(completed + 1, failures) \/ Trips(completed', failures')
    BY <1>3 DEF RecordTwice
  <2>4. completed + 1 \in Nat
    BY <1>1
  <2> HIDE DEF RecordTwice
  <2>5. 2 * failures >= MinSample => 2 * failures' >= MinSample
    BY <1>0, <1>1, <2>1
  <2>6. tripped' => 2 * failures' >= MinSample
    BY <1>1, <1>2, <2>1, <2>3, <2>4, <2>5
  <2> QED BY <2>1, <2>2, <2>6 DEF TripCount
<1>4. ASSUME NEW failed \in BOOLEAN, Record(failed)
      PROVE  /\ TripCount' /\ (tripped => tripped')
             /\ completed' \in Nat /\ failures' \in Nat /\ tripped' \in BOOLEAN
  <2>1. completed' \in Nat /\ failures' \in Nat /\ failures' >= failures
    BY <1>1, <1>4 DEF Record
  <2>2. tripped' \in BOOLEAN /\ (tripped => tripped')
    BY <1>1, <1>4 DEF Record, Trips
  <2>3. tripped' => tripped \/ Trips(completed', failures')
    BY <1>4 DEF Record
  <2>4. 2 * failures >= MinSample => 2 * failures' >= MinSample
    BY <1>0, <1>1, <2>1
  <2>5. tripped' => 2 * failures' >= MinSample
    BY <1>1, <1>2, <2>1, <2>3, <2>4
  <2> QED BY <2>1, <2>2, <2>5 DEF TripCount
<1> QED BY <1>3, <1>4

-----------------------------------------------------------------------------
\* The actions, one lemma each: every one keeps the inductive invariant.

LEMMA SendKeeps ==
  ASSUME Inv, NEW r \in Requests, Send(r)
  PROVE  Inv'
<1> USE DEF Inv
<1>1. InState("sent")' = InState("sent") \cup {r} /\ r \notin InState("sent")
  BY DEF Send, TypeOK, InState
<1>2. /\ Cardinality(InState("sent")) \in Nat
      /\ Cardinality(InState("sent")') = Cardinality(InState("sent")) + 1
  BY <1>1, AddOne DEF InState
<1>3. PermitsConserved' /\ TypeOK'
  BY <1>2, NumbersAssumption DEF Send, TypeOK, PermitsConserved, breaker
<1>4. TasksAndEndings'
  BY DEF Send, TypeOK, TasksAndEndings, Pending, InState
<1>5. TripCount' /\ SkippedAfterTrip'
  BY DEF Send, TypeOK, TripCount, SkippedAfterTrip, InState, Ended, breaker
<1>6. BreakerLedger'
  BY BooksKept DEF Send
<1> QED BY <1>3, <1>4, <1>5, <1>6

LEMMA ShortCircuitKeeps ==
  ASSUME Inv, NEW r \in Requests, ShortCircuit(r)
  PROVE  Inv'
<1> USE DEF Inv
<1>1. ending[r] = "none"
  BY DEF ShortCircuit, TasksAndEndings
<1>2. InState("sent")' = InState("sent")
  BY DEF ShortCircuit, TypeOK, InState
<1>3. PermitsConserved' /\ TypeOK'
  BY <1>2 DEF ShortCircuit, TypeOK, PermitsConserved, breaker, Endings
<1>4. TasksAndEndings'
  BY DEF ShortCircuit, TypeOK, TasksAndEndings, Pending, InState
<1>5. TripCount' /\ SkippedAfterTrip'
  BY DEF ShortCircuit, TypeOK, TripCount, SkippedAfterTrip, breaker
<1>6. BreakerLedger'
  <2>1. ending' = [ending EXCEPT ![r] = "skipped"] /\ UNCHANGED <<sawClientError, breaker>>
    BY DEF ShortCircuit
  <2>2. "skipped" \in Endings \ {"none"}
    BY DEF Endings
  <2>3. /\ Cardinality(Finished') = Cardinality(Finished)
        /\ Cardinality(Ended({"raised"})') = Cardinality(Ended({"raised"}))
        /\ Cardinality(Blamed') = Cardinality(Blamed)
    BY <1>1, <2>1, <2>2, Booked
  <2> QED BY <2>1, <2>3 DEF BreakerLedger, breaker
<1> QED BY <1>3, <1>4, <1>5, <1>6

\* What ReceiveSlots, HandlingRaises, LoseConnection and RunOutOfVariants have
\* in common: a request in flight ends and gives its permit back.
LEMMA ReturnKeeps ==
  ASSUME Inv, NEW r \in Requests, task[r] = "sent",
         NEW how \in Endings \ {"none", "skipped"},
         task' = [task EXCEPT ![r] = "done"],
         ending' = [ending EXCEPT ![r] = how],
         permits' = permits + 1,
         UNCHANGED <<attempt, collected, crawl>>,
         sawClientError' \in [Requests -> BOOLEAN],
         RecordTwice \/ \E failed \in BOOLEAN : Record(failed)
  PROVE  TypeOK' /\ TasksAndEndings' /\ TripCount' /\ SkippedAfterTrip' /\ PermitsConserved'
<1> USE DEF Inv
<1>1. PermitsConserved' /\ permits' \in 0..Capacity
  BY PermitReturned
<1>2. /\ TripCount' /\ (tripped => tripped')
      /\ completed' \in Nat /\ failures' \in Nat /\ tripped' \in BOOLEAN
  BY TripCountKept
<1>3. TypeOK'
  BY <1>1, <1>2 DEF TypeOK
<1>4. TasksAndEndings'
  BY DEF TypeOK, TasksAndEndings, Pending, InState
<1>5. SkippedAfterTrip'
  <2>1. Ended({"skipped"})' \subseteq Ended({"skipped"})
    BY DEF TypeOK, Ended
  <2>2. InState("cancelled")' \subseteq InState("cancelled")
    BY DEF TypeOK, InState
  <2> QED BY <1>2, <2>1, <2>2 DEF SkippedAfterTrip
<1> QED BY <1>1, <1>2, <1>3, <1>4, <1>5

LEMMA RespondKeeps ==
  ASSUME Inv, NEW r \in Requests, Respond(r)
  PROVE  Inv'
<1> USE DEF Inv
<1>0. task[r] = "sent" /\ ending[r] = "none"
  BY DEF Respond, ReceiveSlots, HandlingRaises, LoseConnection, TryNextVariant,
         RunOutOfVariants, TasksAndEndings
<1>6. {"raised", "lost", "http"} \subseteq Endings \ {"none"}
  BY DEF Endings
<1>1. CASE ReceiveSlots(r)
  <2>1. PICK how \in {"slots", "blanks"} : Return(r, how)
    BY <1>1 DEF ReceiveSlots
  <2>2. how \in Endings \ {"none", "skipped"} /\ Record(FALSE)
    BY <1>1 DEF ReceiveSlots, Endings
  <2>3. TypeOK' /\ TasksAndEndings' /\ TripCount' /\ SkippedAfterTrip' /\ PermitsConserved'
    BY <1>0, <2>1, <2>2, ReturnKeeps DEF Return, TypeOK
  <2>4. /\ Cardinality(Finished') = Cardinality(Finished) + 1
        /\ Cardinality(Ended({"raised"})') = Cardinality(Ended({"raised"}))
        /\ Cardinality(Blamed') = Cardinality(Blamed)
        /\ Cardinality(Finished) \in Nat /\ Cardinality(Ended({"raised"})) \in Nat
    BY <1>0, <2>1, <2>2, Booked DEF Return
  <2>5. completed' = completed + 1 /\ failures' = failures
    BY <2>2 DEF Record, TypeOK
  <2> QED BY <2>3, <2>4, <2>5 DEF BreakerLedger
<1>2. CASE HandlingRaises(r)
  <2>1. RecordTwice /\ Return(r, "raised")
    BY <1>2 DEF HandlingRaises
  <2>2. TypeOK' /\ TasksAndEndings' /\ TripCount' /\ SkippedAfterTrip' /\ PermitsConserved'
    BY <1>0, <2>1, ReturnKeeps DEF Return, TypeOK, Endings
  <2>3. /\ Cardinality(Finished') = Cardinality(Finished) + 1
        /\ Cardinality(Ended({"raised"})') = Cardinality(Ended({"raised"})) + 1
        /\ Cardinality(Blamed') = Cardinality(Blamed) + 1
        /\ Cardinality(Finished) \in Nat /\ Cardinality(Ended({"raised"})) \in Nat
    BY <1>0, <1>6, <2>1, Booked DEF Return
  <2>4. completed' = completed + 2 /\ failures' = failures + 1
    BY <2>1 DEF RecordTwice
  <2> QED BY <2>2, <2>3, <2>4 DEF BreakerLedger
<1>3. CASE LoseConnection(r)
  <2>1. Record(TRUE) /\ Return(r, "lost")
    BY <1>3 DEF LoseConnection
  <2>2. TypeOK' /\ TasksAndEndings' /\ TripCount' /\ SkippedAfterTrip' /\ PermitsConserved'
    BY <1>0, <2>1, ReturnKeeps DEF Return, TypeOK, Endings
  <2>3. /\ Cardinality(Finished') = Cardinality(Finished) + 1
        /\ Cardinality(Ended({"raised"})') = Cardinality(Ended({"raised"}))
        /\ Cardinality(Blamed') = Cardinality(Blamed) + 1
        /\ Cardinality(Finished) \in Nat /\ Cardinality(Ended({"raised"})) \in Nat
    BY <1>0, <1>6, <2>1, Booked DEF Return
  <2>4. completed' = completed + 1 /\ failures' = failures + 1
    BY <2>1 DEF Record
  <2> QED BY <2>2, <2>3, <2>4 DEF BreakerLedger
<1>4. ASSUME NEW clientError \in BOOLEAN, TryNextVariant(r, clientError)
      PROVE  Inv'
  <2>1. InState("sent")' = InState("sent") /\ PermitsConserved'
    BY <1>4 DEF TryNextVariant, InState, PermitsConserved
  <2>2. TypeOK'
    BY <1>4, NumbersAssumption DEF TryNextVariant, TypeOK, breaker
  <2>3. TasksAndEndings' /\ TripCount' /\ SkippedAfterTrip'
    BY <1>4 DEF TryNextVariant, TasksAndEndings, TripCount, SkippedAfterTrip,
                Pending, InState, Ended, breaker
  <2>4. \A q \in Requests : ending[q] = "http" => sawClientError'[q] = sawClientError[q]
    BY <1>0, <1>4 DEF TryNextVariant, TypeOK
  <2>5. BreakerLedger'
    BY <1>4, <2>4, BooksKept DEF TryNextVariant
  <2> QED BY <2>1, <2>2, <2>3, <2>5
<1>5. ASSUME NEW clientError \in BOOLEAN, RunOutOfVariants(r, clientError)
      PROVE  Inv'
  <2>1. /\ sawClientError' \in [Requests -> BOOLEAN]
        /\ \A q \in Requests \ {r} : sawClientError'[q] = sawClientError[q]
        /\ sawClientError'[r] \in BOOLEAN
    BY <1>5 DEF RunOutOfVariants, TypeOK
  <2>2. Record(~sawClientError'[r])
    BY <1>5 DEF RunOutOfVariants
  <2>3. TypeOK' /\ TasksAndEndings' /\ TripCount' /\ SkippedAfterTrip' /\ PermitsConserved'
    BY <1>0, <1>5, <2>1, <2>2, ReturnKeeps DEF RunOutOfVariants, Endings
  <2>4. /\ Cardinality(Finished') = Cardinality(Finished) + 1
        /\ Cardinality(Ended({"raised"})') = Cardinality(Ended({"raised"}))
        /\ IF ~sawClientError'[r] THEN Cardinality(Blamed') = Cardinality(Blamed) + 1
                                  ELSE Cardinality(Blamed') = Cardinality(Blamed)
        /\ Cardinality(Finished) \in Nat /\ Cardinality(Ended({"raised"})) \in Nat
    BY <1>0, <1>5, <1>6, <2>1, Booked DEF RunOutOfVariants
  <2>5. completed' = completed + 1
    BY <2>2 DEF Record
  <2>6. IF ~sawClientError'[r] THEN failures' = failures + 1 ELSE failures' = failures
    BY <2>2 DEF Record, TypeOK
  <2>7. completed' = Cardinality(Finished') + Cardinality(Ended({"raised"})')
    BY <2>4, <2>5 DEF BreakerLedger
  <2>8. failures' = Cardinality(Blamed')
    BY <2>4, <2>6 DEF BreakerLedger
  <2> QED BY <2>3, <2>7, <2>8 DEF BreakerLedger
<1> QED BY <1>1, <1>2, <1>3, <1>4, <1>5 DEF Respond

LEMMA CollectKeeps ==
  ASSUME Inv, Collect
  PROVE  Inv'
<1> USE DEF Inv
<1>1. BreakerLedger'
  BY BooksKept DEF Collect
<1>2. TripCount'
  BY DEF Collect, TripCount, breaker
<1>3. CASE tripped
  <2>1. /\ task' = [q \in Requests |-> IF q \in Pending THEN "cancelled" ELSE task[q]]
        /\ permits' = permits + Cardinality(InState("sent"))
        /\ crawl' = "finished"
    BY <1>3 DEF Collect
  <2>2. InState("sent")' = {}
    BY <2>1 DEF InState, Pending
  <2>3. permits' = Capacity
    BY <2>1 DEF PermitsConserved
  <2>4. Cardinality(InState("sent")') = 0
    BY <2>2, FS_EmptySet
  <2>5. PermitsConserved'
    BY <2>3, <2>4, NumbersAssumption DEF PermitsConserved
  <2>6. TypeOK'
    BY <2>1, <2>3, NumbersAssumption DEF Collect, TypeOK, InState, breaker
  <2>7. TasksAndEndings'
    BY <2>1 DEF Collect, TypeOK, TasksAndEndings, Pending, InState
  <2>8. SkippedAfterTrip'
    BY <1>3 DEF Collect, SkippedAfterTrip, breaker
  <2> QED BY <1>1, <1>2, <2>5, <2>6, <2>7, <2>8
<1>4. CASE ~tripped
  <2>1. /\ UNCHANGED <<task, permits, ending, breaker>>
        /\ crawl' = IF Pending = {} THEN "finished" ELSE "running"
    BY <1>4 DEF Collect
  <2>2. TypeOK' /\ PermitsConserved'
    BY <2>1 DEF Collect, TypeOK, PermitsConserved, InState, breaker
  <2>3. TasksAndEndings' /\ SkippedAfterTrip'
    BY <2>1 DEF Collect, TypeOK, TasksAndEndings, SkippedAfterTrip, Pending, InState, Ended, breaker
  <2> QED BY <1>1, <1>2, <2>2, <2>3
<1> QED BY <1>3, <1>4

-----------------------------------------------------------------------------
THEOREM Invariance == Spec => []Inv
<1>1. Init => Inv
  <2> SUFFICES ASSUME Init PROVE Inv
    OBVIOUS
  <2>0. 1 \in 1..Variants /\ Capacity \in 0..Capacity /\ 0 \in Nat
    BY NumbersAssumption
  <2>1. TypeOK
    <3>1. task \in [Requests -> {"queued", "sent", "done", "cancelled"}]
      BY DEF Init
    <3>2. attempt \in [Requests -> 1..Variants] /\ permits \in 0..Capacity
      BY <2>0 DEF Init
    <3>3. sawClientError \in [Requests -> BOOLEAN] /\ ending \in [Requests -> Endings]
      BY DEF Init, Endings
    <3>4. completed \in Nat /\ failures \in Nat /\ tripped \in BOOLEAN
      BY <2>0 DEF Init
    <3>5. collected \subseteq Requests /\ crawl \in {"running", "finished"}
      BY DEF Init
    <3> QED BY <3>1, <3>2, <3>3, <3>4, <3>5 DEF TypeOK
  <2>2. TasksAndEndings /\ TripCount /\ SkippedAfterTrip
    BY DEF Init, TasksAndEndings, TripCount, SkippedAfterTrip, Pending, InState, Ended
  <2>3. InState("sent") = {} /\ Finished = {} /\ Ended({"raised"}) = {} /\ Blamed = {}
    BY DEF Init, InState, Ended, Finished, Blamed
  <2>4. Cardinality({}) = 0 /\ Capacity + 0 = Capacity /\ 0 + 0 = 0
    BY FS_EmptySet, NumbersAssumption
  <2>5. permits = Capacity /\ completed = 0 /\ failures = 0
    BY DEF Init
  <2>6. PermitsConserved /\ BreakerLedger
    BY <2>3, <2>4, <2>5 DEF PermitsConserved, BreakerLedger
  <2> QED BY <2>1, <2>2, <2>6 DEF Inv
<1>2. Inv /\ [Next]_vars => Inv'
  <2> SUFFICES ASSUME Inv, [Next]_vars PROVE Inv'
    OBVIOUS
  <2>1. ASSUME NEW r \in Requests, Send(r) \/ ShortCircuit(r) \/ Respond(r)
        PROVE  Inv'
    BY <2>1, SendKeeps, ShortCircuitKeeps, RespondKeeps
  <2>2. CASE Collect
    BY <2>2, CollectKeeps
  <2>3. CASE UNCHANGED vars
    <3>1. TypeOK' /\ TripCount' /\ TasksAndEndings'
      BY <2>3 DEF Inv, vars, breaker, TypeOK, TripCount, TasksAndEndings, Pending, InState
    <3>2. SkippedAfterTrip' /\ PermitsConserved'
      BY <2>3 DEF Inv, vars, breaker, SkippedAfterTrip, PermitsConserved, InState, Ended
    <3>3. BreakerLedger'
      BY <2>3, BooksKept DEF vars, breaker
    <3> QED BY <3>1, <3>2, <3>3 DEF Inv
  <2> QED BY <2>1, <2>2, <2>3 DEF Next
<1> QED BY <1>1, <1>2, PTL DEF Spec

\* Type correctness; the permits free are never negative nor above capacity.
THEOREM Typing == Spec => []TypeOK
BY Invariance, PTL DEF Inv

\* Nobody keeps a permit of the semaphore, whatever returns or is cancelled.
THEOREM PermitsAreConserved == Spec => []PermitsConserved
BY Invariance, PTL DEF Inv

\* The breaker's two counters are what the endings of the requests make them.
THEOREM LedgerIsExact == Spec => []BreakerLedger
BY Invariance, PTL DEF Inv

\* A trip rests on blamed requests that make up half a sample.
THEOREM TripsOnEvidence == Spec => []TripNeedsEvidence
<1>1. Inv => TripNeedsEvidence
  BY DEF Inv, TripCount, BreakerLedger, TripNeedsEvidence
<1> QED BY <1>1, Invariance, PTL

\* A crawl that has returned hands over every response that was parsed.
THEOREM FetchedIsKept == Spec => []NothingFetchedIsLost
<1>1. Inv => NothingFetchedIsLost
  <2> SUFFICES ASSUME Inv, crawl = "finished"
               PROVE  /\ Ended({"slots", "blanks"}) \subseteq collected
                      /\ InState("queued") = {} /\ InState("sent") = {}
    BY DEF NothingFetchedIsLost
  <2>1. Pending = {} /\ collected = InState("done")
    BY DEF Inv, TasksAndEndings
  <2>2. InState("queued") = {} /\ InState("sent") = {}
    BY <2>1 DEF Pending, InState
  <2>3. \A r \in Requests : ending[r] \in {"slots", "blanks"} => task[r] = "done"
    BY DEF Inv, TasksAndEndings
  <2> QED BY <2>1, <2>2, <2>3 DEF Ended, InState
<1> QED BY <1>1, Invariance, PTL

\* Only the breaker makes a crawl stop short of an answer for every request.
THEOREM OnlyTripsSkip == Spec => []OnlyTheBreakerSkips
<1>1. Inv => OnlyTheBreakerSkips
  <2> SUFFICES ASSUME Inv, crawl = "finished", ~tripped
               PROVE  Finished = Requests
    BY DEF Inv, SkippedAfterTrip, OnlyTheBreakerSkips
  <2>1. Pending = {} /\ InState("cancelled") = {} /\ Ended({"skipped"}) = {}
    BY DEF Inv, TasksAndEndings, SkippedAfterTrip
  <2>2. \A r \in Requests : ending[r] \notin {"none", "skipped"}
    BY <2>1 DEF Inv, TasksAndEndings, Pending, InState, Ended
  <2>3. \A r \in Requests : ending[r] \in Endings
    BY DEF Inv, TypeOK
  <2> QED BY <2>2, <2>3 DEF Finished, Ended, Endings
<1> QED BY <1>1, Invariance, PTL

\* Once the breaker has tripped no further request goes out.
THEOREM NothingSentAfterTrip == Spec => NoRequestAfterTrip
<1>1. TypeOK /\ [Next]_vars => [tripped => InState("sent")' \subseteq InState("sent")]_vars
  <2> SUFFICES ASSUME TypeOK, Next, tripped
               PROVE  InState("sent")' \subseteq InState("sent")
    OBVIOUS
  <2>1. ASSUME NEW r \in Requests, Send(r)
        PROVE  FALSE
    BY <2>1 DEF Send
  <2>2. ASSUME NEW r \in Requests, ShortCircuit(r) \/ Respond(r)
        PROVE  InState("sent")' \subseteq InState("sent")
    <3>1. task' = task \/ task' = [task EXCEPT ![r] = "done"]
      BY <2>2 DEF ShortCircuit, Respond, ReceiveSlots, HandlingRaises, LoseConnection,
                  TryNextVariant, RunOutOfVariants, Return
    <3> QED BY <3>1 DEF TypeOK, InState
  <2>3. CASE Collect
    BY <2>3 DEF Collect, TypeOK, InState
  <2> QED BY <2>1, <2>2, <2>3 DEF Next
<1> QED BY <1>1, Typing, PTL DEF Spec, NoRequestAfterTrip
=============================================================================
