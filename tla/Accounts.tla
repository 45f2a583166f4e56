------------------------------- MODULE Accounts -------------------------------
(***************************************************************************)
(* The rows the API keeps for a signed-in user: identity and preferences,  *)
(* notifications and their acknowledgements, personal tokens.  A handler   *)
(* has no await between the SELECT and the COMMIT of a session, so what    *)
(* interleaves are the sessions of different worker processes; the engine  *)
(* is at READ COMMITTED and a session takes no lock when it reads.         *)
(***************************************************************************)
EXTENDS Naturals, FiniteSets, Sequences

CONSTANTS
  Workers,      \* API processes
  Users, Notes, Tokens,  \* primary keys
  Texts,        \* messages of a notification
  Paths,        \* the leaves of the preferences blob
  GroupOf,      \* the nested group each belongs to
  Values,       \* what a preference can be set to
  MaxRequests,  \* bound on the requests served
  Unset, Missing, Unread

ASSUME AccountsAssumption ==
  /\ IsFiniteSet(Workers) /\ MaxRequests \in Nat
  /\ Unset \notin Values

VARIABLES
  serving,  \* the processes that run
  rows,     \* the committed row of each primary key
  acks,     \* how many notification_ack rows there are of a user and notification
  job,      \* the sessions the request at hand has still to go through
  seen,     \* the row the session of a worker has loaded
  served

vars == <<serving, rows, acks, job, seen, served>>

Keys == ({"users", "user_preferences"} \X Users) \cup ({"notification"} \X Notes)
          \cup ({"api_tokens"} \X Tokens)

AckKeys == Users \X Notes

\* Preferences: a leaf of the blob is set or absent.
Row(table) ==
  CASE table = "users"            -> [email : Users]
    [] table = "user_preferences" ->
         [onboarding : BOOLEAN, preferences : [Paths -> Values \cup {Unset}]]
    [] table = "notification"     -> [message : Texts, active : BOOLEAN]
    [] table = "api_tokens"       -> [owner : Users, revoked : BOOLEAN, used : BOOLEAN]

ASSUME MissingAssumption ==
  /\ Missing # Unread
  /\ \A k \in Keys : Missing \notin Row(k[1])

-----------------------------------------------------------------------------
(* The requests, each a sequence of sessions: the row it is about, the      *)
(* columns it assigns, the preferences it merges and the user it is for.    *)
NoPatch == [p \in Paths |-> Unset]

Session(do, row, set, patch, user) ==
  [do |-> do, row |-> row, set |-> set, patch |-> patch, user |-> user]

\* upsert_user, upsert_preferences.
UpsertUser(u) == Session("upsert", <<"users", u>>, [email |-> u], NoPatch, u)
UpsertPreferences(u, set, patch) == Session("upsert", <<"user_preferences", u>>, set, patch, u)

Register(u) == <<UpsertUser(u), UpsertPreferences(u, [onboarding |-> FALSE], NoPatch)>>

\* onboarding=None leaves the column alone.
UpdateProfile(u) ==
  {<<UpsertUser(u), UpsertPreferences(u, set, patch)>> :
     set \in {<< >>} \cup {[onboarding |-> b] : b \in BOOLEAN},
     patch \in {NoPatch} \cup {[NoPatch EXCEPT ![p] = v] : p \in Paths, v \in Values}}

CreateNotification(n) ==
  {<<Session("create", <<"notification", n>>, [message |-> m, active |-> TRUE], NoPatch, n)>> : m \in Texts}

\* Fields of the body that are None are not assigned.
UpdateNotification(n) ==
  {<<Session("edit", <<"notification", n>>, set, NoPatch, n)>> :
     set \in {[message |-> m] : m \in Texts} \cup {[active |-> b] : b \in BOOLEAN}}

Acknowledge(u, n) == <<Session("acknowledge", <<"notification", n>>, << >>, NoPatch, u)>>

CreateToken(u, t) ==
  <<Session("create", <<"api_tokens", t>>,
            [owner |-> u, revoked |-> FALSE, used |-> FALSE], NoPatch, u)>>

RevokeToken(u, t)   == <<Session("revoke", <<"api_tokens", t>>, [revoked |-> TRUE], NoPatch, u)>>
Authenticate(t) == <<Session("authenticate", <<"api_tokens", t>>, [used |-> TRUE], NoPatch, Missing)>>

Requests ==
  (UNION {{Register(u)} \cup UpdateProfile(u) : u \in Users})
    \cup (UNION {CreateNotification(n) \cup UpdateNotification(n) : n \in Notes})
    \cup {Acknowledge(u, n) : u \in Users, n \in Notes}
    \cup (UNION {{CreateToken(u, t), RevokeToken(u, t), Authenticate(t)} : u \in Users, t \in Tokens})

-----------------------------------------------------------------------------
(* What a session does with the row it loaded.                             *)

\* Mutant: a nested group is replaced as a whole.
ShallowMerge(existing, updates) ==
  [p \in Paths |->
     IF \E q \in Paths : GroupOf[q] = GroupOf[p] /\ updates[q] # Unset
     THEN updates[p] ELSE existing[p]]

\* _deep_merge_preferences.
DeepMergePreferences(existing, updates) ==
  [p \in Paths |-> IF updates[p] # Unset THEN updates[p] ELSE existing[p]]

Assigned(s, row) ==
  [c \in DOMAIN row |->
     IF c \in DOMAIN s.set THEN s.set[c]
     ELSE IF c = "preferences" THEN DeepMergePreferences(row[c], s.patch)
     ELSE row[c]]

\* Mutant: the UPDATE writes the row as it was loaded.
WholeRow(s, row) == DOMAIN row

\* The unit of work writes the attributes whose value has changed.
Dirty(s, row) == {c \in DOMAIN row : Assigned(s, row)[c] # row[c]}

Added(s) ==
  IF s.row[1] = "user_preferences"
  THEN [onboarding |-> IF "onboarding" \in DOMAIN s.set THEN s.set.onboarding ELSE FALSE,
        preferences |-> s.patch]
  ELSE s.set

\* Mutant: earlier acknowledgements are not looked up.
NeverAcknowledged(s) == FALSE

IsAcknowledged(s) == acks[<<s.user, s.row[2]>>] > 0

\* 404, 401 or a silent end: the session ends without a write.
Refuses(s, row) ==
  CASE s.do = "upsert" -> FALSE
    [] s.do = "create" -> FALSE
    [] s.do = "edit"   -> row = Missing
    [] s.do = "acknowledge"  -> row # Missing => IsAcknowledged(s)
    [] s.do = "revoke"       -> row # Missing => row.owner # s.user
    [] s.do = "authenticate" -> row # Missing => row.revoked

-----------------------------------------------------------------------------
Init ==
  /\ serving \in (SUBSET Workers) \ {{}}
  /\ rows = [k \in Keys |-> Missing]
  /\ acks = [k \in AckKeys |-> 0]
  /\ job = [w \in Workers |-> << >>]
  /\ seen = [w \in Workers |-> Unread]
  /\ served = 0

Now(w) == Head(job[w])

\* An id that is created is new: no other request has it.
Begin(w, request) ==
  /\ job[w] = << >> /\ served < MaxRequests
  /\ Head(request).do = "create" =>
       /\ rows[Head(request).row] = Missing
       /\ \A v \in Workers : job[v] # << >> => Now(v).row # Head(request).row \/ Now(v).do # "create"
  /\ job' = [job EXCEPT ![w] = request]
  /\ served' = served + 1
  /\ UNCHANGED <<serving, rows, acks, seen>>

Load(w) ==
  /\ job[w] # << >> /\ seen[w] = Unread /\ ~Refuses(Now(w), rows[Now(w).row])
  /\ seen' = [seen EXCEPT ![w] = rows[Now(w).row]]
  /\ UNCHANGED <<serving, rows, acks, job, served>>

\* The handler gives up, or the process is killed and what the session has not
\* committed is gone.
End(w) == job' = [job EXCEPT ![w] = << >>] /\ seen' = [seen EXCEPT ![w] = Unread]

\* A token may also have expired: when is left open.
Refuse(w) ==
  /\ job[w] # << >> /\ seen[w] = Unread
  /\ Refuses(Now(w), rows[Now(w).row]) \/ Now(w).do = "authenticate"
  /\ End(w)
  /\ UNCHANGED <<serving, rows, acks, served>>

Proceed(w) == job' = [job EXCEPT ![w] = Tail(@)] /\ seen' = [seen EXCEPT ![w] = Unread]

\* The owner of a token is a foreign key; a primary key is there once.
CanInsert(s) ==
  /\ rows[s.row] = Missing
  /\ s.row[1] = "api_tokens" => rows[<<"users", s.user>>] # Missing

Insert(w) ==
  /\ job[w] # << >> /\ seen[w] = Missing /\ CanInsert(Now(w))
  /\ rows' = [rows EXCEPT ![Now(w).row] = Added(Now(w))]
  /\ Proceed(w)
  /\ UNCHANGED <<serving, acks, served>>

IntegrityError(w) ==
  /\ job[w] # << >> /\ seen[w] = Missing /\ ~CanInsert(Now(w))
  /\ End(w)
  /\ UNCHANGED <<serving, rows, acks, served>>

Update(w) ==
  LET s == Now(w) IN
  /\ job[w] # << >> /\ seen[w] \notin {Unread, Missing} /\ s.do # "acknowledge"
  /\ rows' = [rows EXCEPT ![s.row] =
                [c \in DOMAIN @ |-> IF c \in Dirty(s, seen[w]) THEN Assigned(s, seen[w])[c] ELSE @[c]]]
  /\ Proceed(w)
  /\ UNCHANGED <<serving, acks, served>>

AddAck(w) ==
  /\ job[w] # << >> /\ seen[w] \notin {Unread, Missing} /\ Now(w).do = "acknowledge"
  /\ acks' = [acks EXCEPT ![<<Now(w).user, Now(w).row[2]>>] = @ + 1]
  /\ Proceed(w)
  /\ UNCHANGED <<serving, rows, served>>

Killed(w) ==
  /\ job[w] # << >>
  /\ End(w)
  /\ UNCHANGED <<serving, rows, acks, served>>

Next ==
  \E w \in serving :
    \/ \E request \in Requests : Begin(w, request)
    \/ Load(w) \/ Refuse(w) \/ Insert(w) \/ IntegrityError(w) \/ Update(w) \/ AddAck(w)
    \/ Killed(w)

Spec == Init /\ [][Next]_vars

-----------------------------------------------------------------------------
\* The session that ends in this step asks for column c of row k.
AsksFor(w, k, c) ==
  job[w] # << >> /\ Now(w).row = k /\ (c \in DOMAIN Now(w).set \/ c = "preferences")

\* OnlyWhatWasAsked: a row is changed only in the columns that the request which
\* commits assigns, whatever others have committed since it loaded the row: a
\* token in use is not un-revoked by its own bookkeeping, an edited message
\* does not bring a hidden notification back.  With one process, a preference
\* is changed only by a request that names it.
OnlyWhatWasAsked ==
  [][\A k \in Keys : rows[k] # Missing =>
       /\ rows'[k] # Missing
       /\ \A c \in DOMAIN rows[k] : rows'[k][c] # rows[k][c] =>
            \E w \in serving :
              /\ AsksFor(w, k, c)
              /\ (c = "preferences" /\ Cardinality(serving) = 1) =>
                   \A p \in Paths : rows'[k][c][p] # rows[k][c][p] => Now(w).patch[p] # Unset]_vars

\* AcksBounded: nothing in the schema stops a second acknowledgement, but only
\* requests that were under way when the first was stored can add one: a user
\* has no more rows of a notification than there are processes, and one if
\* there is one.
AcksBounded == \A k \in AckKeys : acks[k] <= Cardinality(serving)
=============================================================================
