---------------------------- MODULE AccountsProofs ----------------------------
(***************************************************************************)
(* Acknowledgements stay bounded, and a row changes only as it was asked   *)
(* to, for any number of processes, users, notifications and tokens,       *)
(* whatever requests are served and wherever they are killed.              *)
(***************************************************************************)
EXTENDS Accounts, FiniteSetTheorems, TLAPS

\* The processes about to store an acknowledgement of user and notification k.
Adding(k) ==
  {w \in serving : /\ job[w] # << >> /\ seen[w] \notin {Unread, Missing}
                   /\ Now(w).do = "acknowledge" /\ <<Now(w).user, Now(w).row[2]>> = k}

\* Idle processes have read nothing; what is stored and what is about to be
\* stored together are no more than the processes.
AcksInv ==
  /\ serving \subseteq Workers
  /\ acks \in [AckKeys -> Nat]
  /\ job = [w \in Workers |-> job[w]] /\ seen = [w \in Workers |-> seen[w]]
  /\ \A w \in Workers : job[w] = << >> => seen[w] = Unread
  /\ \A k \in AckKeys : acks[k] + Cardinality(Adding(k)) <= Cardinality(serving)

LEMMA AddingFinite ==
  ASSUME AcksInv, NEW k
  PROVE  /\ IsFiniteSet(serving) /\ Cardinality(serving) \in Nat
         /\ IsFiniteSet(Adding(k)) /\ Cardinality(Adding(k)) \in Nat
         /\ Cardinality(Adding(k)) <= Cardinality(serving)
<1>1. IsFiniteSet(serving)
  BY FS_Subset, AccountsAssumption DEF AcksInv
<1>2. Adding(k) \subseteq serving
  BY DEF Adding
<1> QED BY <1>1, <1>2, FS_Subset, FS_CardinalityType

\* A step that adds nobody to Adding and no row keeps the bound.
LEMMA FewerAdding ==
  ASSUME AcksInv, serving' = serving, acks' = acks,
         \A k \in AckKeys : Adding(k)' \subseteq Adding(k)
  PROVE  \A k \in AckKeys : acks'[k] + Cardinality(Adding(k)') <= Cardinality(serving')
<1> TAKE k \in AckKeys
<1>1. Cardinality(Adding(k)') <= Cardinality(Adding(k)) /\ Cardinality(Adding(k)') \in Nat
  BY AddingFinite, FS_Subset, FS_CardinalityType
<1>2. acks[k] + Cardinality(Adding(k)) <= Cardinality(serving) /\ acks[k] \in Nat
  BY DEF AcksInv
<1> QED BY <1>1, <1>2, AddingFinite

\* A process that ends or goes on to its next session is idle or has read
\* nothing yet.
LEMMA SessionOver ==
  ASSUME AcksInv, NEW w \in serving, End(w) \/ Proceed(w), serving' = serving
  PROVE  /\ job' = [v \in Workers |-> job'[v]] /\ seen' = [v \in Workers |-> seen'[v]]
         /\ \A v \in Workers : job'[v] = << >> => seen'[v] = Unread
         /\ \A k \in AckKeys : Adding(k)' = Adding(k) \ {w}
<1>1. w \in Workers
  BY DEF AcksInv
<1>2. /\ seen'[w] = Unread
      /\ \A v \in Workers \ {w} : job'[v] = job[v] /\ seen'[v] = seen[v]
      /\ job' = [v \in Workers |-> job'[v]] /\ seen' = [v \in Workers |-> seen'[v]]
  BY <1>1 DEF AcksInv, End, Proceed
<1>3. \A k \in AckKeys : Adding(k)' = Adding(k) \ {w}
  BY <1>1, <1>2 DEF Adding, AcksInv, Now
<1> QED BY <1>1, <1>2, <1>3 DEF AcksInv

LEMMA AcksStep ==
  ASSUME AcksInv, [Next]_vars
  PROVE  AcksInv'
<1>1. serving' = serving
  BY DEF Next, Begin, Load, Refuse, Insert, IntegrityError, Update, AddAck, Killed, vars
<1>2. ASSUME NEW w \in serving, NEW request \in Requests, Begin(w, request)
      PROVE  AcksInv'
  <2>1. w \in Workers /\ seen[w] = Unread
    BY <1>2 DEF AcksInv, Begin
  <2>2. /\ job' = [v \in Workers |-> job'[v]] /\ seen' = seen /\ acks' = acks
        /\ \A v \in Workers \ {w} : job'[v] = job[v]
    BY <1>2, <2>1 DEF AcksInv, Begin
  <2>3. \A k \in AckKeys : Adding(k)' \subseteq Adding(k)
    BY <1>1, <2>1, <2>2 DEF Adding, AcksInv, Now
  <2> QED BY <1>1, <2>1, <2>2, <2>3, FewerAdding DEF AcksInv
<1>3. ASSUME NEW w \in serving, Load(w)
      PROVE  AcksInv'
  <2>1. /\ w \in Workers /\ job' = job /\ acks' = acks /\ job[w] # << >> /\ seen[w] = Unread
        /\ seen' = [v \in Workers |-> seen'[v]]
        /\ \A v \in Workers \ {w} : seen'[v] = seen[v]
    BY <1>3 DEF AcksInv, Load
  <2>2. ASSUME NEW k \in AckKeys
        PROVE  acks'[k] + Cardinality(Adding(k)') <= Cardinality(serving')
    <3>1. acks[k] \in Nat /\ acks[k] + Cardinality(Adding(k)) <= Cardinality(serving)
      BY DEF AcksInv
    <3>2. CASE Now(w).do = "acknowledge" /\ <<Now(w).user, Now(w).row[2]>> = k
      <4>1. ~IsAcknowledged(Now(w))
        BY <1>3, <3>2 DEF Load, Refuses
      <4>2. acks[k] = 0
        BY <4>1, <3>1, <3>2 DEF IsAcknowledged
      <4>3. Adding(k)' \subseteq serving
        BY <1>1 DEF Adding
      <4>4. Cardinality(Adding(k)') <= Cardinality(serving) /\ Cardinality(Adding(k)') \in Nat
        BY <4>3, AddingFinite, FS_Subset, FS_CardinalityType
      <4> QED BY <1>1, <2>1, <4>2, <4>4, AddingFinite
    <3>3. CASE ~(Now(w).do = "acknowledge" /\ <<Now(w).user, Now(w).row[2]>> = k)
      <4>1. Adding(k)' = Adding(k)
        BY <1>1, <2>1, <3>3 DEF Adding, AcksInv, Now
      <4> QED BY <1>1, <2>1, <3>1, <4>1
    <3> QED BY <3>2, <3>3
  <2> QED BY <1>1, <2>1, <2>2 DEF AcksInv
<1>4. ASSUME NEW w \in serving,
             Refuse(w) \/ Insert(w) \/ IntegrityError(w) \/ Update(w) \/ Killed(w)
      PROVE  AcksInv'
  <2>1. acks' = acks /\ (End(w) \/ Proceed(w))
    BY <1>4 DEF Refuse, Insert, IntegrityError, Update, Killed
  <2> QED BY <1>1, <2>1, SessionOver, FewerAdding DEF AcksInv
<1>5. ASSUME NEW w \in serving, AddAck(w)
      PROVE  AcksInv'
  <2> DEFINE added == <<Now(w).user, Now(w).row[2]>>
  <2>1. Proceed(w) /\ acks' = [acks EXCEPT ![added] = @ + 1] /\ \A k : w \in Adding(k) <=> k = added
    BY <1>5 DEF AddAck, Adding
  <2>2. ASSUME NEW k \in AckKeys
        PROVE  acks'[k] + Cardinality(Adding(k)') <= Cardinality(serving')
    <3>1. Adding(k)' = Adding(k) \ {w}
      BY <1>1, <2>1, SessionOver
    <3>2. acks[k] \in Nat /\ acks[k] + Cardinality(Adding(k)) <= Cardinality(serving)
      BY DEF AcksInv
    <3>3. CASE k = added
      <4>1. Cardinality(Adding(k) \ {w}) = Cardinality(Adding(k)) - 1
        BY <2>1, <3>3, AddingFinite, FS_RemoveElement
      <4>2. acks'[k] = acks[k] + 1
        BY <2>1, <3>3 DEF AcksInv
      <4> QED BY <1>1, <3>1, <3>2, <4>1, <4>2, AddingFinite
    <3>4. CASE k # added
      <4>1. Adding(k)' = Adding(k) /\ acks'[k] = acks[k]
        BY <2>1, <3>1, <3>4 DEF AcksInv
      <4> QED BY <1>1, <3>2, <4>1
    <3> QED BY <3>3, <3>4
  <2>3. acks' \in [AckKeys -> Nat]
    <3>1. acks' = [k \in AckKeys |-> acks'[k]]
      BY <2>1 DEF AcksInv
    <3>2. ASSUME NEW k \in AckKeys PROVE acks'[k] \in Nat
      <4> HIDE DEF added
      <4>1. acks[k] \in Nat
        BY DEF AcksInv
      <4>2. acks'[k] = acks[k] \/ acks'[k] = acks[k] + 1
        BY <2>1 DEF AcksInv
      <4> QED BY <4>1, <4>2
    <3> QED BY <3>1, <3>2
  <2> QED BY <1>1, <2>1, <2>2, <2>3, SessionOver DEF AcksInv
<1>6. CASE UNCHANGED vars
  BY <1>6 DEF AcksInv, Adding, Now, vars
<1> QED BY <1>2, <1>3, <1>4, <1>5, <1>6 DEF Next

\* acknowledge_notification looks before it inserts, and nothing else keeps two
\* processes from inserting both: a user never has more acknowledgements of a
\* notification than there are processes.
THEOREM AcksStayBounded == Spec => []AcksBounded
<1>1. Init => AcksInv
  <2> SUFFICES ASSUME Init PROVE AcksInv
    OBVIOUS
  <2>1. serving \subseteq Workers /\ IsFiniteSet(serving)
    BY FS_Subset, AccountsAssumption DEF Init
  <2>2. \A k : Adding(k) = {}
    BY <2>1 DEF Init, Adding
  <2>3. Cardinality(serving) \in Nat /\ \A k : Cardinality(Adding(k)) = 0
    BY <2>1, <2>2, FS_EmptySet, FS_CardinalityType
  <2>4. acks \in [AckKeys -> Nat] /\ \A k \in AckKeys : acks[k] = 0
    BY DEF Init
  <2>5. \A k \in AckKeys : acks[k] + Cardinality(Adding(k)) <= Cardinality(serving)
    BY <2>3, <2>4
  <2>6. /\ job = [w \in Workers |-> job[w]] /\ seen = [w \in Workers |-> seen[w]]
        /\ \A w \in Workers : seen[w] = Unread
    BY DEF Init
  <2> QED BY <2>1, <2>4, <2>5, <2>6 DEF AcksInv
<1>2. AcksInv /\ [Next]_vars => AcksInv'
  BY AcksStep
<1>3. AcksInv => AcksBounded
  <2> SUFFICES ASSUME AcksInv, NEW k \in AckKeys PROVE acks[k] <= Cardinality(serving)
    BY DEF AcksBounded
  <2> QED BY AddingFinite DEF AcksInv
<1> QED BY <1>1, <1>2, <1>3, PTL DEF Spec

-----------------------------------------------------------------------------
(* The rows.  A session names a row, assigns columns of that row's type and,  *)
(* if it may find none, has a complete row to add.                            *)

Columns(table) ==
  CASE table = "users"            -> {"email"}
    [] table = "user_preferences" -> {"onboarding", "preferences"}
    [] table = "notification"     -> {"message", "active"}
    [] table = "api_tokens"       -> {"owner", "revoked", "used"}

Column(c) ==
  CASE c \in {"email", "owner"} -> Users
    [] c = "message"            -> Texts
    [] c = "preferences"        -> [Paths -> Values \cup {Unset}]
    [] c \in {"onboarding", "active", "revoked", "used"} -> BOOLEAN

Inserts(s) == s.do \in {"upsert", "create"}

Fits(s) ==
  /\ s.do \in {"upsert", "create", "edit", "acknowledge", "revoke", "authenticate"}
  /\ s.row \in Keys /\ s.patch \in Column("preferences")
  /\ \A c \in DOMAIN s.set : c # "preferences" /\ s.set[c] \in Column(c)
  /\ Inserts(s) => Added(s) \in Row(s.row[1])

\* What is left of a request.
Fitting(sessions) ==
  \/ sessions = << >>
  \/ \E s : sessions = <<s>> /\ Fits(s)
  \/ \E s, t : sessions = <<s, t>> /\ Fits(s) /\ Fits(t)

\* What a session has loaded is a row of the table it works on; with one
\* process it is the row that is stored.
RowsInv ==
  /\ serving \subseteq Workers
  /\ rows = [k \in Keys |-> rows[k]] /\ job = [w \in Workers |-> job[w]]
  /\ seen = [w \in Workers |-> seen[w]]
  /\ \A k \in Keys : rows[k] \in Row(k[1]) \cup {Missing}
  /\ \A w \in Workers : Fitting(job[w])
  /\ \A w \in Workers : seen[w] # Unread =>
       /\ job[w] # << >> /\ seen[w] \in Row(Now(w).row[1]) \cup {Missing}
       /\ IF seen[w] = Missing THEN Inserts(Now(w)) ELSE rows[Now(w).row] # Missing
       /\ serving = {w} => seen[w] = rows[Now(w).row]

LEMMA TableOfKey ==
  ASSUME NEW k \in Keys
  PROVE  k[1] \in {"users", "user_preferences", "notification", "api_tokens"}
BY DEF Keys

LEMMA RowByColumn ==
  ASSUME NEW k \in Keys, NEW r
  PROVE  r \in Row(k[1]) <=> /\ r = [c \in Columns(k[1]) |-> r[c]]
                             /\ \A c \in Columns(k[1]) : r[c] \in Column(c)
<1>1. CASE k[1] = "users"
  BY <1>1 DEF Row, Columns, Column
<1>2. CASE k[1] = "user_preferences"
  BY <1>2 DEF Row, Columns, Column
<1>3. CASE k[1] = "notification"
  BY <1>3 DEF Row, Columns, Column
<1>4. CASE k[1] = "api_tokens"
  BY <1>4 DEF Row, Columns, Column
<1> QED BY <1>1, <1>2, <1>3, <1>4, TableOfKey

LEMMA RestFits ==
  ASSUME NEW sessions, Fitting(sessions), sessions # << >>
  PROVE  Fits(Head(sessions)) /\ Fitting(Tail(sessions))
<1>1. ASSUME NEW s, sessions = <<s>>, Fits(s)
      PROVE  Fits(Head(sessions)) /\ Fitting(Tail(sessions))
  <2>1. Head(sessions) = s /\ Tail(sessions) = << >>
    BY <1>1
  <2> QED BY <1>1, <2>1 DEF Fitting
<1>2. ASSUME NEW s, NEW t, sessions = <<s, t>>, Fits(s), Fits(t)
      PROVE  Fits(Head(sessions)) /\ Fitting(Tail(sessions))
  <2>1. Head(sessions) = s /\ Tail(sessions) = <<t>>
    BY <1>2
  <2> QED BY <1>2, <2>1 DEF Fitting
<1> QED BY <1>1, <1>2 DEF Fitting

LEMMA ColumnTypes ==
  /\ Column("email") = Users /\ Column("owner") = Users /\ Column("message") = Texts
  /\ Column("preferences") = [Paths -> Values \cup {Unset}]
  /\ Column("onboarding") = BOOLEAN /\ Column("active") = BOOLEAN
  /\ Column("revoked") = BOOLEAN /\ Column("used") = BOOLEAN
BY DEF Column

LEMMA SessionFits ==
  ASSUME NEW do \in {"upsert", "create", "edit", "acknowledge", "revoke", "authenticate"},
         NEW row \in Keys, NEW set, NEW patch \in Column("preferences"), NEW user,
         \A c \in DOMAIN set : c # "preferences" /\ set[c] \in Column(c),
         do \in {"upsert", "create"} => /\ row[1] # "user_preferences"
                                       /\ set \in Row(row[1])
  PROVE  Fits(Session(do, row, set, patch, user))
BY DEF Fits, Session, Inserts, Added

LEMMA RequestsFit ==
  ASSUME NEW request \in Requests
  PROVE  Fitting(request) /\ request # << >>
<1>1. ASSUME NEW u \in Users PROVE Fits(UpsertUser(u))
  <2>1. NoPatch \in Column("preferences")
    BY DEF NoPatch, Column
  <2> QED BY <1>1, <2>1 DEF UpsertUser, Session, Fits, Inserts, Added, Row, Keys, Column
<1>2. ASSUME NEW u \in Users, NEW patch \in Column("preferences"),
             NEW set \in {<< >>} \cup {[onboarding |-> b] : b \in BOOLEAN}
      PROVE  Fits(UpsertPreferences(u, set, patch))
  <2> DEFINE s == UpsertPreferences(u, set, patch)
  <2>1. s.do = "upsert" /\ s.row = <<"user_preferences", u>> /\ s.set = set /\ s.patch = patch
    BY DEF UpsertPreferences, Session
  <2>2. s.row \in Keys /\ s.row[1] = "user_preferences"
    BY <2>1 DEF Keys
  <2>3. \A c \in DOMAIN set : c = "onboarding" /\ set[c] \in BOOLEAN
    BY <1>2
  <2>4. Added(s) \in [onboarding : BOOLEAN, preferences : Column("preferences")]
    BY <2>1, <2>2, <2>3 DEF Added
  <2>5. Added(s) \in Row(s.row[1])
    BY <2>2, <2>4 DEF Row, Column
  <2>6. \A c \in DOMAIN s.set : c # "preferences" /\ s.set[c] \in Column(c)
    BY <2>1, <2>3 DEF Column
  <2> HIDE DEF s
  <2>7. Fits(s)
    BY <1>2, <2>1, <2>2, <2>5, <2>6 DEF Fits
  <2> QED BY <2>7 DEF s
<1>3. CASE \E u \in Users : request \in {Register(u)} \cup UpdateProfile(u)
  <2>1. PICK u \in Users : request \in {Register(u)} \cup UpdateProfile(u)
    BY <1>3
  <2>2. PICK set \in {<< >>} \cup {[onboarding |-> b] : b \in BOOLEAN}, patch \in Column("preferences") :
          request = <<UpsertUser(u), UpsertPreferences(u, set, patch)>>
    <3>1. NoPatch \in Column("preferences")
      BY DEF NoPatch, Column
    <3>2. \A p \in Paths, v \in Values : [NoPatch EXCEPT ![p] = v] \in Column("preferences")
      BY DEF NoPatch, Column
    <3>3. [onboarding |-> FALSE] \in {[onboarding |-> b] : b \in BOOLEAN}
      OBVIOUS
    <3>4. CASE request = Register(u)
      BY <3>1, <3>3, <3>4 DEF Register
    <3>5. CASE request \in UpdateProfile(u)
      BY <3>1, <3>2, <3>5 DEF UpdateProfile
    <3> QED BY <2>1, <3>4, <3>5
  <2> QED BY <1>1, <1>2, <2>2 DEF Fitting
<1>4. \A s : Fits(s) => Fitting(<<s>>) /\ <<s>> # << >>
  BY DEF Fitting
<1>5. NoPatch \in Column("preferences")
  BY DEF NoPatch, Column
<1>6. CASE \E n \in Notes : request \in CreateNotification(n) \cup UpdateNotification(n)
  <2>1. PICK n \in Notes : request \in CreateNotification(n) \cup UpdateNotification(n)
    BY <1>6
  <2>2. <<"notification", n>> \in Keys
    BY DEF Keys
  <2>3. ASSUME NEW m \in Texts
        PROVE  Fits(Session("create", <<"notification", n>>, [message |-> m, active |-> TRUE], NoPatch, n))
    <3> DEFINE set == [message |-> m, active |-> TRUE]
    <3>1. set \in [message : Texts, active : BOOLEAN]
      OBVIOUS
    <3>2. set \in Row("notification")
      BY <3>1 DEF Row
    <3>3. \A c \in DOMAIN set : c # "preferences" /\ set[c] \in Column(c)
      <4>1. DOMAIN set = {"message", "active"} /\ set["message"] \in Texts /\ set["active"] \in BOOLEAN
        OBVIOUS
      <4> HIDE DEF set
      <4> QED BY <4>1, ColumnTypes
    <3> HIDE DEF set
    <3>4. Fits(Session("create", <<"notification", n>>, set, NoPatch, n))
      BY <1>5, <2>2, <3>2, <3>3, SessionFits
    <3> QED BY <3>4 DEF set
  <2>4. ASSUME NEW set \in {[message |-> m] : m \in Texts} \cup {[active |-> b] : b \in BOOLEAN}
        PROVE  Fits(Session("edit", <<"notification", n>>, set, NoPatch, n))
    <3>1. \A c \in DOMAIN set : c # "preferences" /\ set[c] \in Column(c)
      BY DEF Column
    <3> QED BY <1>5, <2>2, <3>1 DEF Session, Fits, Inserts
  <2> QED BY <1>4, <2>1, <2>3, <2>4 DEF CreateNotification, UpdateNotification
<1>7. CASE \E u \in Users, n \in Notes : request = Acknowledge(u, n)
  <2>1. PICK u \in Users, n \in Notes : request = Acknowledge(u, n)
    BY <1>7
  <2>2. Fits(Session("acknowledge", <<"notification", n>>, << >>, NoPatch, u))
    BY <1>5 DEF Session, Fits, Inserts, Keys
  <2> QED BY <1>4, <2>1, <2>2 DEF Acknowledge
<1>8. CASE \E u \in Users, t \in Tokens : request \in {CreateToken(u, t), RevokeToken(u, t), Authenticate(t)}
  <2>1. PICK u \in Users, t \in Tokens : request \in {CreateToken(u, t), RevokeToken(u, t), Authenticate(t)}
    BY <1>8
  <2>2. <<"api_tokens", t>> \in Keys
    BY DEF Keys
  <2>3. ASSUME NEW set, NEW user, NEW do,
               \/ do = "create" /\ set = [owner |-> u, revoked |-> FALSE, used |-> FALSE]
               \/ do = "revoke" /\ set = [revoked |-> TRUE]
               \/ do = "authenticate" /\ set = [used |-> TRUE]
        PROVE  Fits(Session(do, <<"api_tokens", t>>, set, NoPatch, user))
    <3>1. CASE do = "create" /\ set = [owner |-> u, revoked |-> FALSE, used |-> FALSE]
      <4>1. set \in [owner : Users, revoked : BOOLEAN, used : BOOLEAN]
        BY <3>1
      <4>2. /\ DOMAIN set = {"owner", "revoked", "used"}
            /\ set["owner"] \in Users /\ set["revoked"] \in BOOLEAN /\ set["used"] \in BOOLEAN
        BY <4>1
      <4>3. \A c \in DOMAIN set : c # "preferences" /\ set[c] \in Column(c)
        BY <4>2, ColumnTypes
      <4>4. set \in Row("api_tokens")
        BY <4>1 DEF Row
      <4> QED BY <1>5, <2>2, <3>1, <4>3, <4>4, SessionFits
    <3>2. CASE do = "revoke" /\ set = [revoked |-> TRUE]
      <4>1. DOMAIN set = {"revoked"} /\ set["revoked"] \in BOOLEAN
        BY <3>2
      <4>2. \A c \in DOMAIN set : c # "preferences" /\ set[c] \in Column(c)
        BY <4>1, ColumnTypes
      <4> QED BY <1>5, <2>2, <3>2, <4>2, SessionFits
    <3>3. CASE do = "authenticate" /\ set = [used |-> TRUE]
      <4>1. DOMAIN set = {"used"} /\ set["used"] \in BOOLEAN
        BY <3>3
      <4>2. \A c \in DOMAIN set : c # "preferences" /\ set[c] \in Column(c)
        BY <4>1, ColumnTypes
      <4> QED BY <1>5, <2>2, <3>3, <4>2, SessionFits
    <3> QED BY <2>3, <3>1, <3>2, <3>3
  <2>4. CASE request = CreateToken(u, t)
    <3>1. Fits(Session("create", <<"api_tokens", t>>,
                       [owner |-> u, revoked |-> FALSE, used |-> FALSE], NoPatch, u))
      BY <2>3
    <3> QED BY <1>4, <2>4, <3>1 DEF CreateToken
  <2>5. CASE request = RevokeToken(u, t)
    <3>1. Fits(Session("revoke", <<"api_tokens", t>>, [revoked |-> TRUE], NoPatch, u))
      BY <2>3
    <3> QED BY <1>4, <2>5, <3>1 DEF RevokeToken
  <2>6. CASE request = Authenticate(t)
    <3>1. Fits(Session("authenticate", <<"api_tokens", t>>, [used |-> TRUE], NoPatch, Missing))
      BY <2>3
    <3> QED BY <1>4, <2>6, <3>1 DEF Authenticate
  <2> QED BY <2>1, <2>4, <2>5, <2>6
<1>9. \/ \E u \in Users : request \in {Register(u)} \cup UpdateProfile(u)
      \/ \E n \in Notes : request \in CreateNotification(n) \cup UpdateNotification(n)
      \/ \E u \in Users, n \in Notes : request = Acknowledge(u, n)
      \/ \E u \in Users, t \in Tokens : request \in {CreateToken(u, t), RevokeToken(u, t), Authenticate(t)}
  <2>1. CASE request \in UNION {{Register(u)} \cup UpdateProfile(u) : u \in Users}
    BY <2>1
  <2>2. CASE request \in UNION {CreateNotification(n) \cup UpdateNotification(n) : n \in Notes}
    BY <2>2
  <2>3. CASE request \in {Acknowledge(u, n) : u \in Users, n \in Notes}
    BY <2>3
  <2>4. CASE request \in UNION {{CreateToken(u, t), RevokeToken(u, t), Authenticate(t)} : u \in Users, t \in Tokens}
    BY <2>4
  <2> QED BY <2>1, <2>2, <2>3, <2>4 DEF Requests
<1> QED BY <1>3, <1>6, <1>7, <1>8, <1>9

LEMMA AssignedByColumn ==
  ASSUME NEW s, Fits(s), NEW row \in Row(s.row[1])
  PROVE  /\ DOMAIN row = Columns(s.row[1]) /\ DOMAIN Assigned(s, row) = DOMAIN row
         /\ \A c \in DOMAIN row : Assigned(s, row)[c] \in Column(c)
<1>1. /\ DOMAIN row = Columns(s.row[1])
      /\ \A c \in DOMAIN row : row[c] \in Column(c)
  BY RowByColumn DEF Fits
<1>2. \A c \in DOMAIN row :
        Assigned(s, row)[c] = IF c \in DOMAIN s.set THEN s.set[c]
                              ELSE IF c = "preferences" THEN DeepMergePreferences(row[c], s.patch)
                              ELSE row[c]
  BY DEF Assigned
<1>3. ASSUME NEW blob \in Column("preferences")
      PROVE  DeepMergePreferences(blob, s.patch) \in Column("preferences")
  BY ColumnTypes DEF DeepMergePreferences, Fits
<1>4. ASSUME NEW c \in DOMAIN row
      PROVE  Assigned(s, row)[c] \in Column(c)
  BY <1>1, <1>2, <1>3 DEF Fits
<1> QED BY <1>1, <1>4 DEF Assigned

\* The row an Update writes, and the columns in which it differs.
LEMMA UpdatedRow ==
  ASSUME NEW s, Fits(s), NEW old \in Row(s.row[1]), NEW row \in Row(s.row[1]), NEW new,
         new = [c \in DOMAIN row |-> IF c \in Dirty(s, old) THEN Assigned(s, old)[c] ELSE row[c]]
  PROVE  /\ new \in Row(s.row[1])
         /\ \A c \in DOMAIN row : new[c] # row[c] => c \in DOMAIN s.set \/ c = "preferences"
<1>1. /\ row = [c \in Columns(s.row[1]) |-> row[c]]
      /\ \A c \in Columns(s.row[1]) : row[c] \in Column(c)
  BY RowByColumn DEF Fits
<1>2. \A c \in Columns(s.row[1]) : Assigned(s, old)[c] \in Column(c)
  BY AssignedByColumn
<1>3. new = [c \in Columns(s.row[1]) |-> new[c]] /\ \A c \in Columns(s.row[1]) : new[c] \in Column(c)
  BY <1>1, <1>2
<1>4. new \in Row(s.row[1])
  BY <1>3, RowByColumn DEF Fits
<1>5. ASSUME NEW c \in DOMAIN row, new[c] # row[c]
      PROVE  c \in DOMAIN s.set \/ c = "preferences"
  <2>1. c \in DOMAIN old /\ Assigned(s, old)[c] # old[c]
    BY <1>5 DEF Dirty
  <2> QED BY <2>1 DEF Assigned
<1> QED BY <1>4, <1>5

\* A preference that is written over the blob it was read from changes only if
\* the request names it.
LEMMA MergedBlob ==
  ASSUME NEW s, Fits(s), NEW row \in Row(s.row[1]), "preferences" \in DOMAIN row, NEW p \in Paths,
         Assigned(s, row)["preferences"][p] # row["preferences"][p]
  PROVE  s.patch[p] # Unset
<1>1. "preferences" \notin DOMAIN s.set
  BY DEF Fits
<1>2. Assigned(s, row)["preferences"] = DeepMergePreferences(row["preferences"], s.patch)
  BY <1>1 DEF Assigned
<1> QED BY <1>2 DEF DeepMergePreferences

LEMMA NowFits ==
  ASSUME RowsInv, NEW w \in Workers, job[w] # << >>
  PROVE  Fits(Now(w)) /\ Now(w).row \in Keys /\ Fitting(Tail(job[w]))
BY RestFits DEF RowsInv, Now, Fits

\* What a commit does to the rows.
LEMMA Commit ==
  ASSUME RowsInv, NEW w \in serving, Insert(w) \/ Update(w)
  PROVE  /\ rows' = [k \in Keys |-> rows'[k]]
         /\ \A k \in Keys : rows'[k] \in Row(k[1]) \cup {Missing}
         /\ \A k \in Keys : rows[k] # Missing =>
              /\ rows'[k] # Missing
              /\ \A c \in DOMAIN rows[k] : rows'[k][c] # rows[k][c] =>
                   /\ AsksFor(w, k, c)
                   /\ (c = "preferences" /\ serving = {w}) =>
                        \A p \in Paths : rows'[k][c][p] # rows[k][c][p] => Now(w).patch[p] # Unset
<1> DEFINE s == Now(w)
           key == s.row
<1>1. w \in Workers /\ job[w] # << >> /\ seen[w] # Unread
  BY MissingAssumption DEF RowsInv, Insert, Update
<1>2. Fits(s) /\ key \in Keys
  BY <1>1, NowFits
<1>3. \A k \in Keys : rows[k] \in Row(k[1]) \cup {Missing}
  BY DEF RowsInv
<1>4. CASE Insert(w)
  <2>1. rows[key] = Missing /\ rows' = [rows EXCEPT ![key] = Added(s)] /\ seen[w] = Missing
    BY <1>4 DEF Insert, CanInsert
  <2>2. Added(s) \in Row(key[1])
    BY <1>1, <1>2, <2>1 DEF RowsInv, Fits
  <2>3. rows' = [k \in Keys |-> rows'[k]] /\ rows'[key] = Added(s) /\ \A k \in Keys \ {key} : rows'[k] = rows[k]
    BY <1>2, <2>1 DEF RowsInv
  <2> HIDE DEF key, s
  <2> QED BY <1>3, <2>1, <2>2, <2>3
<1>5. CASE Update(w)
  <2> DEFINE new == [c \in DOMAIN rows[key] |->
                       IF c \in Dirty(s, seen[w]) THEN Assigned(s, seen[w])[c] ELSE rows[key][c]]
  <2>1. seen[w] \in Row(key[1]) /\ rows[key] \in Row(key[1])
    BY <1>1, <1>2, <1>3, <1>5 DEF RowsInv, Update
  <2>2. rows' = [rows EXCEPT ![key] = new]
    BY <1>5 DEF Update
  <2>3. rows' = [k \in Keys |-> rows'[k]] /\ rows'[key] = new /\ \A k \in Keys \ {key} : rows'[k] = rows[k]
    BY <1>2, <2>2 DEF RowsInv
  <2>4. /\ new \in Row(key[1]) /\ new # Missing
        /\ \A c \in DOMAIN rows[key] : new[c] # rows[key][c] => c \in DOMAIN s.set \/ c = "preferences"
    BY <1>2, <2>1, UpdatedRow, MissingAssumption
  <2>5. ASSUME "preferences" \in DOMAIN rows[key], serving = {w}, NEW p \in Paths,
               new["preferences"][p] # rows[key]["preferences"][p]
        PROVE  s.patch[p] # Unset
    <3>1. seen[w] = rows[key]
      BY <1>1, <2>5 DEF RowsInv
    <3>2. new["preferences"] = Assigned(s, rows[key])["preferences"]
      BY <2>5, <3>1
    <3> QED BY <1>2, <2>1, <2>5, <3>2, MergedBlob
  <2>6. \A c : c \in DOMAIN s.set \/ c = "preferences" => AsksFor(w, key, c)
    BY <1>1 DEF AsksFor
  <2> HIDE DEF new, key, s
  <2>7. ASSUME NEW k \in Keys, rows[k] # Missing
        PROVE  /\ rows'[k] # Missing
               /\ \A c \in DOMAIN rows[k] : rows'[k][c] # rows[k][c] =>
                    /\ AsksFor(w, k, c)
                    /\ (c = "preferences" /\ serving = {w}) =>
                         \A p \in Paths : rows'[k][c][p] # rows[k][c][p] => s.patch[p] # Unset
    BY <2>3, <2>4, <2>5, <2>6, <2>7
  <2> QED BY <1>3, <2>3, <2>4, <2>7 DEF s
<1> QED BY <1>4, <1>5

\* A session ends: its process has read nothing of the next one.
LEMMA NextSession ==
  ASSUME RowsInv, NEW w \in serving, job[w] # << >>, End(w) \/ Proceed(w), serving' = serving,
         rows' = [k \in Keys |-> rows'[k]],
         \A k \in Keys : rows'[k] \in Row(k[1]) \cup {Missing},
         \A k \in Keys : rows[k] # Missing => rows'[k] # Missing
  PROVE  RowsInv'
<1>1. w \in Workers
  BY DEF RowsInv
<1>2. /\ job' = [v \in Workers |-> job'[v]] /\ seen' = [v \in Workers |-> seen'[v]]
      /\ seen'[w] = Unread /\ job'[w] \in {<< >>, Tail(job[w])}
      /\ \A v \in Workers \ {w} : job'[v] = job[v] /\ seen'[v] = seen[v]
  BY <1>1 DEF RowsInv, End, Proceed
<1>3. ASSUME NEW v \in Workers PROVE Fitting(job'[v])
  <2>1. Fitting(<< >>) /\ Fitting(Tail(job[w]))
    BY <1>1, NowFits DEF Fitting
  <2>2. Fitting(job[v])
    BY DEF RowsInv
  <2> QED BY <1>2, <2>1, <2>2
<1>4. ASSUME NEW v \in Workers, seen'[v] # Unread
      PROVE  /\ job'[v] # << >> /\ seen'[v] \in Row(Now(v)'.row[1]) \cup {Missing}
             /\ IF seen'[v] = Missing THEN Inserts(Now(v)') ELSE rows'[Now(v)'.row] # Missing
             /\ serving' = {v} => seen'[v] = rows'[Now(v)'.row]
  <2>1. v # w /\ seen'[v] = seen[v] /\ job'[v] = job[v] /\ Now(v)' = Now(v)
    BY <1>2, <1>4 DEF Now
  <2>2. /\ job[v] # << >> /\ seen[v] \in Row(Now(v).row[1]) \cup {Missing}
        /\ IF seen[v] = Missing THEN Inserts(Now(v)) ELSE rows[Now(v).row] # Missing
    BY <1>4, <2>1 DEF RowsInv
  <2>3. Now(v).row \in Keys
    BY <2>2, NowFits
  <2> QED BY <2>1, <2>2, <2>3
<1> QED BY <1>2, <1>3, <1>4 DEF RowsInv, Inserts

LEMMA RowsStep ==
  ASSUME RowsInv, [Next]_vars
  PROVE  RowsInv'
<1>1. serving' = serving
  BY DEF Next, Begin, Load, Refuse, Insert, IntegrityError, Update, AddAck, Killed, vars
<1>2. ASSUME NEW w \in serving, NEW request \in Requests, Begin(w, request)
      PROVE  RowsInv'
  <2>1. w \in Workers /\ seen[w] = Unread
    BY <1>2 DEF RowsInv, Begin
  <2>2. /\ job' = [v \in Workers |-> job'[v]] /\ seen' = seen /\ rows' = rows
        /\ job'[w] = request /\ \A v \in Workers \ {w} : job'[v] = job[v]
    BY <1>2, <2>1 DEF RowsInv, Begin
  <2>3. \A v \in Workers : Fitting(job'[v])
    BY <2>2, RequestsFit DEF RowsInv
  <2>4. ASSUME NEW v \in Workers, seen'[v] # Unread
        PROVE  v # w /\ job'[v] = job[v] /\ Now(v)' = Now(v)
    BY <2>1, <2>2, <2>4 DEF Now
  <2> QED BY <1>1, <2>2, <2>3, <2>4 DEF RowsInv, Inserts
<1>3. ASSUME NEW w \in serving, Load(w)
      PROVE  RowsInv'
  <2>1. w \in Workers /\ job[w] # << >> /\ job' = job /\ rows' = rows
    BY <1>3 DEF RowsInv, Load
  <2>2. /\ seen' = [v \in Workers |-> seen'[v]] /\ seen'[w] = rows[Now(w).row]
        /\ \A v \in Workers \ {w} : seen'[v] = seen[v]
    BY <1>3, <2>1 DEF RowsInv, Load
  <2>3. Fits(Now(w)) /\ Now(w).row \in Keys
    BY <2>1, NowFits
  <2>4. rows[Now(w).row] \in Row(Now(w).row[1]) \cup {Missing}
    BY <2>3 DEF RowsInv
  <2>5. rows[Now(w).row] = Missing => Inserts(Now(w))
    BY <1>3, <2>3 DEF Load, Refuses, Fits, Inserts
  <2>6. \A v \in Workers : Now(v)' = Now(v)
    BY <2>1 DEF Now
  <2>7. ASSUME NEW v \in Workers, seen'[v] # Unread
        PROVE  /\ job'[v] # << >> /\ seen'[v] \in Row(Now(v)'.row[1]) \cup {Missing}
               /\ IF seen'[v] = Missing THEN Inserts(Now(v)') ELSE rows'[Now(v)'.row] # Missing
               /\ serving' = {v} => seen'[v] = rows'[Now(v)'.row]
    <3>1. CASE v = w
      BY <2>1, <2>2, <2>4, <2>5, <2>6, <3>1
    <3>2. CASE v # w
      BY <1>1, <2>1, <2>2, <2>6, <2>7, <3>2 DEF RowsInv
    <3> QED BY <3>1, <3>2
  <2> QED BY <1>1, <2>1, <2>2, <2>7 DEF RowsInv, Inserts
<1>4. ASSUME NEW w \in serving, Refuse(w) \/ IntegrityError(w) \/ AddAck(w) \/ Killed(w)
      PROVE  RowsInv'
  <2>1. job[w] # << >> /\ (End(w) \/ Proceed(w)) /\ rows' = rows
    BY <1>4 DEF Refuse, IntegrityError, AddAck, Killed
  <2>2. /\ rows' = [k \in Keys |-> rows'[k]]
        /\ \A k \in Keys : rows'[k] \in Row(k[1]) \cup {Missing}
    BY <2>1 DEF RowsInv
  <2> QED BY <1>1, <2>1, <2>2, NextSession
<1>5. ASSUME NEW w \in serving, Insert(w) \/ Update(w)
      PROVE  RowsInv'
  <2>1. job[w] # << >> /\ Proceed(w)
    BY <1>5 DEF Insert, Update
  <2> QED BY <1>1, <1>5, <2>1, Commit, NextSession
<1>6. CASE UNCHANGED vars
  <2>1. \A v \in Workers : Now(v)' = Now(v)
    BY <1>6 DEF Now, vars
  <2> QED BY <1>6, <2>1 DEF RowsInv, Inserts, vars
<1> QED BY <1>2, <1>3, <1>4, <1>5, <1>6 DEF Next

\* A request changes what it names and nothing else, for any number of
\* processes; with one, that goes for each preference in the blob.
THEOREM OnlyWhatWasAskedHolds == Spec => OnlyWhatWasAsked
<1>1. Init => RowsInv
  <2> SUFFICES ASSUME Init PROVE RowsInv
    OBVIOUS
  <2>1. serving \subseteq Workers /\ \A w \in Workers : seen[w] = Unread /\ job[w] = << >>
    BY DEF Init
  <2>2. /\ rows = [k \in Keys |-> rows[k]] /\ \A k \in Keys : rows[k] = Missing
        /\ job = [w \in Workers |-> job[w]] /\ seen = [w \in Workers |-> seen[w]]
    BY DEF Init
  <2> QED BY <2>1, <2>2 DEF RowsInv, Fitting
<1>2. RowsInv /\ [Next]_vars => RowsInv'
  BY RowsStep
<1>3. ASSUME RowsInv, [Next]_vars
      PROVE  [\A k \in Keys : rows[k] # Missing =>
                /\ rows'[k] # Missing
                /\ \A c \in DOMAIN rows[k] : rows'[k][c] # rows[k][c] =>
                     \E w \in serving :
                       /\ AsksFor(w, k, c)
                       /\ (c = "preferences" /\ Cardinality(serving) = 1) =>
                            \A p \in Paths : rows'[k][c][p] # rows[k][c][p] => Now(w).patch[p] # Unset]_vars
  <2>1. CASE rows' = rows
    BY <2>1
  <2>2. ASSUME NEW w \in serving, Insert(w) \/ Update(w), NEW k \in Keys, rows[k] # Missing
        PROVE  /\ rows'[k] # Missing
               /\ \A c \in DOMAIN rows[k] : rows'[k][c] # rows[k][c] =>
                    /\ AsksFor(w, k, c)
                    /\ (c = "preferences" /\ Cardinality(serving) = 1) =>
                         \A p \in Paths : rows'[k][c][p] # rows[k][c][p] => Now(w).patch[p] # Unset
    <3>1. Cardinality(serving) = 1 => serving = {w}
      <4>1. IsFiniteSet(serving)
        BY <1>3, FS_Subset, AccountsAssumption DEF RowsInv
      <4> QED BY <4>1, FS_Singleton
    <3> QED BY <1>3, <2>2, <3>1, Commit
  <2>3. rows' = rows \/ \E w \in serving : Insert(w) \/ Update(w)
    BY <1>3 DEF Next, Begin, Load, Refuse, IntegrityError, AddAck, Killed, vars
  <2> QED BY <2>1, <2>2, <2>3
<1> QED BY <1>1, <1>2, <1>3, PTL DEF Spec, OnlyWhatWasAsked
=============================================================================
