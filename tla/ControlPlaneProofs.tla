-------------------------- MODULE ControlPlaneProofs --------------------------
(***************************************************************************)
(* Theorems about ControlPlane, for any number of sessions, users and calls, *)
(* and about IngestDelivery, for any number of payloads and attempts.        *)
(***************************************************************************)
EXTENDS IngestDelivery, FiniteSetTheorems, TLAPS

(* What holds of a reply of call c, when it is sent and ever after.         *)
Fits(c, code, shown) ==
  LET s == Session(c)
  IN  /\ Route(c) \in Ingest =>
           /\ code \in {201, 500} \cup 400 .. 499
           /\ code = 201 => c \in rows[s] \/ status[s] = "deleted"
           /\ code \in 400 .. 499 => c \notin rows[s]
      /\ Route(c) = "create" /\ code = 201 => status[s] # "none"
      /\ Route(c) = "end" /\ code = 200 =>
           shown = "ended" /\ status[s] \in {"ended", "deleted"}
      /\ Route(c) = "delete" /\ code = 204 => status[s] = "deleted"
      /\ code \in 200 .. 299 /\ Route(c) \in UserRoutes /\ (Route(c) = "list" => shown # None) =>
           owner[s] = asked[c].who /\ status[s] # "none"

(* A call past the check of the status has the lock, and the status is      *)
(* still what was checked.                                                  *)
HeldInv(c) ==
  at[c] = "locked" =>
    /\ lock[Session(c)] = c /\ status[Session(c)] = "active"
    /\ Route(c) \in Ingest \cup {"end"}
    /\ Route(c) = "end" => owner[Session(c)] = asked[c].who

(* The unlocked check of a deletion is good for ever.                       *)
DeletingInv(c) ==
  at[c] = "deleting" =>
    /\ Route(c) = "delete" /\ status[Session(c)] \in {"ended", "deleted"}
    /\ owner[Session(c)] = asked[c].who

CommittedInv(c) ==
  at[c] = "committed" =>
    /\ Route(c) \in Ingest \cup {"end", "create"}
    /\ status[Session(c)] # "none"
    /\ Route(c) \in Ingest => c \in rows[Session(c)] \/ status[Session(c)] = "deleted"
    /\ Route(c) \notin Ingest => owner[Session(c)] = asked[c].who
    /\ Route(c) = "end" => status[Session(c)] \in {"ended", "deleted"}

CallInv(c) ==
  /\ at[c] # "unused" => asked[c] \in Request
  /\ HeldInv(c) /\ DeletingInv(c) /\ CommittedInv(c)
  /\ at[c] = "answered" => Fits(c, reply[c], view[c])

(* A row is of a call that committed it into its own session, and goes with *)
(* the session.                                                             *)
RowInv(s) ==
  /\ \A c \in rows[s] : at[c] \in {"committed", "answered"} /\ Session(c) = s
  /\ status[s] \in {"none", "deleted"} => rows[s] = {}

PlaneInv ==
  /\ TypeOK
  /\ \A c \in Calls : CallInv(c)
  /\ \A s \in Sessions : RowInv(s)

-----------------------------------------------------------------------------
(* What a step of call c may do to the tables and to the other calls        *)

Created(s) == 
  /\ status[s] = "none" /\ status' = [status EXCEPT ![s] = "active"]
  /\ \E u \in Users : owner' = [owner EXCEPT ![s] = u]
  /\ rows' = rows

Inserted(s, c) ==
  /\ status[s] = "active" /\ rows' = [rows EXCEPT ![s] = @ \cup {c}]
  /\ UNCHANGED <<status, owner>>

Ended(s) ==
  /\ status[s] = "active" /\ status' = [status EXCEPT ![s] = "ended"]
  /\ UNCHANGED <<rows, owner>>

Deleted(s) ==
  /\ status[s] \in {"ended", "deleted"} /\ status' = [status EXCEPT ![s] = "deleted"]
  /\ rows' = [rows EXCEPT ![s] = {}] /\ owner' = owner
  /\ \A d \in Calls : at[d] = "locked" => Session(d) # s

Changes(c) ==
  \/ UNCHANGED <<status, owner, rows>>
  \/ \E s \in Sessions : Created(s) \/ Ended(s) \/ Deleted(s) \/ Inserted(s, c)

(* c keeps its hands off what belongs to the other calls, their locks and   *)
(* what locks protect.                                                      *)
Only(c) ==
  \A d \in Calls \ {c} :
    /\ at'[d] = at[d] /\ asked'[d] = asked[d] /\ reply'[d] = reply[d] /\ view'[d] = view[d]
    /\ at[d] = "locked" =>
         lock'[Session(d)] = lock[Session(d)] /\ status'[Session(d)] = status[Session(d)]

(* Whatever c does to the tables, what is known of another call d stays.    *)
LEMMA OthersKept ==
  ASSUME PlaneInv, NEW c \in Calls, NEW d \in Calls, d # c, Changes(c), Only(c)
  PROVE  CallInv(d)'
<1> DEFINE s == Session(d)
<1>1. CallInv(d)  BY DEF PlaneInv
<1>2. UNCHANGED <<at[d], asked[d], reply[d], view[d]>>  BY DEF Only
<1>3. at[d] = "unused" \/ (asked[d] \in Request /\ s \in Sessions)
  BY <1>1 DEF CallInv, Request, Session
<1>4. CASE at[d] = "unused"
  BY <1>2, <1>4 DEF CallInv, HeldInv, DeletingInv, CommittedInv
<1>5. CASE at[d] # "unused"
  <2>1. s \in Sessions /\ asked[d] \in Request  BY <1>3, <1>5
  <2>2. status[s] # "none" => owner'[s] = owner[s] /\ status'[s] # "none"
    BY <2>1 DEF Changes, Created, Inserted, Ended, Deleted, PlaneInv, TypeOK
  <2>3. status[s] \in {"ended", "deleted"} => status'[s] \in {"ended", "deleted"}
    BY <2>1 DEF Changes, Created, Inserted, Ended, Deleted, PlaneInv, TypeOK
  <2>4. status[s] = "deleted" => status'[s] = "deleted"
    BY <2>1 DEF Changes, Created, Inserted, Ended, Deleted, PlaneInv, TypeOK
  <2>5. d \in rows[s] => d \in rows'[s] \/ status'[s] = "deleted"
    BY <2>1 DEF Changes, Created, Inserted, Ended, Deleted, PlaneInv, TypeOK
  <2>6. d \notin rows[s] => d \notin rows'[s]
    BY <2>1 DEF Changes, Created, Inserted, Ended, Deleted, PlaneInv, TypeOK
  <2>7. HeldInv(d)'
    BY <1>1, <1>2, <2>1, <2>2 DEF CallInv, HeldInv, Only, Session, Route
  <2>8. DeletingInv(d)'
    BY <1>1, <1>2, <2>1, <2>2, <2>3 DEF CallInv, DeletingInv, Session, Route
  <2>9. CommittedInv(d)'
    BY <1>1, <1>2, <2>1, <2>2, <2>3, <2>4, <2>5 DEF CallInv, CommittedInv, Session, Route
  <2>10. ASSUME at[d] = "answered" PROVE Fits(d, reply[d], view[d])'
    <3>1. Fits(d, reply[d], view[d])  BY <1>1, <2>10 DEF CallInv
    <3>2. QED
      BY <1>2, <2>1, <2>2, <2>3, <2>4, <2>5, <2>6, <3>1 DEF Fits, Session, Route
  <2>11. QED  BY <1>2, <2>1, <2>7, <2>8, <2>9, <2>10 DEF CallInv
<1>6. QED  BY <1>4, <1>5

-----------------------------------------------------------------------------
(* A step that only sends a reply, with or without letting go of the lock:  *)
(* what is left to show is that the reply holds.                            *)
LEMMA ReplyKeeps ==
  ASSUME PlaneInv, NEW c \in Calls, NEW code \in Nat, NEW shown \in SessionStatus \cup {None},
         at[c] \notin {"unused", "answered"},
         Shows(c, code, shown),
         lock' = lock \/ Unlocks(c),
         UNCHANGED <<status, owner, rows, asked>>,
         Fits(c, code, shown)
  PROVE  PlaneInv'
<1>1. TypeOK'  BY DEF PlaneInv, TypeOK, Shows, Enter, Unlocks
<1>2. at'[c] = "answered" /\ reply'[c] = code /\ view'[c] = shown
  BY DEF PlaneInv, TypeOK, Shows, Enter
<1>3. \A d \in Calls \ {c} : at'[d] = at[d] /\ reply'[d] = reply[d] /\ view'[d] = view[d]
  BY DEF PlaneInv, TypeOK, Shows, Enter
<1>4. Only(c)
  <2> SUFFICES ASSUME NEW d \in Calls \ {c}, at[d] = "locked"
               PROVE  lock'[Session(d)] = lock[Session(d)]
    BY <1>3 DEF Only
  <2>1. asked[d] \in Request /\ lock[Session(d)] = d
    BY DEF PlaneInv, CallInv, HeldInv
  <2>2. Session(d) \in Sessions  BY <2>1 DEF Session, Request
  <2>3. QED  BY <2>1, <2>2 DEF Unlocks
<1>5. \A d \in Calls : CallInv(d)'
  <2>1. CallInv(c)'
    <3>1. asked[c] \in Request  BY DEF PlaneInv, CallInv
    <3>2. Fits(c, reply[c], view[c])'  BY <1>2 DEF Fits, Session, Route
    <3>3. QED  BY <1>2, <3>1, <3>2 DEF CallInv, HeldInv, DeletingInv, CommittedInv
  <2>2. Changes(c)  BY DEF Changes
  <2>3. QED  BY <1>4, <2>1, <2>2, OthersKept
<1>6. \A s \in Sessions : RowInv(s)'
  BY <1>2, <1>3 DEF PlaneInv, RowInv, TypeOK, Session
<1>7. QED  BY <1>1, <1>5, <1>6 DEF PlaneInv

(* Any other step of c: its table change, its hands off, and c's own part.  *)
LEMMA StepKeeps ==
  ASSUME PlaneInv, NEW c \in Calls, TypeOK', Changes(c), Only(c), CallInv(c)',
         at[c] # "unused" => at'[c] # "unused" /\ asked'[c] = asked[c],
         at[c] \in {"committed", "answered"} => at'[c] \in {"committed", "answered"},
         \A s \in Sessions : Inserted(s, c) => at'[c] = "committed" /\ Session(c)' = s
  PROVE  PlaneInv'
<1>1. \A d \in Calls : CallInv(d)'  BY OthersKept
<1>2. ASSUME NEW s \in Sessions PROVE RowInv(s)'
  <2>1. RowInv(s)  BY DEF PlaneInv
  <2>2. ASSUME NEW d \in rows'[s]
        PROVE  at'[d] \in {"committed", "answered"} /\ Session(d)' = s
    <3>1. d \in Calls  BY <2>2 DEF PlaneInv, TypeOK
    <3>2. CASE d \in rows[s]
      BY <2>1, <3>1, <3>2 DEF RowInv, Only, Session
    <3>3. CASE d \notin rows[s]
      <4>1. Inserted(s, c) /\ d = c
        BY <2>2, <3>3 DEF Changes, Created, Ended, Deleted, Inserted, PlaneInv, TypeOK
      <4>2. QED  BY <4>1, <1>1 DEF Session, CallInv, PlaneInv, TypeOK
    <3>4. QED  BY <3>2, <3>3
  <2>3. status'[s] \in {"none", "deleted"} => rows'[s] = {}
    BY <2>1 DEF RowInv, Changes, Created, Ended, Deleted, Inserted, PlaneInv, TypeOK
  <2>4. QED  BY <2>2, <2>3 DEF RowInv
<1>3. QED  BY <1>1, <1>2 DEF PlaneInv

-----------------------------------------------------------------------------
(* What the handlers' guards say of a call                                  *)

LEMMA GateCodes ==
  ASSUME NEW r \in Request
  PROVE  Gate(r) \in {200, 401, 403, 413, 422}
BY DEF Gate, RequireUser, RequireAgent

LEMMA OnlyUsersPass ==
  ASSUME NEW r \in Request, Gate(r) = 200, r.route \in UserRoutes
  PROVE  r.who \in Users
BY DEF Gate, RequireUser

LEMMA Owned ==
  ASSUME NEW s, NEW u
  PROVE  /\ GetOwnedSession(s, u) \in {200, 403, 404}
         /\ GetOwnedSession(s, u) = 200 => Exists(s) /\ owner[s] = u
BY DEF GetOwnedSession

LEMMA NoRowYet ==
  ASSUME PlaneInv, NEW c \in Calls, at[c] \notin {"committed", "answered"}
  PROVE  \A s \in Sessions : c \notin rows[s]
BY DEF PlaneInv, RowInv

LEMMA AskedOf ==
  ASSUME PlaneInv, NEW c \in Calls, at[c] # "unused"
  PROVE  /\ asked[c] \in Request /\ Session(c) \in Sessions /\ Route(c) \in Routes
         /\ status[Session(c)] \in SessionStatus
BY DEF PlaneInv, CallInv, TypeOK, Request, Session, Route

-----------------------------------------------------------------------------
(* The steps, action by action                                              *)

LEMMA ReadSteps ==
  ASSUME PlaneInv, NEW c \in Calls,
         GetSession(c) \/ ListSessions(c) \/ GetSessionBootstrap(c) \/ MintToken(c)
  PROVE  PlaneInv'
<1> DEFINE s == Session(c)
<1>1. at[c] = "sent" /\ Gate(asked[c]) = 200
  BY DEF GetSession, ListSessions, GetSessionBootstrap, MintToken, Handles
<1>2. asked[c] \in Request /\ s \in Sessions /\ status[s] \in SessionStatus
  BY <1>1, AskedOf
<1>3. UNCHANGED <<status, owner, rows, lock, asked>>
  BY DEF GetSession, ListSessions, GetSessionBootstrap, MintToken, tables
<1>4. CASE GetSession(c)
  <2> DEFINE code == GetOwnedSession(s, asked[c].who)
             shown == IF code = 200 THEN status[s] ELSE None
  <2>1. Route(c) = "get" /\ Shows(c, code, shown)
    BY <1>4 DEF GetSession, Handles
  <2>2. code \in Nat /\ shown \in SessionStatus \cup {None}  BY <1>2, Owned
  <2>3. Fits(c, code, shown)
    BY <2>1, Owned DEF Fits, Exists, Ingest
  <2> HIDE DEF code, shown
  <2>4. QED  BY <1>1, <1>3, <2>1, <2>2, <2>3, ReplyKeeps
<1>5. CASE ListSessions(c)
  <2> DEFINE shown == IF GetOwnedSession(s, asked[c].who) = 200 THEN status[s] ELSE None
  <2>1. Route(c) = "list" /\ Shows(c, 200, shown)
    BY <1>5 DEF ListSessions, Handles
  <2>2. shown \in SessionStatus \cup {None}  BY <1>2
  <2>3. Fits(c, 200, shown)  BY <2>1, Owned DEF Fits, Ingest, Exists
  <2> HIDE DEF shown
  <2>4. QED  BY <1>1, <1>3, <2>1, <2>2, <2>3, ReplyKeeps
<1>6. CASE GetSessionBootstrap(c)
  <2>1. Route(c) = "bootstrap" /\ (Shows(c, 200, status[s]) \/ Shows(c, 404, None))
    BY <1>6 DEF GetSessionBootstrap, Handles, Answers
  <2>2. \A code \in {200, 404} : \A shown : Fits(c, code, shown)
    BY <2>1 DEF Fits, Ingest, UserRoutes
  <2>3. QED  BY <1>1, <1>2, <1>3, <2>1, <2>2, ReplyKeeps
<1>7. CASE MintToken(c)
  <2>1. /\ Route(c) = "token"
        /\ \E code \in {404, 403, 409, 201} :
             Shows(c, code, None) /\ (code = 201 => Exists(s) /\ owner[s] = asked[c].who)
    BY <1>7 DEF MintToken, Handles, Answers
  <2>2. PICK code \in {404, 403, 409, 201} :
          Shows(c, code, None) /\ (code = 201 => Exists(s) /\ owner[s] = asked[c].who)
    BY <2>1
  <2>3. Fits(c, code, None)
    BY <2>1, <2>2 DEF Fits, Ingest, Exists
  <2>4. QED  BY <1>1, <1>3, <2>2, <2>3, ReplyKeeps
<1>8. QED  BY <1>4, <1>5, <1>6, <1>7

LEMMA TurnedAway ==
  ASSUME PlaneInv, NEW c \in Calls, Turned(c) \/ SwellsEarly(c) \/ SwellsLate(c) \/ Fails(c)
  PROVE  PlaneInv'
<1>1. UNCHANGED <<status, owner, rows, asked>> /\ (lock' = lock \/ Unlocks(c))
  BY DEF Turned, SwellsEarly, SwellsLate, Fails, tables
<1>2. CASE Fails(c)
  <2>1. Shows(c, 500, None) /\ at[c] \notin {"unused", "answered"}
    BY <1>2 DEF Fails, Answers
  <2>2. Fits(c, 500, None)  BY DEF Fits
  <2>3. QED  BY <1>1, <2>1, <2>2, ReplyKeeps
<1>3. CASE Turned(c) \/ SwellsEarly(c) \/ SwellsLate(c)
  <2>1. at[c] \in {"sent", "locked"}
    BY <1>3 DEF Turned, SwellsEarly, SwellsLate, Handles
  <2>2. PICK code \in {401, 403, 413, 422} : Shows(c, code, None)
    BY <1>3, <2>1, AskedOf, GateCodes DEF Turned, SwellsEarly, SwellsLate, Answers
  <2>3. Fits(c, code, None)
    BY <2>1, <2>2, NoRowYet, AskedOf DEF Fits
  <2>4. QED  BY <1>1, <2>1, <2>2, <2>3, ReplyKeeps
<1>4. QED  BY <1>2, <1>3

LEMMA CreateStep ==
  ASSUME PlaneInv, NEW c \in Calls, CreateSession(c)
  PROVE  PlaneInv'
<1> DEFINE s == Session(c)
<1>1. /\ at[c] = "sent" /\ asked[c] \in Request /\ s \in Sessions
      /\ asked[c].who \in Users /\ Route(c) = "create" /\ status[s] = "none"
  BY AskedOf, OnlyUsersPass DEF CreateSession, Handles, UserRoutes, Route
<1>2. /\ status' = [status EXCEPT ![s] = "active"]
      /\ owner' = [owner EXCEPT ![s] = asked[c].who]
      /\ at' = [at EXCEPT ![c] = "committed"]
      /\ UNCHANGED <<rows, lock, asked, reply, view>>
  BY DEF CreateSession, Enter
<1>3. TypeOK'  BY <1>1, <1>2 DEF PlaneInv, TypeOK, SessionStatus
<1>4. Changes(c)  BY <1>1, <1>2 DEF Changes, Created
<1>5. Only(c)
  <2> SUFFICES ASSUME NEW d \in Calls \ {c}, at[d] = "locked"
               PROVE  status'[Session(d)] = status[Session(d)]
    BY <1>2 DEF Only, PlaneInv, TypeOK
  <2>1. status[Session(d)] = "active" /\ Session(d) \in Sessions
    BY AskedOf DEF PlaneInv, CallInv, HeldInv
  <2>2. QED  BY <1>1, <1>2, <2>1 DEF PlaneInv, TypeOK
<1>6. CallInv(c)'
  BY <1>1, <1>2 DEF PlaneInv, TypeOK, CallInv, HeldInv, DeletingInv, CommittedInv,
                    Session, Route, Ingest
<1>7. \A z \in Sessions : ~Inserted(z, c)
  BY <1>1, <1>2 DEF Inserted, PlaneInv, TypeOK
<1>8. QED  BY <1>1, <1>2, <1>3, <1>4, <1>5, <1>6, <1>7, StepKeeps

(* The two ways to the lock: the status is active and, for an end, the      *)
(* caller is the owner.                                                     *)
LEMMA LockStep ==
  ASSUME PlaneInv, NEW c \in Calls, at[c] = "sent",
         lock[Session(c)] = None, Locks(c), Enter(c, "locked"),
         status[Session(c)] = "active", Route(c) \in Ingest \cup {"end"},
         Route(c) = "end" => owner[Session(c)] = asked[c].who,
         UNCHANGED <<status, owner, rows, asked, reply, view>>
  PROVE  PlaneInv'
<1> DEFINE s == Session(c)
<1>1. asked[c] \in Request /\ s \in Sessions  BY AskedOf
<1>2. /\ lock' = [lock EXCEPT ![s] = c] /\ at' = [at EXCEPT ![c] = "locked"]
      /\ at \in [Calls -> {"unused", "sent", "locked", "deleting", "committed", "answered"}]
      /\ lock \in [Sessions -> Calls \cup {None}]
  BY DEF Locks, Enter, PlaneInv, TypeOK
<1>3. TypeOK'
  BY <1>2 DEF PlaneInv, TypeOK
<1>4. Only(c)
  <2> SUFFICES ASSUME NEW d \in Calls \ {c}, at[d] = "locked"
               PROVE  lock'[Session(d)] = lock[Session(d)]
    BY <1>2 DEF Only
  <2>1. lock[Session(d)] = d /\ Session(d) \in Sessions
    BY AskedOf DEF PlaneInv, CallInv, HeldInv
  <2>2. d # None  BY CallersAssumption
  <2>3. QED  BY <1>1, <1>2, <2>1, <2>2
<1>5. CallInv(c)'
  BY <1>1, <1>2 DEF CallInv, HeldInv, DeletingInv, CommittedInv, Session, Route
<1>6. Changes(c)  BY DEF Changes
<1>7. \A z \in Sessions : ~Inserted(z, c)
  <2> SUFFICES ASSUME NEW z \in Sessions, Inserted(z, c) PROVE FALSE  OBVIOUS
  <2>1. c \in rows[z]  BY DEF Inserted, PlaneInv, TypeOK
  <2>2. QED  BY <2>1, NoRowYet
<1>8. QED  BY <1>2, <1>3, <1>4, <1>5, <1>6, <1>7, StepKeeps

LEMMA IngestLocksStep ==
  ASSUME PlaneInv, NEW c \in Calls, IngestLocks(c)
  PROVE  PlaneInv'
<1>1. /\ at[c] = "sent" /\ Route(c) \in Ingest /\ lock[Session(c)] = None
      /\ UNCHANGED <<status, owner, rows, asked>>
  BY DEF IngestLocks, Handles, RequireActiveSession, Free
<1>2. CASE at'[c] = "locked"
  <2>1. Enter(c, "locked") /\ Locks(c) /\ UNCHANGED <<reply, view>> /\ status[Session(c)] = "active"
    BY <1>2 DEF IngestLocks, RequireActiveSession, Answers, Shows, Enter, PlaneInv, TypeOK
  <2>2. Route(c) # "end"  BY <1>1 DEF Ingest
  <2>3. QED  BY <1>1, <2>1, <2>2, LockStep
<1>3. CASE at'[c] # "locked"
  <2>1. PICK code \in {404, 409} : Answers(c, code) /\ lock' = lock
    BY <1>3 DEF IngestLocks, RequireActiveSession, Enter, PlaneInv, TypeOK
  <2>2. Fits(c, code, None)  BY <1>1, NoRowYet, AskedOf DEF Fits, Ingest
  <2>3. QED  BY <1>1, <2>1, <2>2, ReplyKeeps DEF Answers
<1>4. QED  BY <1>2, <1>3

LEMMA EndLocksStep ==
  ASSUME PlaneInv, NEW c \in Calls, EndSession(c)
  PROVE  PlaneInv'
<1> DEFINE s == Session(c)
<1>1. /\ at[c] = "sent" /\ Route(c) = "end" /\ lock[s] = None
      /\ UNCHANGED <<status, owner, rows, asked>>
  BY DEF EndSession, Handles, Free
<1>2. CASE at'[c] = "locked"
  <2>1. /\ Enter(c, "locked") /\ Locks(c) /\ UNCHANGED <<reply, view>>
        /\ status[s] = "active" /\ owner[s] = asked[c].who
    BY <1>2 DEF EndSession, Exists, Answers, Shows, Enter, PlaneInv, TypeOK
  <2>2. QED  BY <1>1, <2>1, LockStep
<1>3. CASE at'[c] # "locked"
  <2>1. /\ lock' = lock
        /\ \/ \E code \in {404, 403} : Shows(c, code, None)
           \/ Shows(c, 200, "ended") /\ status[s] = "ended" /\ owner[s] = asked[c].who
    BY <1>3 DEF EndSession, Enter, Answers, PlaneInv, TypeOK
  <2>2. CASE Shows(c, 200, "ended") /\ status[s] = "ended" /\ owner[s] = asked[c].who
    <3>1. Fits(c, 200, "ended")  BY <1>1, <2>2 DEF Fits, Ingest
    <3>2. QED  BY <1>1, <2>1, <2>2, <3>1, ReplyKeeps DEF SessionStatus
  <2>3. CASE \E code \in {404, 403} : Shows(c, code, None)
    <3>1. PICK code \in {404, 403} : Shows(c, code, None)  BY <2>3
    <3>2. Fits(c, code, None)  BY <1>1, <3>1 DEF Fits, Ingest
    <3>3. QED  BY <1>1, <2>1, <3>1, <3>2, ReplyKeeps
  <2>4. QED  BY <2>1, <2>2, <2>3
<1>4. QED  BY <1>2, <1>3

LEMMA StoresStep ==
  ASSUME PlaneInv, NEW c \in Calls,
         AppendSessionEvent(c) \/ AppendBrainSnapshot(c) \/ AppendCanvasSnapshot(c)
  PROVE  PlaneInv' /\ Inserted(Session(c), c)
<1> DEFINE s == Session(c)
<1>1. /\ at[c] = "locked" /\ Route(c) \in Ingest /\ Stores(c)
      /\ asked[c] \in Request /\ s \in Sessions /\ status[s] = "active"
  BY AskedOf DEF AppendSessionEvent, AppendBrainSnapshot, AppendCanvasSnapshot, Ingest,
                 PlaneInv, CallInv, HeldInv
<1>2. /\ rows' = [rows EXCEPT ![s] = @ \cup {c}] /\ rows \in [Sessions -> SUBSET Calls]
      /\ at' = [at EXCEPT ![c] = "committed"]
      /\ UNCHANGED <<status, owner, asked, reply, view>>
      /\ at \in [Calls -> {"unused", "sent", "locked", "deleting", "committed", "answered"}]
  BY <1>1 DEF Stores, Enter, PlaneInv, TypeOK
<1>3. TypeOK'
  BY <1>1, <1>2 DEF Stores, Unlocks, PlaneInv, TypeOK
<1>4. Only(c)
  <2> SUFFICES ASSUME NEW d \in Calls \ {c}, at[d] = "locked"
               PROVE  lock'[Session(d)] = lock[Session(d)]
    BY <1>2 DEF Only
  <2>1. lock[Session(d)] = d /\ Session(d) \in Sessions
    BY AskedOf DEF PlaneInv, CallInv, HeldInv
  <2>2. QED  BY <1>1, <2>1 DEF Stores, Unlocks
<1>5. Inserted(s, c)  BY <1>1, <1>2 DEF Inserted
<1>6. CallInv(c)'
  <2>1. Route(c) \notin {"end", "create"}  BY <1>1 DEF Ingest
  <2>2. c \in rows'[s]  BY <1>1, <1>2
  <2>3. QED
    BY <1>1, <1>2, <2>1, <2>2 DEF CallInv, HeldInv, DeletingInv, CommittedInv, Session, Route
<1>7. Changes(c)  BY <1>1, <1>5 DEF Changes
<1>8. ASSUME NEW z \in Sessions, Inserted(z, c) PROVE Session(c)' = z
  <2>1. c \in rows'[z]  BY <1>8 DEF Inserted, PlaneInv, TypeOK
  <2>2. c \notin rows[z]  BY <1>1, NoRowYet
  <2>3. QED  BY <1>1, <1>2, <2>1, <2>2 DEF Session
<1>9. QED  BY <1>2, <1>3, <1>4, <1>5, <1>6, <1>7, <1>8, StepKeeps

LEMMA EndStep ==
  ASSUME PlaneInv, NEW c \in Calls, EndCommits(c)
  PROVE  PlaneInv' /\ Ended(Session(c))
<1> DEFINE s == Session(c)
<1>1. /\ at[c] = "locked" /\ Route(c) = "end" /\ lock[s] = c
      /\ asked[c] \in Request /\ s \in Sessions /\ status[s] = "active"
      /\ owner[s] = asked[c].who
  BY AskedOf DEF EndCommits, PlaneInv, CallInv, HeldInv
<1>2. /\ status' = [status EXCEPT ![s] = "ended"] /\ status \in [Sessions -> SessionStatus]
      /\ at' = [at EXCEPT ![c] = "committed"]
      /\ lock' = [z \in Sessions |-> IF lock[z] = c THEN None ELSE lock[z]]
      /\ UNCHANGED <<rows, owner, asked, reply, view>>
      /\ at \in [Calls -> {"unused", "sent", "locked", "deleting", "committed", "answered"}]
  BY DEF EndCommits, Unlocks, Enter, PlaneInv, TypeOK
<1>3. TypeOK'  BY <1>1, <1>2 DEF PlaneInv, TypeOK, SessionStatus
<1>4. Only(c)
  <2> SUFFICES ASSUME NEW d \in Calls \ {c}, at[d] = "locked"
               PROVE  /\ lock'[Session(d)] = lock[Session(d)]
                      /\ status'[Session(d)] = status[Session(d)]
    BY <1>2 DEF Only
  <2>1. lock[Session(d)] = d /\ Session(d) \in Sessions
    BY AskedOf DEF PlaneInv, CallInv, HeldInv
  <2>2. QED  BY <1>1, <1>2, <2>1
<1>5. Ended(s)  BY <1>1, <1>2 DEF Ended
<1>6. CallInv(c)'
  BY <1>1, <1>2 DEF CallInv, HeldInv, DeletingInv, CommittedInv, Session, Route, Ingest
<1>7. Changes(c)  BY <1>1, <1>5 DEF Changes
<1>8. \A z \in Sessions : ~Inserted(z, c)
  BY <1>1, <1>2 DEF Inserted
<1>9. QED  BY <1>2, <1>3, <1>4, <1>5, <1>6, <1>7, <1>8, StepKeeps

LEMMA DeleteChecks ==
  ASSUME PlaneInv, NEW c \in Calls, DeleteSession(c)
  PROVE  PlaneInv'
<1> DEFINE s == Session(c)
<1>1. /\ at[c] = "sent" /\ Route(c) = "delete" /\ s \in Sessions /\ asked[c] \in Request
      /\ UNCHANGED <<status, owner, rows, lock, asked>>
  BY AskedOf DEF DeleteSession, Handles, tables
<1>2. CASE at'[c] = "deleting"
  <2>1. /\ at' = [at EXCEPT ![c] = "deleting"] /\ UNCHANGED <<reply, view>>
        /\ status[s] = "ended" /\ owner[s] = asked[c].who
    BY <1>2, Owned DEF DeleteSession, MayDelete, Exists, Answers, Shows, Enter, PlaneInv, TypeOK
  <2>2. TypeOK'  BY <1>1, <2>1 DEF PlaneInv, TypeOK
  <2>3. Only(c) /\ Changes(c)
    BY <1>1, <2>1 DEF Only, Changes, PlaneInv, TypeOK
  <2>4. CallInv(c)'
    BY <1>1, <1>2, <2>1 DEF CallInv, HeldInv, DeletingInv, CommittedInv, Session, Route
  <2>5. \A z \in Sessions : ~Inserted(z, c)
    <3> SUFFICES ASSUME NEW z \in Sessions, Inserted(z, c) PROVE FALSE  OBVIOUS
    <3>1. c \in rows[z]  BY <1>1 DEF Inserted, PlaneInv, TypeOK
    <3>2. QED  BY <1>1, <3>1, NoRowYet
  <2>6. QED  BY <1>1, <1>2, <2>2, <2>3, <2>4, <2>5, StepKeeps
<1>3. CASE at'[c] # "deleting"
  <2>1. \E code \in {403, 404, 409} : Shows(c, code, None)
    BY <1>3, Owned DEF DeleteSession, Enter, Answers, PlaneInv, TypeOK
  <2>2. PICK code \in {403, 404, 409} : Shows(c, code, None)  BY <2>1
  <2>3. Fits(c, code, None)  BY <1>1, <2>2 DEF Fits, Ingest
  <2>4. QED  BY <1>1, <2>2, <2>3, ReplyKeeps
<1>4. QED  BY <1>2, <1>3

LEMMA DeleteStep ==
  ASSUME PlaneInv, NEW c \in Calls, DeleteCommits(c)
  PROVE  PlaneInv' /\ Deleted(Session(c))
<1> DEFINE s == Session(c)
<1>1. /\ at[c] = "deleting" /\ Route(c) = "delete" /\ lock[s] = None
      /\ asked[c] \in Request /\ s \in Sessions /\ status[s] \in {"ended", "deleted"}
      /\ owner[s] = asked[c].who
  BY AskedOf DEF DeleteCommits, Free, PlaneInv, CallInv, DeletingInv
<1>2. /\ status' = [status EXCEPT ![s] = "deleted"] /\ status \in [Sessions -> SessionStatus]
      /\ rows' = [rows EXCEPT ![s] = {}] /\ rows \in [Sessions -> SUBSET Calls]
      /\ at' = [at EXCEPT ![c] = "answered"]
      /\ reply' = [reply EXCEPT ![c] = 204] /\ view' = [view EXCEPT ![c] = None]
      /\ UNCHANGED <<owner, lock, asked>>
  BY DEF DeleteCommits, Answers, Shows, Enter, PlaneInv, TypeOK
<1>3. TypeOK'  BY <1>1, <1>2 DEF PlaneInv, TypeOK, SessionStatus
<1>4. \A d \in Calls : at[d] = "locked" => Session(d) # s
  BY <1>1 DEF PlaneInv, CallInv, HeldInv
<1>5. Only(c)
  <2> SUFFICES ASSUME NEW d \in Calls \ {c}, at[d] = "locked"
               PROVE  status'[Session(d)] = status[Session(d)]
    BY <1>2 DEF Only, PlaneInv, TypeOK
  <2>1. Session(d) \in Sessions  BY AskedOf
  <2>2. QED  BY <1>1, <1>2, <1>4, <2>1
<1>6. Deleted(s)  BY <1>1, <1>2, <1>4 DEF Deleted
<1>7. CallInv(c)'
  <2>1. at'[c] = "answered" /\ reply'[c] = 204 /\ status'[s] = "deleted"
    BY <1>1, <1>2 DEF PlaneInv, TypeOK
  <2>2. Fits(c, reply[c], view[c])'
    BY <1>1, <1>2, <2>1 DEF Fits, Session, Route, Ingest
  <2>3. QED  BY <1>1, <1>2, <2>1, <2>2 DEF CallInv, HeldInv, DeletingInv, CommittedInv
<1>8. Changes(c)  BY <1>1, <1>6 DEF Changes
<1>9. \A z \in Sessions : ~Inserted(z, c)
  <2> SUFFICES ASSUME NEW z \in Sessions, Inserted(z, c) PROVE FALSE  OBVIOUS
  <2>1. z # s /\ c \in rows'[z]  BY <1>1, <1>2 DEF Inserted
  <2>2. c \in rows[z]  BY <1>1, <1>2, <2>1
  <2>3. QED  BY <1>1, <2>2, NoRowYet
<1>10. QED
  BY <1>1, <1>2, <1>3, <1>5, <1>6, <1>7, <1>8, <1>9, StepKeeps DEF PlaneInv, TypeOK

LEMMA ReplyAfterCommit ==
  ASSUME PlaneInv, NEW c \in Calls, Responds(c)
  PROVE  PlaneInv'
<1> DEFINE s == Session(c)
<1>1. /\ at[c] = "committed" /\ CommittedInv(c)
      /\ UNCHANGED <<status, owner, rows, lock, asked>>
      /\ status[s] \in SessionStatus
  BY AskedOf DEF Responds, tables, PlaneInv, CallInv
<1>2. CASE ~Exists(s)
  <2>1. Shows(c, 500, None)  BY <1>2 DEF Responds, Answers
  <2>2. Fits(c, 500, None)  BY DEF Fits
  <2>3. QED  BY <1>1, <2>1, <2>2, ReplyKeeps
<1>3. CASE Exists(s) /\ Route(c) \in Ingest
  <2>1. Shows(c, 201, None)  BY <1>3 DEF Responds, Success, Answers, Ingest
  <2>2. Fits(c, 201, None)
    BY <1>1, <1>3 DEF Fits, CommittedInv, Exists, Ingest, UserRoutes
  <2>3. QED  BY <1>1, <2>1, <2>2, ReplyKeeps
<1>4. CASE Exists(s) /\ Route(c) \notin Ingest
  <2>1. Shows(c, Success(c), status[s]) /\ Success(c) \in {200, 201}
    BY <1>4 DEF Responds, Success
  <2>2. Fits(c, Success(c), status[s])
    BY <1>1, <1>4 DEF Fits, CommittedInv, Exists, Success
  <2>3. QED  BY <1>1, <2>1, <2>2, ReplyKeeps
<1>5. QED  BY <1>2, <1>3, <1>4

LEMMA SendStep ==
  ASSUME PlaneInv, NEW c \in Calls, NEW r \in Request, Send(c, r)
  PROVE  PlaneInv'
<1>1. /\ at[c] = "unused" /\ at' = [at EXCEPT ![c] = "sent"]
      /\ asked' = [asked EXCEPT ![c] = r]
      /\ UNCHANGED <<status, owner, rows, lock, reply, view>>
  BY DEF Send, Enter, tables
<1>2. TypeOK' /\ Only(c) /\ Changes(c)
  BY <1>1 DEF PlaneInv, TypeOK, Only, Changes
<1>3. CallInv(c)'
  BY <1>1 DEF CallInv, HeldInv, DeletingInv, CommittedInv, PlaneInv, TypeOK
<1>4. \A z \in Sessions : ~Inserted(z, c)
  <2> SUFFICES ASSUME NEW z \in Sessions, Inserted(z, c) PROVE FALSE  OBVIOUS
  <2>1. c \in rows[z]  BY <1>1 DEF Inserted, PlaneInv, TypeOK
  <2>2. QED  BY <1>1, <2>1, NoRowYet
<1>5. QED  BY <1>1, <1>2, <1>3, <1>4, StepKeeps

-----------------------------------------------------------------------------
LEMMA InitInv == Init => PlaneInv
BY DEF Init, PlaneInv, TypeOK, CallInv, HeldInv, DeletingInv, CommittedInv, RowInv,
       SessionStatus

LEMMA HandlerKeeps ==
  ASSUME PlaneInv, NEW c \in Calls, Handler(c)
  PROVE  PlaneInv'
BY ReadSteps, TurnedAway, CreateStep, IngestLocksStep, StoresStep, EndLocksStep, EndStep,
   DeleteChecks, DeleteStep, ReplyAfterCommit DEF Handler

LEMMA NextInv == PlaneInv /\ [Next]_vars => PlaneInv'
<1> SUFFICES ASSUME PlaneInv, [Next]_vars PROVE PlaneInv'  OBVIOUS
<1>1. ASSUME NEW c \in Calls, Handler(c) PROVE PlaneInv'  BY <1>1, HandlerKeeps
<1>2. ASSUME NEW c \in Calls, NEW r \in Request, Send(c, r) PROVE PlaneInv'
  BY <1>2, SendStep
<1>3. CASE UNCHANGED vars
  BY <1>3 DEF vars, tables, PlaneInv, TypeOK, CallInv, HeldInv, DeletingInv, CommittedInv,
              Fits, RowInv, Session, Route
<1>4. QED  BY <1>1, <1>2, <1>3 DEF Next

(* Whatever handlers interleave, what a call knows of its session stays     *)
(* true: the lock's holder of the status, a deletion of its unlocked check, *)
(* a reply of what it reported.                                             *)
THEOREM PlaneInvariant == Spec => []PlaneInv
BY InitInv, NextInv, PTL DEF Spec

(* Every variable of the control plane stays in its type, for any number of *)
(* sessions, users and calls (models/session.py:14-50).                     *)
THEOREM ControlTypeCorrect == Spec => []TypeOK
<1>1. PlaneInv => TypeOK  BY DEF PlaneInv
<1>2. QED  BY <1>1, PlaneInvariant, PTL

(* The replies of routes/sessions.py hold for good.                         *)
THEOREM RepliesHold == Spec => []AnswersHold
<1>1. PlaneInv => AnswersHold
  BY DEF PlaneInv, CallInv, Fits, AnswersHold, AnswerHolds
<1>2. QED  BY <1>1, PlaneInvariant, PTL

(* services/sessions.py:75-98: nobody else acts on or is shown a session.   *)
THEOREM OwnersOnly == Spec => []OnlyTheOwner
<1>1. PlaneInv => OnlyTheOwner
  BY DEF PlaneInv, CallInv, Fits, OnlyTheOwner
<1>2. QED  BY <1>1, PlaneInvariant, PTL

-----------------------------------------------------------------------------
LEMMA HandlerRefines ==
  ASSUME PlaneInv, NEW c \in Calls, Handler(c)
  PROVE  [Abstract!Next]_<<status, rows>>
<1> DEFINE s == Session(c)
<1>1. at[c] # "unused"
  BY DEF Handler, Turned, GetSession, ListSessions, GetSessionBootstrap, MintToken,
         CreateSession, SwellsEarly, IngestLocks, SwellsLate, AppendSessionEvent,
         AppendBrainSnapshot, AppendCanvasSnapshot, EndSession, EndCommits, DeleteSession,
         DeleteCommits, Responds, Fails, Handles
<1>2. s \in Sessions  BY <1>1, AskedOf
<1>3. CASE CreateSession(c)
  <2>1. Abstract!Create(s)
    BY <1>3 DEF CreateSession, Abstract!Create, Abstract!Become
  <2>2. QED  BY <1>2, <2>1 DEF Abstract!Next
<1>4. CASE AppendSessionEvent(c) \/ AppendBrainSnapshot(c) \/ AppendCanvasSnapshot(c)
  <2>1. Inserted(s, c)  BY <1>4, StoresStep
  <2>2. \A t \in Sessions : c \notin rows[t]
    BY <1>4, NoRowYet DEF AppendSessionEvent, AppendBrainSnapshot, AppendCanvasSnapshot
  <2>3. Abstract!Append(s, c)  BY <2>1, <2>2 DEF Inserted, Abstract!Append
  <2>4. QED  BY <1>2, <2>3 DEF Abstract!Next
<1>5. CASE EndCommits(c)
  <2>1. Ended(s)  BY <1>5, EndStep
  <2>2. Abstract!End(s)  BY <2>1 DEF Ended, Abstract!End, Abstract!Become
  <2>3. QED  BY <1>2, <2>2 DEF Abstract!Next
<1>6. CASE DeleteCommits(c)
  <2>1. Deleted(s)  BY <1>6, DeleteStep
  <2>2. CASE status[s] = "ended"
    <3>1. Abstract!Delete(s)  BY <2>1, <2>2 DEF Deleted, Abstract!Delete, Abstract!Become
    <3>2. QED  BY <1>2, <3>1 DEF Abstract!Next
  <2>3. CASE status[s] = "deleted"
    <3>1. rows[s] = {}  BY <1>2, <2>3 DEF PlaneInv, RowInv
    <3>2. UNCHANGED <<status, rows>>
      BY <1>2, <2>1, <2>3, <3>1 DEF Deleted, PlaneInv, TypeOK
    <3>3. QED  BY <3>2
  <2>4. QED  BY <2>1, <2>2, <2>3 DEF Deleted
<1>7. CASE UNCHANGED <<status, rows>>  BY <1>7
<1>8. QED
  BY <1>3, <1>4, <1>5, <1>6, <1>7
  DEF Handler, Turned, GetSession, ListSessions, GetSessionBootstrap, MintToken,
      SwellsEarly, IngestLocks, SwellsLate, EndSession, DeleteSession, Responds, Fails, tables

(* ControlPlane implements Ledger: rows are only stored while their session *)
(* is active, it ends once, and only an ended one is deleted                *)
(* (routes/sessions.py:60-65, :228-229, :262-265).                          *)
THEOREM LedgerImplemented == Spec => ImplementsLedger
<1>1. Init => Abstract!Init  BY DEF Init, Abstract!Init
<1>2. PlaneInv /\ [Next]_vars => [Abstract!Next]_<<status, rows>>
  <2> SUFFICES ASSUME PlaneInv, [Next]_vars PROVE [Abstract!Next]_<<status, rows>>  OBVIOUS
  <2>1. ASSUME NEW c \in Calls, Handler(c) PROVE [Abstract!Next]_<<status, rows>>
    BY <2>1, HandlerRefines
  <2>2. CASE \E c \in Calls, r \in Request : Send(c, r)
    BY <2>2 DEF Send, tables
  <2>3. CASE UNCHANGED vars  BY <2>3 DEF vars, tables
  <2>4. QED  BY <2>1, <2>2, <2>3 DEF Next
<1>3. QED
  BY <1>1, <1>2, PlaneInvariant, PTL
  DEF Spec, ImplementsLedger, Abstract!Spec, Abstract!ledger

-----------------------------------------------------------------------------
(* IngestDelivery                                                            *)

Closed(code) == code = 201 \/ code \in 400 .. 499

(* The attempts of p are its own calls, and the ones before the last were   *)
(* answered with neither 201 nor 4xx, as long as none was lost.             *)
AttemptInv(p) ==
  /\ result[p] \in {"none", "pending", "backoff", "true", "false"}
  /\ (result[p] = "none") <=> (attempt[p] = 0)
  /\ attempt[p] \in 0 .. MaxAttempts
  /\ \A k \in 1 .. attempt[p] : at[<<p, k>>] # "unused" /\ Route(<<p, k>>) \in Ingest
  /\ result[p] = "true" => at[Attempt(p)] = "answered" /\ reply[Attempt(p)] = 201
  /\ ~lost[p] => \A k \in 1 .. attempt[p] :
       k < attempt[p] \/ result[p] = "backoff" =>
         at[<<p, k>>] = "answered" /\ ~Closed(reply[<<p, k>>])

ClientTypes ==
  /\ DOMAIN attempt = Payloads /\ DOMAIN result = Payloads
  /\ lost \in [Payloads -> BOOLEAN]

ClientInv == ClientTypes /\ \A p \in Payloads : AttemptInv(p)

DeliveryInv == PlaneInv /\ ClientInv

-----------------------------------------------------------------------------
LEMMA AttemptsAreCalls ==
  ASSUME NEW p \in Payloads, NEW k \in 1 .. MaxAttempts
  PROVE  <<p, k>> \in Calls
BY DeliveryAssumption

(* A call that was made stays made, and one that was answered keeps its     *)
(* answer.                                                                  *)
Moves(c) ==
  /\ at[c] # "unused" => at'[c] # "unused" /\ asked'[c] = asked[c]
  /\ at[c] = "answered" => at'[c] = "answered" /\ reply'[c] = reply[c]

LEMMA HandlerMoves ==
  ASSUME PlaneInv, NEW c \in Calls, NEW d \in Calls, Handler(d)
  PROVE  Moves(c)
<1>1. /\ at[d] \notin {"unused", "answered"} /\ asked' = asked
      /\ \/ \E stage \in {"locked", "deleting", "committed"} :
              Enter(d, stage) /\ reply' = reply
         \/ \E code, shown : Shows(d, code, shown)
  BY DEF Handler, Turned, GetSession, ListSessions, GetSessionBootstrap, MintToken,
         CreateSession, SwellsEarly, IngestLocks, RequireActiveSession, SwellsLate,
         AppendSessionEvent, AppendBrainSnapshot, AppendCanvasSnapshot, Stores, EndSession,
         EndCommits, DeleteSession, DeleteCommits, Responds, Fails, Handles, Answers
<1>2. QED
  BY <1>1 DEF Moves, Enter, Shows, PlaneInv, TypeOK

LEMMA SendMoves ==
  ASSUME PlaneInv, NEW c \in Calls, NEW d \in Calls, NEW r \in Request, Send(d, r)
  PROVE  Moves(c)
BY DEF Moves, Send, Enter, PlaneInv, TypeOK

(* What a step of the calls leaves of a payload whose append is not moved.  *)
LEMMA PayloadKept ==
  ASSUME DeliveryInv, NEW p \in Payloads, \A c \in Calls : Moves(c),
         UNCHANGED <<attempt[p], result[p], lost[p]>>
  PROVE  AttemptInv(p)'
<1>1. AttemptInv(p)  BY DEF DeliveryInv, ClientInv
<1>2. MaxAttempts \in Nat  BY DeliveryAssumption
<1>3. \A k \in 1 .. attempt[p] : <<p, k>> \in Calls
  BY <1>1, <1>2, AttemptsAreCalls DEF AttemptInv
<1>4. ASSUME NEW k \in 1 .. attempt[p]
      PROVE  /\ at'[<<p, k>>] # "unused" /\ Route(<<p, k>>)' \in Ingest
             /\ at[<<p, k>>] = "answered" =>
                  at'[<<p, k>>] = "answered" /\ reply'[<<p, k>>] = reply[<<p, k>>]
  BY <1>1, <1>3 DEF AttemptInv, Moves, Route, Ingest
<1>5. result[p] = "true" => attempt[p] \in 1 .. attempt[p]
  BY <1>1, <1>2 DEF AttemptInv
<1>6. QED  BY <1>1, <1>4, <1>5 DEF AttemptInv, Attempt, Closed

(* A handler's step, or a user's request.                                   *)
LEMMA PlaneStep ==
  ASSUME DeliveryInv, NEW d \in Calls, UNCHANGED client,
         Handler(d) \/ \E r \in Request : Send(d, r)
  PROVE  DeliveryInv'
<1>1. PlaneInv'  BY HandlerKeeps, SendStep DEF DeliveryInv
<1>2. \A c \in Calls : Moves(c)  BY HandlerMoves, SendMoves DEF DeliveryInv
<1>3. \A p \in Payloads : UNCHANGED <<attempt[p], result[p], lost[p]>>  BY DEF client
<1>4. \A p \in Payloads : AttemptInv(p)'  BY <1>2, <1>3, PayloadKept
<1>5. ClientTypes'  BY DEF DeliveryInv, ClientInv, ClientTypes, client
<1>6. QED  BY <1>1, <1>4, <1>5 DEF DeliveryInv, ClientInv

(* A new attempt.                                                           *)
LEMMA SendsKeeps ==
  ASSUME DeliveryInv, NEW p \in Payloads, NEW r \in Request, r.route \in Ingest,
         result[p] \in {"none", "backoff"}, attempt[p] < MaxAttempts,
         Sends(p, r), UNCHANGED lost
  PROVE  DeliveryInv'
<1> DEFINE n == attempt[p] + 1
<1>1. MaxAttempts \in Nat \ {0}  BY DeliveryAssumption
<1>2. AttemptInv(p) /\ ClientTypes  BY DEF DeliveryInv, ClientInv
<1>3. attempt[p] \in Nat /\ n \in 1 .. MaxAttempts /\ <<p, n>> \in Calls
  BY <1>1, <1>2, AttemptsAreCalls DEF AttemptInv
<1>4. Send(<<p, n>>, r) /\ attempt'[p] = n /\ result'[p] = "pending"
  BY <1>2 DEF Sends, ClientTypes
<1>5. PlaneInv'  BY <1>3, <1>4, SendStep DEF DeliveryInv
<1>6. \A c \in Calls : Moves(c)  BY <1>3, <1>4, SendMoves DEF DeliveryInv
<1>7. AttemptInv(p)'
  <2>1. \A k : k = n => at'[<<p, k>>] = "sent" /\ Route(<<p, k>>)' = r.route
    <3>1. \A c \in Calls : Send(c, r) => at'[c] = "sent" /\ asked'[c] = r
      BY DEF Send, Enter, DeliveryInv, PlaneInv, TypeOK
    <3>2. at'[<<p, n>>] = "sent" /\ asked'[<<p, n>>] = r  BY <1>3, <1>4, <3>1
    <3>3. QED  BY <3>2 DEF Route
  <2>2. ASSUME NEW k \in 1 .. attempt[p]
        PROVE  /\ at'[<<p, k>>] # "unused" /\ Route(<<p, k>>)' \in Ingest
               /\ at[<<p, k>>] = "answered" =>
                    at'[<<p, k>>] = "answered" /\ reply'[<<p, k>>] = reply[<<p, k>>]
    <3>1. <<p, k>> \in Calls  BY <1>1, <1>2, <1>3, AttemptsAreCalls DEF AttemptInv
    <3>2. QED  BY <1>2, <1>6, <3>1 DEF AttemptInv, Moves, Route, Ingest
  <2>3. ASSUME ~lost[p], NEW k \in 1 .. attempt[p]
        PROVE  at'[<<p, k>>] = "answered" /\ ~Closed(reply'[<<p, k>>])
    <3>1. k < attempt[p] \/ result[p] = "backoff"
      BY <1>2, <1>3, <2>3 DEF AttemptInv
    <3>2. QED  BY <1>2, <2>2, <2>3, <3>1 DEF AttemptInv
  <2>4. \A k \in 1 .. n : k = n \/ k \in 1 .. attempt[p]  BY <1>3
  <2>5. QED  BY <1>3, <1>4, <2>1, <2>2, <2>3, <2>4 DEF AttemptInv, Closed
<1>8. \A q \in Payloads \ {p} : AttemptInv(q)'
  <2>1. \A q \in Payloads \ {p} : UNCHANGED <<attempt[q], result[q], lost[q]>>
    BY <1>2 DEF Sends, ClientTypes
  <2>2. QED  BY <1>6, <2>1, PayloadKept
<1>9. ClientTypes'
  <2>1. DOMAIN attempt' = Payloads /\ DOMAIN result' = Payloads
    BY <1>2 DEF ClientTypes, Sends
  <2>2. lost' \in [Payloads -> BOOLEAN]  BY <1>2 DEF ClientTypes
  <2>3. QED  BY <2>1, <2>2 DEF ClientTypes
<1>10. QED  BY <1>5, <1>7, <1>8, <1>9 DEF DeliveryInv, ClientInv

(* append() hears the answer, or waits no longer.                           *)
LEMMA HearsKeeps ==
  ASSUME DeliveryInv, NEW p \in Payloads, Hears(p)
  PROVE  DeliveryInv'
<1>1. AttemptInv(p) /\ ClientTypes /\ MaxAttempts \in Nat \ {0}
  BY DeliveryAssumption DEF DeliveryInv, ClientInv
<1>2. /\ result[p] = "pending" /\ UNCHANGED <<vars, attempt>>
      /\ attempt[p] \in Nat \ {0}
  BY <1>1 DEF Hears, Receives, TimesOut, AttemptInv
<1>3. \E r \in {"true", "false", "backoff"} : result' = [result EXCEPT ![p] = r]
  BY DEF Hears, Receives, TimesOut, FailsAttempt, Returns
<1>4. ClientTypes'
  BY <1>1, <1>2, <1>3 DEF ClientTypes, Hears, Receives, TimesOut
<1>5. PlaneInv'
  BY <1>2 DEF vars, tables, DeliveryInv, PlaneInv, TypeOK, CallInv, HeldInv, DeletingInv,
              CommittedInv, Fits, RowInv, Session, Route
<1>6. UNCHANGED <<at, asked, reply>>  BY <1>2 DEF vars
<1>7. AttemptInv(p)'
  <2>1. CASE TimesOut(p)
    <3>1. lost'[p] = TRUE /\ result'[p] \in {"false", "backoff"}
      BY <1>1, <2>1 DEF TimesOut, FailsAttempt, Returns, ClientTypes
    <3>2. QED  BY <1>1, <1>2, <1>6, <3>1 DEF AttemptInv, Route
  <2>2. CASE Receives(p)
    <3> DEFINE code == reply[Attempt(p)]
    <3>1. at[Attempt(p)] = "answered" /\ lost' = lost
      BY <2>2 DEF Receives
    <3>2. /\ result'[p] \in {"true", "false", "backoff"}
          /\ result'[p] = "true" => code = 201
          /\ result'[p] = "backoff" => ~Closed(code)
      BY <1>1, <2>2 DEF Receives, Accepted, FailsAttempt, Returns, Closed, ClientTypes
    <3>3. \A k \in 1 .. attempt[p] : k < attempt[p] \/ <<p, k>> = Attempt(p)
      BY <1>2 DEF Attempt
    <3>4. QED
      BY <1>1, <1>2, <1>6, <3>1, <3>2, <3>3 DEF AttemptInv, Attempt, Route, Closed
  <2>3. QED  BY <2>1, <2>2 DEF Hears
<1>8. \A q \in Payloads \ {p} : AttemptInv(q)'
  <2>1. \A c \in Calls : Moves(c)  BY <1>6 DEF Moves
  <2>2. \A q \in Payloads \ {p} : UNCHANGED <<attempt[q], result[q], lost[q]>>
    BY <1>1, <1>2, <1>3 DEF ClientTypes, Hears, Receives, TimesOut
  <2>3. QED  BY <2>1, <2>2, PayloadKept
<1>9. QED  BY <1>4, <1>5, <1>7, <1>8 DEF DeliveryInv, ClientInv

-----------------------------------------------------------------------------
LEMMA DeliversSends ==
  ASSUME DeliveryInv, NEW p \in Payloads, Delivers(p)
  PROVE  \E r \in Request :
           /\ r.route \in Ingest /\ Sends(p, r) /\ UNCHANGED lost
           /\ result[p] \in {"none", "backoff"} /\ attempt[p] < MaxAttempts
<1>1. AttemptInv(p) /\ MaxAttempts \in Nat \ {0}
  BY DeliveryAssumption DEF DeliveryInv, ClientInv
<1>2. \A s \in Sessions, route \in Ingest, shape \in Shapes :
        FromAgent(s, route, shape) \in Request /\ FromAgent(s, route, shape).route \in Ingest
  BY DEF FromAgent, Request, Routes, Callers
<1>3. CASE AppendEvent(p) \/ AppendSnapshot(p) \/ AppendScene(p)
  <2>1. \E s \in Sessions, route \in Ingest, shape \in Shapes :
          Sends(p, FromAgent(s, route, shape))
    BY <1>3 DEF AppendEvent, AppendSnapshot, AppendScene, Ingest, Shapes
  <2>2. result[p] = "none" /\ UNCHANGED lost
    BY <1>3 DEF AppendEvent, AppendSnapshot, AppendScene, Begins
  <2>3. attempt[p] = 0  BY <1>1, <2>2 DEF AttemptInv
  <2>4. QED  BY <1>1, <1>2, <2>1, <2>2, <2>3
<1>4. CASE Retries(p)
  <2>1. /\ result[p] = "backoff" /\ attempt[p] < MaxAttempts /\ UNCHANGED lost
        /\ Sends(p, asked[Attempt(p)])
    BY <1>4 DEF Retries
  <2>2. attempt[p] \in 1 .. attempt[p] /\ attempt[p] \in 1 .. MaxAttempts
    BY <1>1, <2>1 DEF AttemptInv
  <2>3. Attempt(p) \in Calls /\ at[Attempt(p)] # "unused" /\ Route(Attempt(p)) \in Ingest
    BY <1>1, <2>2, AttemptsAreCalls DEF AttemptInv, Attempt
  <2>4. asked[Attempt(p)] \in Request  BY <2>3, AskedOf DEF DeliveryInv
  <2>5. QED  BY <2>1, <2>3, <2>4 DEF Route
<1>5. QED  BY <1>3, <1>4 DEF Delivers

LEMMA DeliveryInitInv == DeliveryInit => DeliveryInv
<1> SUFFICES ASSUME DeliveryInit PROVE DeliveryInv  OBVIOUS
<1>1. PlaneInv  BY InitInv DEF DeliveryInit
<1>2. MaxAttempts \in Nat  BY DeliveryAssumption
<1>3. ClientTypes  BY DEF DeliveryInit, ClientTypes
<1>4. \A p \in Payloads : AttemptInv(p)
  BY <1>2 DEF DeliveryInit, AttemptInv
<1>5. QED  BY <1>1, <1>3, <1>4 DEF DeliveryInv, ClientInv

LEMMA UserSendsCalls ==
  ASSUME NEW c \in UserCalls, UserSends(c)
  PROVE  c \in Calls /\ UNCHANGED client /\ \E r \in Request : Send(c, r)
BY DeliveryAssumption DEF UserSends

LEMMA DeliveryNextInv == DeliveryInv /\ [DeliveryNext]_deliveryVars => DeliveryInv'
<1> SUFFICES ASSUME DeliveryInv, [DeliveryNext]_deliveryVars PROVE DeliveryInv'  OBVIOUS
<1>1. ASSUME NEW c \in Calls, Handler(c), UNCHANGED client PROVE DeliveryInv'
  BY <1>1, PlaneStep
<1>2. ASSUME NEW c \in UserCalls, UserSends(c) PROVE DeliveryInv'
  BY <1>2, UserSendsCalls, PlaneStep
<1>3. ASSUME NEW p \in Payloads, Delivers(p) PROVE DeliveryInv'
  BY <1>3, DeliversSends, SendsKeeps
<1>4. ASSUME NEW p \in Payloads, Hears(p) PROVE DeliveryInv'  BY <1>4, HearsKeeps
<1>5. CASE UNCHANGED deliveryVars
  <2>1. PlaneInv'
    BY <1>5 DEF deliveryVars, vars, tables, DeliveryInv, PlaneInv, TypeOK, CallInv, HeldInv,
                DeletingInv, CommittedInv, Fits, RowInv, Session, Route
  <2>2. \A c \in Calls : Moves(c)  BY <1>5 DEF Moves, deliveryVars, vars
  <2>3. \A p \in Payloads : AttemptInv(p)'
    BY <1>5, <2>2, PayloadKept DEF deliveryVars, client
  <2>4. ClientTypes'
    BY <1>5 DEF deliveryVars, client, DeliveryInv, ClientInv, ClientTypes
  <2>5. QED  BY <2>1, <2>3, <2>4 DEF DeliveryInv, ClientInv
<1>6. QED  BY <1>1, <1>2, <1>3, <1>4, <1>5 DEF DeliveryNext

(* An append only knows what its own attempts were answered, and, if none   *)
(* was lost, every attempt but the last was answered and left the append    *)
(* open (ledger/client.py:57-91).                                           *)
THEOREM DeliveryInvariant == DeliverySpec => []DeliveryInv
BY DeliveryInitInv, DeliveryNextInv, PTL DEF DeliverySpec

(* The clients only make the calls ControlPlane has: all that is proved of  *)
(* it holds of it under the agent's appends.                                *)
THEOREM PlaneWithClients == DeliverySpec => Spec
<1>1. DeliveryInit => Init  BY DEF DeliveryInit
<1>2. DeliveryInv /\ [DeliveryNext]_deliveryVars => [Next]_vars
  <2> SUFFICES ASSUME DeliveryInv, [DeliveryNext]_deliveryVars PROVE [Next]_vars  OBVIOUS
  <2>1. ASSUME NEW p \in Payloads, Delivers(p) PROVE [Next]_vars
    <3>1. PICK r \in Request : Sends(p, r) /\ attempt[p] < MaxAttempts
      BY <2>1, DeliversSends
    <3>2. attempt[p] + 1 \in 1 .. MaxAttempts
      BY <3>1, DeliveryAssumption DEF DeliveryInv, ClientInv, AttemptInv
    <3>3. QED  BY <3>1, <3>2, AttemptsAreCalls DEF Sends, Next
  <2>2. ASSUME NEW p \in Payloads, Hears(p) PROVE UNCHANGED vars
    BY <2>2 DEF Hears, Receives, TimesOut
  <2>3. ASSUME NEW c \in UserCalls, UserSends(c) PROVE [Next]_vars
    BY <2>3, UserSendsCalls DEF Next
  <2>4. CASE UNCHANGED deliveryVars  BY <2>4 DEF deliveryVars
  <2>5. QED  BY <2>1, <2>2, <2>3, <2>4 DEF DeliveryNext, Next
<1>3. QED  BY <1>1, <1>2, DeliveryInvariant, PTL DEF DeliverySpec, Spec

(* An append that returned True has its row, until the session is deleted   *)
(* (ledger/client.py:50).                                                   *)
THEOREM TrueRowsStored == DeliverySpec => []TrueIsStored
<1>1. DeliveryInv => TrueIsStored
  <2> SUFFICES ASSUME DeliveryInv, NEW p \in Payloads, result[p] = "true"
               PROVE  Stored(p) # {} \/ status[Session(Attempt(p))] = "deleted"
    BY DEF TrueIsStored
  <2>1. AttemptInv(p) /\ MaxAttempts \in Nat \ {0}
    BY DeliveryAssumption DEF DeliveryInv, ClientInv
  <2>2. attempt[p] \in 1 .. attempt[p] /\ attempt[p] \in 1 .. MaxAttempts
    BY <2>1 DEF AttemptInv
  <2>3. /\ Attempt(p) \in Calls /\ Attempt(p) \in Attempts(p)
        /\ at[Attempt(p)] = "answered" /\ reply[Attempt(p)] = 201
        /\ Route(Attempt(p)) \in Ingest
    BY <2>1, <2>2, AttemptsAreCalls DEF AttemptInv, Attempt, Attempts
  <2>4. Attempt(p) \in rows[Session(Attempt(p))] \/ status[Session(Attempt(p))] = "deleted"
    BY <2>3 DEF DeliveryInv, PlaneInv, CallInv, Fits
  <2>5. QED  BY <2>3, <2>4 DEF Stored
<1>2. QED  BY <1>1, DeliveryInvariant, PTL

(* A payload is stored twice only if an attempt of it was lost or its       *)
(* handler failed after the commit (ledger/client.py:3-6, :62-88).          *)
THEOREM TwiceNeedsLoss == DeliverySpec => []TwiceOnlyAfterLoss
<1>1. DeliveryInv => TwiceOnlyAfterLoss
  <2> SUFFICES ASSUME DeliveryInv, NEW p \in Payloads, ~lost[p],
                      \A a \in Stored(p) : ~Faulty(a)
               PROVE  ~(Cardinality(Stored(p)) > 1)
    BY DEF TwiceOnlyAfterLoss
  <2>1. AttemptInv(p) /\ MaxAttempts \in Nat \ {0}
    BY DeliveryAssumption DEF DeliveryInv, ClientInv
  <2>2. ASSUME NEW a \in Stored(p) PROVE a = Attempt(p)
    <3>1. PICK k \in 1 .. attempt[p] : a = <<p, k>>
      BY <2>2 DEF Stored, Attempts
    <3>2. k \in 1 .. MaxAttempts  BY <2>1 DEF AttemptInv
    <3>3. a \in Calls /\ Route(a) \in Ingest
      BY <2>1, <3>1, <3>2, AttemptsAreCalls DEF AttemptInv
    <3>4. ASSUME k # attempt[p] PROVE FALSE
      <4>1. k < attempt[p]  BY <2>1, <3>4 DEF AttemptInv
      <4>2. at[a] = "answered" /\ ~Closed(reply[a])
        BY <2>1, <3>1, <4>1 DEF AttemptInv
      <4>3. reply[a] = 500
        BY <3>3, <4>2 DEF DeliveryInv, PlaneInv, CallInv, Fits, Closed
      <4>4. QED  BY <4>2, <4>3 DEF Faulty
    <3>5. QED  BY <3>1, <3>4 DEF Attempt
  <2>3. Stored(p) \subseteq {Attempt(p)}  BY <2>2
  <2>4. IsFiniteSet({Attempt(p)}) /\ Cardinality({Attempt(p)}) = 1  BY FS_Singleton
  <2>5. Cardinality(Stored(p)) <= 1 /\ Cardinality(Stored(p)) \in Nat
    BY <2>3, <2>4, FS_Subset, FS_CardinalityType
  <2>6. QED  BY <2>5
<1>2. QED  BY <1>1, DeliveryInvariant, PTL
=============================================================================
