---------------------------- MODULE AdminProofs -----------------------------
(***************************************************************************)
(* Proofs about Admin for every number of requests at once, of passwords,  *)
(* of restarts and of refused saves, and every validity of the sessions.   *)
(***************************************************************************)
EXTENDS Admin, TLAPS

-----------------------------------------------------------------------------
(* Type correctness.                                                       *)

\* Which request is at which step: the handlers share Verify, the change of the
\* password and the token.
Kind(step) ==
  CASE step = "guard" -> {"password"}
    [] step \in {"read", "compare"} -> {"login", "password"}
    [] step \in {"set", "save"} -> {"setup", "password"}
    [] step = "token" -> {"setup", "login"}
    [] OTHER -> {"none", "setup", "login", "password"}

KindOK == \A c \in Client : req[c].kind \in Kind(pc[c])

IdleOK == \A c \in Client : pc[c] = "idle" <=> req[c] = NoRequest

\* The types, in two parts: what the process and the table hold, and what the
\* requests do.
SharedOK ==
  /\ hash \in Hash /\ secret \in 0 .. 3 /\ now \in 0 .. MaxTime
  /\ DOMAIN db = Key
  /\ db.admin_hash \in {Absent} \cup {<<h>> : h \in Hash \ {NoHash}}
  /\ db.auth_secret \in {Absent} \cup {<<s>> : s \in 1 .. 3}
  /\ tokens \subseteq [secret : 1 .. 3, exp : Ttl .. MaxTime + Ttl]

RequestsOK ==
  /\ pc \in [Client -> Step] /\ req \in [Client -> Request \cup {NoRequest}]
  /\ read \in [Client -> Hash] /\ during \in [Client -> SUBSET Hash]
  /\ requests \in 0 .. MaxRequests
  /\ unsaved \subseteq Key /\ lost \in BOOLEAN /\ crossed \in BOOLEAN

\* Requests run in a process that has been started.
StartedOK == \A c \in Client : pc[c] /= "idle" => secret > 0

Types == SharedOK /\ RequestsOK /\ IdleOK /\ KindOK /\ StartedOK

\* A password's hash is no empty one, and each kind of request has its fields.
LEMMA HashFacts ==
  /\ NoHash \in Hash
  /\ \A pw \in Password : HashPassword(pw) \in Hash /\ HashPassword(pw) /= NoHash
<1>1. \A pw \in Password : HashPassword(pw) /= NoHash
  BY AdminAssumption DEF HashPassword, NoHash
<1> QED
  BY <1>1 DEF Hash

LEMMA RequestFacts ==
  \A r \in Request :
    /\ r.kind \in {"setup", "login", "password"} /\ r.pw \in Password
    /\ r.kind = "password" => r.token \in tokens /\ r.old \in Password
    /\ r /= NoRequest
BY DEF Request, NoRequest

\* A fresh secret exists and is neither of the two in use.
LEMMA FreshFacts ==
  ASSUME SharedOK
  PROVE  Fresh \in 1 .. 3 /\ Fresh /= secret /\ db.auth_secret /= <<Fresh>>
<1>1. PICK s \in 1 .. 3 : s /= secret /\ db.auth_secret /= <<s>>
  <2>1. CASE db.auth_secret = Absent
    <3>1. \A s \in 1 .. 3 : db.auth_secret /= <<s>>
      BY <2>1 DEF Absent
    <3>2. 1 /= secret \/ 2 /= secret
      BY DEF SharedOK
    <3> QED
      BY <3>1, <3>2
  <2>2. ASSUME NEW t \in 1 .. 3, db.auth_secret = <<t>>
        PROVE  \E s \in 1 .. 3 : s /= secret /\ db.auth_secret /= <<s>>
    <3>1. \E s \in 1 .. 3 : s /= secret /\ s /= t
      BY DEF SharedOK
    <3> QED
      BY <2>2, <3>1
  <2> QED
    BY <2>1, <2>2 DEF SharedOK
<1> QED
  BY <1>1 DEF Fresh

\* What a start puts in memory and in the table has its type, and the two agree
\* on the account and on the secret but for a read or a save that failed.
LEMMA StartFacts ==
  ASSUME SharedOK, NEW miss \in Missed, NEW env \in EnvPassword, NEW fail
  PROVE  /\ LoadSecret(miss, fail).is \in 1 .. 3
         /\ LoadSecret(miss, fail).row \in {Absent} \cup {<<s>> : s \in 1 .. 3}
         /\ "auth_secret" \notin fail \cup miss =>
              LoadSecret(miss, fail).row = <<LoadSecret(miss, fail).is>>
         /\ "auth_secret" \notin miss /\ db.auth_secret /= Absent =>
              db.auth_secret = <<LoadSecret(miss, fail).is>>
         /\ LoadHash(miss, fail, env).is \in Hash
         /\ LoadHash(miss, fail, env).row \in {Absent} \cup {<<h>> : h \in Hash \ {NoHash}}
         /\ "admin_hash" \notin fail \cup miss =>
              LoadHash(miss, fail, env).row
                = IF LoadHash(miss, fail, env).is = NoHash THEN Absent
                  ELSE <<LoadHash(miss, fail, env).is>>
         /\ "admin_hash" \notin miss /\ db.admin_hash /= Absent =>
              LoadHash(miss, fail, env).is /= NoHash
<1> DEFINE s == LoadSecret(miss, fail)
           h == LoadHash(miss, fail, env)
<1>1. db.auth_secret /= Absent =>
        \E v \in 1 .. 3 : db.auth_secret = <<v>> /\ db.auth_secret[1] = v
  BY DEF SharedOK
<1>2. db.admin_hash /= Absent =>
        \E v \in Hash \ {NoHash} : db.admin_hash = <<v>> /\ db.admin_hash[1] = v
  BY DEF SharedOK
<1>3. /\ s.is \in 1 .. 3 /\ s.row \in {Absent} \cup {<<v>> : v \in 1 .. 3}
      /\ "auth_secret" \notin fail \cup miss => s.row = <<s.is>>
      /\ "auth_secret" \notin miss /\ db.auth_secret /= Absent => db.auth_secret = <<s.is>>
  BY <1>1, FreshFacts DEF LoadSecret, SharedOK
<1>4. env /= NoPassword =>
        HashPassword(env) \in Hash \ {NoHash}
  BY HashFacts, AdminAssumption
<1>5. CASE env /= NoPassword
  <2>1. /\ h.is = HashPassword(env)
        /\ h.row = IF "admin_hash" \in fail THEN db.admin_hash ELSE <<HashPassword(env)>>
    BY <1>5 DEF LoadHash
  <2> QED
    BY <1>3, <1>4, <1>5, <2>1 DEF SharedOK
<1>6. CASE env = NoPassword
  <2>1. /\ h.is = IF "admin_hash" \in miss \/ db.admin_hash = Absent THEN NoHash
                  ELSE db.admin_hash[1]
        /\ h.row = db.admin_hash
    BY <1>6 DEF LoadHash
  <2>2. h.row \in {Absent} \cup {<<v>> : v \in Hash \ {NoHash}}
    BY <2>1 DEF SharedOK
  <2>3. CASE db.admin_hash = Absent
    <3>1. h.is = NoHash /\ h.row = Absent
      BY <2>1, <2>3
    <3> QED
      BY <1>3, <2>2, <2>3, <3>1, HashFacts
  <2>4. CASE db.admin_hash /= Absent
    <3>1. PICK v \in Hash \ {NoHash} : db.admin_hash = <<v>> /\ db.admin_hash[1] = v
      BY <1>2, <2>4
    <3>2. /\ h.is = (IF "admin_hash" \in miss THEN NoHash ELSE v)
          /\ h.row = <<v>> /\ h.row /= Absent
      BY <2>1, <2>4, <3>1
    <3> QED
      BY <1>3, <2>2, <3>1, <3>2, HashFacts
  <2> QED
    BY <2>3, <2>4
<1> QED
  BY <1>5, <1>6

\* Initially every variable of the account has its type.
LEMMA InitTypes == Init => Types
<1> SUFFICES ASSUME Init PROVE Types
  OBVIOUS
<1>1. SharedOK
  <2>1. hash \in Hash /\ now \in 0 .. MaxTime /\ secret \in 0 .. 3 /\ tokens = {}
    BY HashFacts, AdminAssumption DEF Init
  <2>2. DOMAIN db = Key /\ db.admin_hash = Absent /\ db.auth_secret = Absent
    BY DEF Init, Key
  <2> QED
    BY <2>1, <2>2 DEF SharedOK
<1>2. RequestsOK
  <2>1. pc \in [Client -> Step] /\ req \in [Client -> Request \cup {NoRequest}]
    BY DEF Init, Idle, Step
  <2>2. read \in [Client -> Hash] /\ during \in [Client -> SUBSET Hash]
    BY HashFacts DEF Init
  <2>3. requests \in 0 .. MaxRequests
    BY AdminAssumption DEF Init
  <2>4. unsaved \subseteq Key /\ lost \in BOOLEAN /\ crossed \in BOOLEAN
    BY DEF Init
  <2> QED
    BY <2>1, <2>2, <2>3, <2>4, Zenon DEF RequestsOK
<1>3. IdleOK /\ KindOK /\ StartedOK
  BY DEF Init, IdleOK, KindOK, Kind, StartedOK, Idle, NoRequest
<1> QED
  BY <1>1, <1>2, <1>3 DEF Types

\* A request that goes on stays what it is; one that is answered is over.
LEMMA MoveFacts ==
  ASSUME Types, NEW c \in Client, pc[c] /= "idle"
  PROVE  /\ \A step \in Step \ {"idle"} :
              GoTo(c, step) /\ req[c].kind \in Kind(step) =>
                /\ pc' \in [Client -> Step]
                /\ req' \in [Client -> Request \cup {NoRequest}]
                /\ IdleOK' /\ KindOK'
         /\ Answer(c) =>
                /\ pc' \in [Client -> Step]
                /\ req' \in [Client -> Request \cup {NoRequest}]
                /\ IdleOK' /\ KindOK'
<1> USE DEF Types, RequestsOK, Step
<1>1. ASSUME NEW step \in Step \ {"idle"}, GoTo(c, step), req[c].kind \in Kind(step)
      PROVE  /\ pc' \in [Client -> Step]
             /\ req' \in [Client -> Request \cup {NoRequest}]
             /\ IdleOK' /\ KindOK'
  <2>1. /\ pc' = [pc EXCEPT ![c] = step] /\ pc' \in [Client -> Step]
        /\ req' = req /\ req' \in [Client -> Request \cup {NoRequest}]
    BY <1>1 DEF GoTo
  <2>2. IdleOK'
    BY <1>1, <2>1 DEF IdleOK
  <2>3. KindOK'
    BY <1>1, <2>1 DEF KindOK
  <2> QED
    BY <2>1, <2>2, <2>3
<1>2. ASSUME Answer(c)
      PROVE  /\ pc' \in [Client -> Step]
             /\ req' \in [Client -> Request \cup {NoRequest}]
             /\ IdleOK' /\ KindOK'
  <2>1. /\ pc' = [pc EXCEPT ![c] = "idle"] /\ pc' \in [Client -> Step]
        /\ req' = [req EXCEPT ![c] = NoRequest]
        /\ req' \in [Client -> Request \cup {NoRequest}]
    BY <1>2 DEF Answer
  <2>2. IdleOK'
    BY <2>1 DEF IdleOK
  <2>3. NoRequest.kind \in Kind("idle")
    BY DEF NoRequest, Kind
  <2>4. KindOK'
    BY <2>1, <2>3 DEF KindOK
  <2> QED
    BY <2>1, <2>2, <2>4
<1> QED
  BY <1>1, <1>2

\* Every step of the program keeps the types.
LEMMA NextTypes == Types /\ [Next]_vars => Types'
<1> SUFFICES ASSUME Types, [Next]_vars PROVE Types'
  OBVIOUS
<1> DEFINE Moved == /\ pc' \in [Client -> Step]
                    /\ req' \in [Client -> Request \cup {NoRequest}]
                    /\ IdleOK' /\ KindOK'
<1> USE DEF Types
<1>1. ASSUME Moved, secret > 0,
             UNCHANGED <<hash, secret, db, now, read, tokens, requests, history>>
      PROVE  Types'
  BY <1>1 DEF SharedOK, RequestsOK, StartedOK, Request, history
<1>2. CASE UNCHANGED vars
  BY <1>2 DEF vars, history, SharedOK, RequestsOK, IdleOK, KindOK, StartedOK, Request
<1>3. CASE Tick
  <2>1. now' \in 0 .. MaxTime
    BY <1>3, AdminAssumption DEF Tick, SharedOK
  <2> QED
    BY <1>3, <2>1 DEF Tick, history, SharedOK, RequestsOK, IdleOK, KindOK, StartedOK, Request
<1>4. CASE Start
  <2>1. PICK miss \in Missed, env \in EnvPassword, fail \in SUBSET Key :
             /\ secret' = LoadSecret(miss, fail).is
             /\ hash' = LoadHash(miss, fail, env).is
             /\ db' = [auth_secret |-> LoadSecret(miss, fail).row,
                       admin_hash |-> LoadHash(miss, fail, env).row]
             /\ unsaved' = miss \cup fail
             /\ lost' = (lost \/ "admin_hash" \in unsaved \cup miss
                             \/ \E c \in Client : pc[c] = "save")
    BY <1>4 DEF Start, Saves
  <2>2. /\ pc' = Idle
        /\ req' = [c \in Client |-> NoRequest]
        /\ read' = [c \in Client |-> NoHash]
        /\ during' = [c \in Client |-> {}]
        /\ crossed' = FALSE
        /\ tokens' \subseteq tokens
        /\ UNCHANGED <<now, requests>>
    BY <1>4 DEF Start
  <2>3. SharedOK' /\ secret' > 0
    <3>1. SharedOK
      OBVIOUS
    <3>2. /\ secret' \in 1 .. 3 /\ hash' \in Hash
          /\ db'.auth_secret \in {Absent} \cup {<<s>> : s \in 1 .. 3}
          /\ db'.admin_hash \in {Absent} \cup {<<h>> : h \in Hash \ {NoHash}}
      BY <2>1, <3>1, StartFacts
    <3>3. DOMAIN db' = Key
      BY <2>1 DEF Key
    <3> QED
      BY <2>2, <3>1, <3>2, <3>3 DEF SharedOK
  <2>4. unsaved' \subseteq Key /\ lost' \in BOOLEAN /\ crossed' \in BOOLEAN
    BY <2>1, <2>2, AdminAssumption
  <2>5. pc' \in [Client -> Step] /\ req' \in [Client -> Request' \cup {NoRequest}]
    BY <2>2 DEF Idle, Step
  <2>6. read' \in [Client -> Hash] /\ during' \in [Client -> SUBSET Hash]
    BY <2>2, HashFacts
  <2>7. RequestsOK'
    BY <2>2, <2>4, <2>5, <2>6 DEF RequestsOK
  <2>8. IdleOK' /\ KindOK' /\ StartedOK'
    BY <2>2, <2>3 DEF IdleOK, KindOK, Kind, StartedOK, Idle, NoRequest
  <2> QED
    BY <2>3, <2>7, <2>8
<1>5. ASSUME NEW c \in Client, Handle(c) PROVE Types'
  <2>1. CASE Begin(c)
    <3>1. PICK r \in Request :
            /\ req' = [req EXCEPT ![c] = r]
            /\ pc' = [pc EXCEPT ![c] = IF r.kind = "password" THEN "guard" ELSE "enabled"]
      BY <2>1 DEF Begin
    <3>2. /\ requests' \in 0 .. MaxRequests
          /\ during' = [during EXCEPT ![c] = {hash}]
          /\ UNCHANGED <<hash, secret, db, now, read, tokens, unsaved, lost, crossed>>
      BY <2>1, AdminAssumption DEF Begin, RequestsOK
    <3>3. during' \in [Client -> SUBSET Hash]
      BY <3>2 DEF SharedOK, RequestsOK
    <3>4. /\ pc' \in [Client -> Step]
          /\ req' \in [Client -> Request \cup {NoRequest}]
      BY <3>1 DEF RequestsOK, Step
    <3>5. r.kind \in Kind(IF r.kind = "password" THEN "guard" ELSE "enabled")
      BY RequestFacts DEF Kind
    <3>6. IdleOK' /\ KindOK'
      BY <3>1, <3>5, RequestFacts DEF IdleOK, KindOK, RequestsOK
    <3> QED
      BY <2>1, <3>2, <3>3, <3>4, <3>6 DEF Begin, SharedOK, RequestsOK, StartedOK, Request
  <2>2. /\ req[c].kind \in Kind(pc[c])
        /\ pc[c] /= "idle" => secret > 0
    BY DEF KindOK, StartedOK
  <2>3. CASE CheckSetup(c)
    <3>1. Moved
      BY <2>3, MoveFacts DEF CheckSetup, Kind, Step
    <3> QED
      BY <1>1, <2>2, <2>3, <3>1 DEF CheckSetup
  <2>4. CASE CheckLogin(c)
    <3>1. Moved
      BY <2>4, MoveFacts DEF CheckLogin, Kind, Step
    <3> QED
      BY <1>1, <2>2, <2>4, <3>1 DEF CheckLogin
  <2>5. CASE Guard(c)
    <3>1. Moved
      BY <2>2, <2>5, MoveFacts DEF Guard, Kind, Step
    <3> QED
      BY <1>1, <2>2, <2>5, <3>1 DEF Guard
  <2>6. CASE ReadHash(c)
    <3>1. Moved
      BY <2>2, <2>6, MoveFacts DEF ReadHash, Kind, Step
    <3>2. read' \in [Client -> Hash]
      BY <2>6 DEF ReadHash, SharedOK, RequestsOK
    <3> QED
      BY <2>2, <2>6, <3>1, <3>2 DEF ReadHash, StartedOK, SharedOK, RequestsOK, Request, history
  <2>7. CASE Compare(c)
    <3>1. req[c].kind \in {"login", "password"}
      BY <2>2, <2>7 DEF Compare, Kind
    <3>2. Moved
      BY <2>7, <3>1, MoveFacts DEF Compare, Kind, Step
    <3>3. read' \in [Client -> Hash]
      BY <2>7, HashFacts DEF Compare, RequestsOK
    <3> QED
      BY <2>2, <2>7, <3>2, <3>3 DEF Compare, StartedOK, SharedOK, RequestsOK, Request, history
  <2>8. CASE SetPassword(c)
    <3>1. Moved
      BY <2>2, <2>8, MoveFacts DEF SetPassword, Kind, Step
    <3>2. req[c] \in Request
      BY <2>8 DEF SetPassword, RequestsOK, IdleOK
    <3>3. hash' \in Hash
      BY <2>8, <3>2, RequestFacts, HashFacts DEF SetPassword
    <3>4. during' \in [Client -> SUBSET Hash] /\ crossed' \in BOOLEAN
      BY <2>8, <3>3 DEF SetPassword, RequestsOK
    <3> QED
      BY <2>2, <2>8, <3>1, <3>3, <3>4 DEF SetPassword, StartedOK, SharedOK, RequestsOK, Request
  <2>9. CASE Save(c)
    <3>1. req[c].kind \in {"setup", "password"} /\ req[c] \in Request
      BY <2>2, <2>9 DEF Save, Kind, RequestsOK, IdleOK
    <3>2. Moved
      BY <2>9, <3>1, MoveFacts DEF Save, Kind, Step
    <3>3. HashPassword(req[c].pw) \in Hash \ {NoHash}
      BY <3>1, RequestFacts, HashFacts
    <3>4. SharedOK' /\ unsaved' \subseteq Key
      BY <2>9, <3>3 DEF Save, SharedOK, RequestsOK, Key
    <3> QED
      BY <2>2, <2>9, <3>2, <3>4 DEF Save, StartedOK, RequestsOK, Request
  <2>10. CASE Token(c)
    <3>1. Moved
      BY <2>10, MoveFacts DEF Token
    <3>2. tokens \subseteq tokens' /\ Request \subseteq Request'
      BY <2>10 DEF Token, Request
    <3>3. SharedOK'
      BY <2>2, <2>10, AdminAssumption DEF Token, IssueToken, SharedOK
    <3> QED
      BY <2>2, <2>10, <3>1, <3>2, <3>3 DEF Token, StartedOK, RequestsOK, history
  <2> QED
    BY <1>5, <2>1, <2>3, <2>4, <2>5, <2>6, <2>7, <2>8, <2>9, <2>10 DEF Handle
<1> QED
  BY <1>2, <1>3, <1>4, <1>5 DEF Next

\* TypeOK: every variable keeps its type, and a client without a request is idle.
THEOREM TypeCorrect == Spec => []TypeOK
<1>1. Types => TypeOK
  BY DEF Types, TypeOK, SharedOK, RequestsOK, IdleOK
<1> QED
  BY <1>1, InitTypes, NextTypes, PTL DEF Spec

LEMMA TypesHold == Spec => []Types
BY InitTypes, NextTypes, PTL DEF Spec

-----------------------------------------------------------------------------
(* What entitles a request to what it does.                                *)

\* While a request runs, the account of the moment is among those it has seen, so
\* is the hash it is about to compare, and so is, once it has passed its check,
\* what it claims: no later step of another request takes it away.
EntitledInv ==
  \A c \in Client :
    /\ pc[c] /= "idle" => hash \in during[c]
    /\ pc[c] = "compare" => read[c] \in during[c]
    /\ pc[c] \in {"set", "save", "token"} => Claims(req[c]) \in during[c]

LEMMA EntitledNext == Types /\ EntitledInv /\ [Next]_vars => EntitledInv'
<1> SUFFICES ASSUME Types, EntitledInv, [Next]_vars PROVE EntitledInv'
  OBVIOUS
<1> USE DEF EntitledInv
<1>0. /\ DOMAIN pc = Client /\ DOMAIN req = Client
      /\ read \in [Client -> Hash] /\ during \in [Client -> SUBSET Hash]
  BY DEF Types, RequestsOK
<1>1. CASE UNCHANGED vars
  BY <1>1 DEF vars, history
<1>2. CASE Tick
  BY <1>2 DEF Tick, history
<1>3. CASE Start
  BY <1>3 DEF Start, Idle
<1>4. ASSUME NEW c \in Client, Handle(c) PROVE EntitledInv'
  <2>0. req[c].kind \in Kind(pc[c])
    BY DEF Types, KindOK
  <2>1. CASE Begin(c)
    <3>1. /\ pc'[c] \in {"guard", "enabled"} /\ during'[c] = {hash} /\ hash' = hash
          /\ \A d \in Client \ {c} :
                pc'[d] = pc[d] /\ req'[d] = req[d] /\ during'[d] = during[d]
          /\ read' = read
      BY <1>0, <2>1 DEF Begin
    <3> QED
      BY <3>1
  <2>2. CASE CheckSetup(c)
    BY <1>0, <2>2 DEF CheckSetup, GoTo, Answer, Enabled, Claims, history
  <2>3. CASE CheckLogin(c)
    BY <1>0, <2>3 DEF CheckLogin, GoTo, Answer, history
  <2>4. CASE Guard(c)
    BY <1>0, <2>4 DEF Guard, GoTo, Answer, history
  <2>5. CASE ReadHash(c)
    BY <1>0, <2>5 DEF ReadHash, GoTo, history
  <2>6. CASE Compare(c)
    <3>1. req[c].kind \in {"login", "password"}
      BY <2>0, <2>6 DEF Compare, Kind
    <3>2. \/ Answer(c)
          \/ /\ GoTo(c, "token") \/ GoTo(c, "set")
             /\ read[c] = Claims(req[c])
      BY <2>6, <3>1 DEF Compare, VerifyPassword, Claims
    <3> QED
      BY <1>0, <2>6, <3>2 DEF Compare, GoTo, Answer, history
  <2>7. CASE SetPassword(c)
    <3>1. \A d \in Client : pc[d] /= "idle" => during'[d] = during[d] \cup {hash'}
      BY <2>7 DEF SetPassword
    <3> QED
      BY <1>0, <2>7, <3>1 DEF SetPassword, GoTo
  <2>8. CASE Save(c)
    BY <1>0, <2>8 DEF Save, GoTo, Answer
  <2>9. CASE Token(c)
    BY <1>0, <2>9 DEF Token, Answer, history
  <2> QED
    BY <1>4, <2>1, <2>2, <2>3, <2>4, <2>5, <2>6, <2>7, <2>8, <2>9 DEF Handle
<1> QED
  BY <1>1, <1>2, <1>3, <1>4 DEF Next

\* EntitledWhileRunning: whatever the requests that run at the same time do, a
\* request sets the password or is given a token only if what it claims was so
\* at some moment while it ran.
THEOREM RequestsEntitled == Spec => []EntitledWhileRunning
<1>1. Init => EntitledInv
  BY DEF Init, Idle, EntitledInv
<1>2. EntitledInv => EntitledWhileRunning
  BY DEF EntitledInv, EntitledWhileRunning
<1> QED
  BY <1>1, <1>2, TypesHold, EntitledNext, PTL DEF Spec

-----------------------------------------------------------------------------
(* The account and its row.                                                *)

\* A request that has changed the account or verified a password runs while there
\* is an account; an account that memory holds is in the table unless a request
\* is about to save it or an error kept it from the table; and without an account
\* nobody holds a token, unless an account was lost.
AccountInv ==
  /\ \A c \in Client :
       \/ pc[c] \in {"save", "token"}
       \/ pc[c] = "compare" /\ read[c] /= NoHash
       => Enabled
  /\ /\ "admin_hash" \notin unsaved /\ Enabled
     /\ \A c \in Client : pc[c] /= "save"
     => db.admin_hash /= Absent
  /\ ~lost /\ ~Enabled => tokens = {}

\* The step that a start makes of the account: it is the row's, if the row could
\* be read, and the row is its, if it could be saved.
LEMMA StartStep ==
  ASSUME Types, Start
  PROVE  /\ pc' = Idle /\ crossed' = FALSE /\ now' = now
         /\ tokens' \subseteq tokens
         /\ secret' \in 1 .. 3
         /\ "admin_hash" \notin unsaved' =>
               db'.admin_hash = IF Enabled' THEN <<hash'>> ELSE Absent
         /\ "admin_hash" \notin unsaved' /\ db.admin_hash /= Absent => Enabled'
         /\ "auth_secret" \notin unsaved' => db'.auth_secret = <<secret'>>
         /\ "auth_secret" \notin unsaved' /\ db.auth_secret /= Absent =>
               db.auth_secret = <<secret'>>
         /\ ~lost' => /\ ~lost /\ "admin_hash" \notin unsaved
                      /\ db.admin_hash /= Absent => Enabled'
                      /\ \A c \in Client : pc[c] /= "save"
<1>1. PICK miss \in Missed, env \in EnvPassword, fail \in SUBSET Key :
           /\ secret' = LoadSecret(miss, fail).is
           /\ hash' = LoadHash(miss, fail, env).is
           /\ db' = [auth_secret |-> LoadSecret(miss, fail).row,
                     admin_hash |-> LoadHash(miss, fail, env).row]
           /\ unsaved' = miss \cup fail
           /\ lost' = (lost \/ "admin_hash" \in unsaved \cup miss
                           \/ \E c \in Client : pc[c] = "save")
  BY DEF Start, Saves
<1>2. SharedOK
  BY DEF Types
<1>3. secret' \in 1 .. 3
  BY <1>1, <1>2, StartFacts
<1>4. /\ "admin_hash" \notin unsaved' =>
               db'.admin_hash = IF Enabled' THEN <<hash'>> ELSE Absent
      /\ "admin_hash" \notin miss /\ db.admin_hash /= Absent => Enabled'
  BY <1>1, <1>2, StartFacts DEF Enabled
<1>5. /\ "auth_secret" \notin unsaved' => db'.auth_secret = <<secret'>>
      /\ "auth_secret" \notin unsaved' /\ db.auth_secret /= Absent =>
               db.auth_secret = <<secret'>>
  BY <1>1, <1>2, StartFacts
<1>6. ~lost' => /\ ~lost /\ "admin_hash" \notin unsaved \cup miss
                /\ \A c \in Client : pc[c] /= "save"
  BY <1>1
<1>7. /\ pc' = Idle /\ crossed' = FALSE /\ now' = now /\ tokens' \subseteq tokens
  BY DEF Start
<1> QED
  BY <1>1, <1>3, <1>4, <1>5, <1>6, <1>7

LEMMA AccountNext == Types /\ AccountInv /\ [Next]_vars => AccountInv'
<1> SUFFICES ASSUME Types, AccountInv, [Next]_vars PROVE AccountInv'
  OBVIOUS
<1> USE DEF AccountInv
<1>0. /\ DOMAIN pc = Client /\ read \in [Client -> Hash]
      /\ DOMAIN db = Key
  BY DEF Types, SharedOK, RequestsOK
<1>1. CASE UNCHANGED vars
  BY <1>1 DEF vars, history, Enabled
<1>2. CASE Tick
  BY <1>2 DEF Tick, history, Enabled
<1>3. CASE Start
  <2>1. \A c \in Client : pc'[c] = "idle"
    BY <1>3, StartStep DEF Idle
  <2>2. "admin_hash" \notin unsaved' /\ Enabled' => db'.admin_hash /= Absent
    <3>1. <<hash'>> /= Absent
      BY DEF Absent
    <3> QED
      BY <1>3, <3>1, StartStep
  <2>3. ~lost' /\ ~Enabled' => tokens' = {}
    BY <1>3, StartStep
  <2> QED
    BY <2>1, <2>2, <2>3
<1>4. ASSUME NEW c \in Client, Handle(c) PROVE AccountInv'
  <2>0. req[c].kind \in Kind(pc[c])
    BY DEF Types, KindOK
  <2> USE DEF Enabled
  <2>1. CASE Begin(c)
    BY <1>0, <2>1 DEF Begin
  <2>2. CASE CheckSetup(c)
    BY <1>0, <2>2 DEF CheckSetup, GoTo, Answer, history
  <2>3. CASE CheckLogin(c)
    BY <1>0, <2>3 DEF CheckLogin, GoTo, Answer, history
  <2>4. CASE Guard(c)
    BY <1>0, <2>4 DEF Guard, GoTo, Answer, history
  <2>5. CASE ReadHash(c)
    BY <1>0, <2>5 DEF ReadHash, GoTo, history
  <2>6. CASE Compare(c)
    <3>1. req[c].kind \in {"login", "password"}
      BY <2>0, <2>6 DEF Compare, Kind
    <3>2. \/ Answer(c)
          \/ GoTo(c, "set")
          \/ GoTo(c, "token") /\ read[c] /= NoHash
      BY <2>6, <3>1 DEF Compare, VerifyPassword
    <3> QED
      BY <1>0, <2>6, <3>2 DEF Compare, GoTo, Answer, history
  <2>7. CASE SetPassword(c)
    <3>1. hash' /= NoHash
      <4>1. req[c] \in Request
        BY <2>7 DEF SetPassword, Types, RequestsOK, IdleOK
      <4> QED
        BY <2>7, <4>1, RequestFacts, HashFacts DEF SetPassword
    <3> QED
      BY <1>0, <2>7, <3>1 DEF SetPassword, GoTo
  <2>8. CASE Save(c)
    <3>1. /\ hash' = hash /\ lost' = lost /\ tokens' = tokens /\ read' = read
          /\ hash /= NoHash
          /\ "admin_hash" \notin unsaved' => db'.admin_hash /= Absent
      BY <1>0, <2>8 DEF Save, Key, Absent
    <3> QED
      BY <1>0, <2>8, <3>1 DEF Save, GoTo, Answer
  <2>9. CASE Token(c)
    BY <1>0, <2>9 DEF Token, Answer, history
  <2> QED
    BY <1>4, <2>1, <2>2, <2>3, <2>4, <2>5, <2>6, <2>7, <2>8, <2>9 DEF Handle
<1> QED
  BY <1>1, <1>2, <1>3, <1>4 DEF Next

\* NoSessionWithoutAccount: nobody holds a session on a gateway that believes it
\* has no account, unless an account was lost.
THEOREM SessionsNeedAccount == Spec => []NoSessionWithoutAccount
<1>1. Init => AccountInv
  BY DEF Init, Idle, AccountInv, Enabled
<1>2. AccountInv => NoSessionWithoutAccount
  BY DEF AccountInv, NoSessionWithoutAccount
<1> QED
  BY <1>1, <1>2, TypesHold, AccountNext, PTL DEF Spec

\* Unless the last saves overlapped, at most one request is about to save a
\* password, and it is the one that memory holds.
SurvivalInv ==
  /\ ~crossed => \A c \in Client : pc[c] = "save" =>
                   /\ hash = HashPassword(req[c].pw)
                   /\ \A d \in Client \ {c} : pc[d] /= "save"
  /\ AccountSurvives

LEMMA SurvivalNext ==
  Types /\ AccountInv /\ SurvivalInv /\ [Next]_vars => SurvivalInv'
<1> SUFFICES ASSUME Types, AccountInv, SurvivalInv, [Next]_vars PROVE SurvivalInv'
  OBVIOUS
<1> USE DEF SurvivalInv, AccountSurvives
<1>0. DOMAIN pc = Client /\ DOMAIN req = Client /\ DOMAIN db = Key
  BY DEF Types, SharedOK, RequestsOK
<1>1. CASE UNCHANGED vars
  BY <1>1 DEF vars, history, Enabled
<1>2. CASE Tick
  BY <1>2 DEF Tick, history, Enabled
<1>3. CASE Start
  <2>1. \A c \in Client : pc'[c] = "idle"
    BY <1>3, StartStep DEF Idle
  <2> QED
    BY <1>3, <2>1, StartStep
<1>4. ASSUME NEW c \in Client, Handle(c) PROVE SurvivalInv'
  <2>1. CASE Begin(c)
    BY <1>0, <2>1 DEF Begin, Enabled
  <2>2. CASE CheckSetup(c)
    BY <1>0, <2>2 DEF CheckSetup, GoTo, Answer, Enabled, history
  <2>3. CASE CheckLogin(c)
    BY <1>0, <2>3 DEF CheckLogin, GoTo, Answer, Enabled, history
  <2>4. CASE Guard(c)
    BY <1>0, <2>4 DEF Guard, GoTo, Answer, Enabled, history
  <2>5. CASE ReadHash(c)
    BY <1>0, <2>5 DEF ReadHash, GoTo, Enabled, history
  <2>6. CASE Compare(c)
    <3>1. \/ Answer(c) \/ GoTo(c, "set") \/ GoTo(c, "token")
      <4>1. req[c].kind \in {"login", "password"}
        BY <2>6 DEF Compare, Kind, Types, KindOK
      <4> QED
        BY <2>6, <4>1 DEF Compare
    <3> QED
      BY <1>0, <2>6, <3>1 DEF Compare, GoTo, Answer, Enabled, history
  <2>7. CASE SetPassword(c)
    <3>1. /\ pc' = [pc EXCEPT ![c] = "save"] /\ req' = req
          /\ hash' = HashPassword(req[c].pw)
          /\ crossed' = \E d \in Client : pc[d] = "save"
      BY <2>7 DEF SetPassword, GoTo
    <3> QED
      BY <1>0, <3>1
  <2>8. CASE Save(c)
    <3>1. /\ hash' = hash /\ crossed' = crossed /\ hash /= NoHash
          /\ "admin_hash" \notin unsaved' =>
                db'.admin_hash = <<HashPassword(req[c].pw)>>
      BY <1>0, <2>8 DEF Save, Key, AccountInv, Enabled
    <3>2. ~crossed => \A d \in Client : pc'[d] /= "save"
      BY <1>0, <2>8 DEF Save, GoTo, Answer
    <3> QED
      BY <2>8, <3>1, <3>2 DEF Save, Enabled
  <2>9. CASE Token(c)
    BY <1>0, <2>9 DEF Token, Answer, Enabled, history
  <2> QED
    BY <1>4, <2>1, <2>2, <2>3, <2>4, <2>5, <2>6, <2>7, <2>8, <2>9 DEF Handle
<1> QED
  BY <1>1, <1>2, <1>3, <1>4 DEF Next

\* AccountSurvives: once the requests that set the password are over, unless two
\* of them overlapped or an error came between, the next start finds the account.
THEOREM AccountKept == Spec => []AccountSurvives
<1>1. Init => AccountInv /\ SurvivalInv
  BY DEF Init, Idle, AccountInv, SurvivalInv, AccountSurvives, Enabled, Key
<1>2. SurvivalInv => AccountSurvives
  BY DEF SurvivalInv
<1> QED
  BY <1>1, <1>2, TypesHold, AccountNext, SurvivalNext, PTL DEF Spec

-----------------------------------------------------------------------------
(* The sessions.                                                           *)

\* The table holds the secret of the process, unless an error kept it from it.
SecretInv ==
  secret > 0 /\ "auth_secret" \notin unsaved => db.auth_secret = <<secret>>

LEMMA SecretNext == Types /\ SecretInv /\ [Next]_vars => SecretInv'
<1> SUFFICES ASSUME Types, SecretInv, [Next]_vars PROVE SecretInv'
  OBVIOUS
<1>1. CASE Start
  BY <1>1, StartStep DEF SecretInv
<1>2. CASE UNCHANGED <<secret, db.auth_secret>> /\ unsaved \ {"admin_hash"} \subseteq unsaved'
  BY <1>2 DEF SecretInv
<1>3. ASSUME NEW c \in Client, Save(c)
      PROVE  /\ UNCHANGED <<secret, db.auth_secret>>
             /\ unsaved \ {"admin_hash"} \subseteq unsaved'
  BY <1>3 DEF Save, Types, SharedOK, Key
<1> QED
  BY <1>1, <1>2, <1>3 DEF Next, vars, history, Tick, Handle, Begin, CheckSetup, CheckLogin,
     Guard, ReadHash, Compare, SetPassword, Token

\* SessionsLast: nothing but time, or a row of the secret that could not be saved
\* or read, ends a session: neither another request, nor a new password, nor a
\* restart.
THEOREM SessionsKept == Spec => SessionsLast
<1> DEFINE Kept == \A t \in tokens : Valid(t) /\ now' <= t.exp =>
                     Valid(t)' \/ "auth_secret" \in unsaved \cup unsaved'
<1>1. Init => SecretInv
  BY DEF Init, SecretInv
<1>2. Types /\ SecretInv /\ [Next]_vars => [Kept]_vars
  <2> SUFFICES ASSUME Types, SecretInv, Next, NEW t \in tokens, Valid(t), now' <= t.exp,
                      "auth_secret" \notin unsaved \cup unsaved'
               PROVE  Valid(t)'
    OBVIOUS
  <2>1. CASE Start
    <3>1. secret \in 1 .. 3
      BY DEF Valid, Types, SharedOK
    <3>2. db.auth_secret = <<secret>> /\ db.auth_secret /= Absent
      BY <3>1 DEF SecretInv, Absent
    <3>3. db.auth_secret = <<secret'>>
      BY <2>1, <3>2, StartStep
    <3> QED
      BY <3>2, <3>3 DEF Valid
  <2>2. ASSUME ~Start PROVE secret' = secret
    BY <2>2 DEF Next, Tick, Handle, Begin, CheckSetup, CheckLogin,
       Guard, ReadHash, Compare, SetPassword, Save, Token
  <2> QED
    BY <2>1, <2>2 DEF Valid
<1> QED
  BY <1>1, <1>2, TypesHold, SecretNext, PTL DEF Spec, SessionsLast
=============================================================================
