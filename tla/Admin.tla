------------------------------- MODULE Admin --------------------------------
(***************************************************************************)
(* internal/auth and its users in cmd/gateway/main.go: the administrator's *)
(* account and the sessions.  The account is a password's hash, in memory  *)
(* and in the row admin_hash of the settings table; a session is a token   *)
(* signed with the secret of the row auth_secret, which nobody stores.     *)
(* The requests run concurrently: each reads the hash under a lock, checks *)
(* a password after releasing it, and saves a new hash after setting it.   *)
(* The process may stop at any moment and start again from the table.      *)
(***************************************************************************)
EXTENDS Integers, FiniteSets

CONSTANTS Client,       \* API requests that may run at once
          Password, Short,  \* passwords, and those under six characters
          EnvPassword,  \* what the environment may hold at a start
          NoPassword,   \* the empty string
          Ttl,          \* how long a token is valid, in ticks of the clock
          SaveMayFail,  \* whether PostgreSQL may refuse a save (ignored)
          Missed,       \* sets of rows whose reads may all fail at a start
          MaxRequests, MaxTime   \* bounds of the model

Key == {"admin_hash", "auth_secret"}
Absent == <<>>          \* no row for the key; a row with the value v is <<v>>

ASSUME AdminAssumption ==
  /\ Short \subseteq Password /\ NoPassword \notin Password
  /\ EnvPassword \subseteq Password \cup {NoPassword} /\ EnvPassword /= {}
  /\ Ttl \in Nat /\ SaveMayFail \in BOOLEAN
  /\ Missed \subseteq SUBSET Key /\ {} \in Missed
  /\ MaxRequests \in Nat /\ MaxTime \in Nat

VARIABLES
  hash, secret,      \* Admin, in memory
  db,                \* the two rows of the settings table
  now,               \* time.Now().Unix()
  pc, req, read,     \* a request: its step, its body, the hash Verify read
  tokens,            \* the tokens that clients have been given
  requests,          \* counts them, up to the bound
  during, unsaved, lost, crossed   \* history: the accounts memory has held
                     \* since a request began, rows that an error has kept
                     \* from agreeing with memory, whether a start may have
                     \* lost an account, whether the last saves overlapped

history == <<during, unsaved, lost, crossed>>
vars == <<hash, secret, db, now, pc, req, read, tokens, requests, history>>

-----------------------------------------------------------------------------
(* Hashes and tokens.                                                      *)

NoHash == [pbkdf2 |-> NoPassword]

\* The salt is left out: no property tells two hashes of a password apart.
HashPassword(pw) == [pbkdf2 |-> pw]
VerifyPassword(pw, h) == h /= NoHash /\ h = HashPassword(pw)

Enabled == hash /= NoHash

IssueToken == [secret |-> secret, exp |-> now + Ttl]

Valid(t) == t.secret = secret /\ now <= t.exp

NoRequest == [kind |-> "none"]
Request == [kind : {"setup", "login"}, pw : Password]
             \cup [kind : {"password"}, token : tokens, old : Password, pw : Password]

-----------------------------------------------------------------------------
(* The start.                                                              *)

Idle == [c \in Client |-> "idle"]

\* 32 random bytes: a secret that neither memory nor the row holds.
Fresh == CHOOSE s \in 1 .. 3 : s /= secret /\ db.auth_secret /= <<s>>

\* Mutant: a new secret is not saved.
LoadSecretUnsaved(miss, fail) ==
  IF "auth_secret" \in miss \/ db.auth_secret = Absent
    THEN [is |-> Fresh, row |-> db.auth_secret]
    ELSE [is |-> db.auth_secret[1], row |-> db.auth_secret]

\* The secret of the table, or a new one if there is none or it cannot be
\* read, saved over the row.
LoadSecret(miss, fail) ==
  IF "auth_secret" \in miss \/ db.auth_secret = Absent
    THEN [is |-> Fresh,
          row |-> IF "auth_secret" \in fail THEN db.auth_secret ELSE <<Fresh>>]
    ELSE [is |-> db.auth_secret[1], row |-> db.auth_secret]

\* Mutant: the environment's password is not saved.
LoadHashUnsaved(miss, fail, env) ==
  [is |-> IF env /= NoPassword THEN HashPassword(env)
          ELSE IF "admin_hash" \in miss \/ db.admin_hash = Absent THEN NoHash
          ELSE db.admin_hash[1],
   row |-> db.admin_hash]

\* The environment's password defines the account; otherwise the table does,
\* and a row that cannot be read is taken for no account.
LoadHash(miss, fail, env) ==
  IF env /= NoPassword
    THEN [is |-> HashPassword(env),
          row |-> IF "admin_hash" \in fail THEN db.admin_hash ELSE <<HashPassword(env)>>]
    ELSE [is |-> IF "admin_hash" \in miss \/ db.admin_hash = Absent THEN NoHash
                 ELSE db.admin_hash[1],
          row |-> db.admin_hash]

\* The rows that a start saves.
Saves(miss, env) ==
  {k \in Key : CASE k = "auth_secret" -> k \in miss \/ db.auth_secret = Absent
                 [] k = "admin_hash" -> env /= NoPassword}

\* The requests in flight are lost with the process; so is, for good, a secret
\* that is not in the table, with the tokens it signed.
Start ==
  /\ \E miss \in Missed, env \in EnvPassword :
     \E fail \in IF SaveMayFail THEN SUBSET Saves(miss, env) ELSE {{}} :
       LET s == LoadSecret(miss, fail)
           h == LoadHash(miss, fail, env) IN
       /\ secret' = s.is /\ hash' = h.is
       /\ db' = [auth_secret |-> s.row, admin_hash |-> h.row]
       /\ unsaved' = miss \cup fail
       /\ lost' = (lost \/ "admin_hash" \in unsaved \cup miss
                       \/ \E c \in Client : pc[c] = "save")
  /\ pc' = Idle
  /\ req' = [c \in Client |-> NoRequest]
  /\ read' = [c \in Client |-> NoHash]
  /\ during' = [c \in Client |-> {}]
  /\ crossed' = FALSE
  /\ tokens' = {t \in tokens : t.secret = secret' \/ db'.auth_secret = <<t.secret>>}
  /\ UNCHANGED <<now, requests>>

\* Before the first start: no row, no process.
Init ==
  /\ hash = NoHash /\ secret = 0 /\ db = [k \in Key |-> Absent]
  /\ now = 0 /\ tokens = {} /\ requests = 0
  /\ pc = Idle
  /\ req = [c \in Client |-> NoRequest]
  /\ read = [c \in Client |-> NoHash]
  /\ during = [c \in Client |-> {}]
  /\ unsaved = {} /\ lost = FALSE /\ crossed = FALSE

Tick ==
  /\ now < MaxTime
  /\ now' = now + 1
  /\ UNCHANGED <<hash, secret, db, pc, req, read, tokens, requests, history>>

-----------------------------------------------------------------------------
(* The handlers.                                                           *)

Begin(c) ==
  /\ pc[c] = "idle" /\ secret > 0
  /\ requests < MaxRequests
  /\ requests' = requests + 1
  /\ \E r \in Request :
       /\ req' = [req EXCEPT ![c] = r]
       /\ pc' = [pc EXCEPT ![c] = IF r.kind = "password" THEN "guard" ELSE "enabled"]
  /\ during' = [during EXCEPT ![c] = {hash}]
  /\ UNCHANGED <<hash, secret, db, now, read, tokens, unsaved, lost, crossed>>

GoTo(c, step) ==
  /\ pc' = [pc EXCEPT ![c] = step]
  /\ UNCHANGED req

\* The answer, whatever it says.
Answer(c) ==
  /\ pc' = [pc EXCEPT ![c] = "idle"]
  /\ req' = [req EXCEPT ![c] = NoRequest]

\* Mutant: the setup is not closed once there is an account.
CheckSetupOpen(c) ==
  /\ pc[c] = "enabled" /\ req[c].kind = "setup"
  /\ IF req[c].pw \in Short THEN Answer(c) ELSE GoTo(c, "set")
  /\ UNCHANGED <<hash, secret, db, now, read, tokens, requests, history>>

\* /_sentinel/setup: open as long as there is no account.
CheckSetup(c) ==
  /\ pc[c] = "enabled" /\ req[c].kind = "setup"
  /\ IF Enabled \/ req[c].pw \in Short THEN Answer(c) ELSE GoTo(c, "set")
  /\ UNCHANGED <<hash, secret, db, now, read, tokens, requests, history>>

\* /_sentinel/login, before the password is looked at.
CheckLogin(c) ==
  /\ pc[c] = "enabled" /\ req[c].kind = "login"
  /\ IF Enabled THEN GoTo(c, "read") ELSE Answer(c)
  /\ UNCHANGED <<hash, secret, db, now, read, tokens, requests, history>>

\* The middleware, before /_sentinel/password and the rest of the API.
Guard(c) ==
  /\ pc[c] = "guard"
  /\ IF Valid(req[c].token) THEN GoTo(c, "read") ELSE Answer(c)
  /\ UNCHANGED <<hash, secret, db, now, read, tokens, requests, history>>

\* Verify takes the hash under the lock, and compares after releasing it.
ReadHash(c) ==
  /\ pc[c] = "read"
  /\ read' = [read EXCEPT ![c] = hash]
  /\ GoTo(c, "compare")
  /\ UNCHANGED <<hash, secret, db, now, tokens, requests, history>>

Compare(c) ==
  LET r == req[c] IN
  /\ pc[c] = "compare"
  /\ CASE r.kind = "login" ->
            IF VerifyPassword(r.pw, read[c]) THEN GoTo(c, "token") ELSE Answer(c)
       [] r.kind = "password" ->
            IF VerifyPassword(r.old, read[c]) /\ r.pw \notin Short
              THEN GoTo(c, "set") ELSE Answer(c)
  /\ read' = [read EXCEPT ![c] = NoHash]
  /\ UNCHANGED <<hash, secret, db, now, tokens, requests, history>>

\* SetPassword has computed a hash: under the lock.
SetPassword(c) ==
  /\ pc[c] = "set"
  /\ hash' = HashPassword(req[c].pw)
  /\ during' = [d \in Client |-> IF pc[d] = "idle" THEN {} ELSE during[d] \cup {hash'}]
  /\ crossed' = \E d \in Client : pc[d] = "save"
  /\ GoTo(c, "save")
  /\ UNCHANGED <<secret, db, now, read, tokens, requests, unsaved, lost>>

\* Mutant: only the first password is saved.
SaveOnlySetup(c) ==
  /\ pc[c] = "save"
  /\ \/ /\ db' = [db EXCEPT !.admin_hash = IF req[c].kind = "setup"
                                 THEN <<HashPassword(req[c].pw)>> ELSE @]
        /\ unsaved' = unsaved \ {"admin_hash"}
     \/ /\ SaveMayFail
        /\ unsaved' = unsaved \cup {"admin_hash"}
        /\ UNCHANGED db
  /\ IF req[c].kind = "setup" THEN GoTo(c, "token") ELSE Answer(c)
  /\ UNCHANGED <<hash, secret, now, read, tokens, requests, during, lost, crossed>>

\* The save callback, after the lock is released, whose error is ignored.
Save(c) ==
  /\ pc[c] = "save"
  /\ \/ /\ db' = [db EXCEPT !.admin_hash = <<HashPassword(req[c].pw)>>]
        /\ unsaved' = unsaved \ {"admin_hash"}
     \/ /\ SaveMayFail
        /\ unsaved' = unsaved \cup {"admin_hash"}
        /\ UNCHANGED db
  /\ IF req[c].kind = "setup" THEN GoTo(c, "token") ELSE Answer(c)
  /\ UNCHANGED <<hash, secret, now, read, tokens, requests, during, lost, crossed>>

Token(c) ==
  /\ pc[c] = "token"
  /\ tokens' = tokens \cup {IssueToken}
  /\ Answer(c)
  /\ UNCHANGED <<hash, secret, db, now, read, requests, history>>

-----------------------------------------------------------------------------
Handle(c) ==
  \/ Begin(c) \/ CheckSetup(c) \/ CheckLogin(c) \/ Guard(c) \/ ReadHash(c)
  \/ Compare(c) \/ SetPassword(c) \/ Save(c) \/ Token(c)

Next == Start \/ Tick \/ \E c \in Client : Handle(c)

Spec == Init /\ [][Next]_vars

-----------------------------------------------------------------------------
(* Properties.                                                             *)

Hash == {NoHash} \cup {HashPassword(pw) : pw \in Password}
Step == {"idle", "enabled", "guard", "read", "compare", "set", "save", "token"}

\* Every variable has its type, and a client without a request is idle.
TypeOK ==
  /\ hash \in Hash /\ secret \in 0 .. 3 /\ now \in 0 .. MaxTime
  /\ DOMAIN db = Key
  /\ db.admin_hash \in {Absent} \cup {<<h>> : h \in Hash \ {NoHash}}
  /\ db.auth_secret \in {Absent} \cup {<<s>> : s \in 1 .. 3}
  /\ tokens \subseteq [secret : 1 .. 3, exp : Ttl .. MaxTime + Ttl]
  /\ pc \in [Client -> Step] /\ req \in [Client -> Request \cup {NoRequest}]
  /\ read \in [Client -> Hash] /\ during \in [Client -> SUBSET Hash]
  /\ \A c \in Client : pc[c] = "idle" <=> req[c] = NoRequest
  /\ requests \in 0 .. MaxRequests
  /\ unsaved \subseteq Key /\ lost \in BOOLEAN /\ crossed \in BOOLEAN

\* What entitles a request to go on: that there was no account, or that the
\* password it gives was the account's.
Claims(r) ==
  CASE r.kind = "setup" -> NoHash
    [] r.kind = "login" -> HashPassword(r.pw)
    [] r.kind = "password" -> HashPassword(r.old)

\* setup: "ouvert tant qu'aucun compte n'existe ; refusé ensuite", password:
\* "exige l'ancien", and login: whatever the requests that run at the same time
\* do between its check and its use, a request sets the password or is given a
\* token only if what it claims was so at some moment while it ran.
EntitledWhileRunning ==
  \A c \in Client : pc[c] \in {"set", "save", "token"} => Claims(req[c]) \in during[c]

\* Nobody holds a session on a gateway that believes it has no account, and where
\* anyone may create one, unless an account was lost: its row could not be saved
\* or read, or the process stopped after a request had set the password (and
\* another could already log in with it) and before it was saved.
NoSessionWithoutAccount ==
  secret > 0 /\ ~Enabled /\ ~lost => \A t \in tokens : ~Valid(t)

\* "La persistance se fait via un callback save": once the requests that set the
\* password are over, unless two of them overlapped or an error kept the row from
\* being saved or read, the next start finds the account that memory holds.
AccountSurvives ==
  /\ "admin_hash" \notin unsaved /\ ~crossed
  /\ \A c \in Client : pc[c] /= "save"
  => db.admin_hash = IF Enabled THEN <<hash>> ELSE Absent

\* Tokens are "vérifiables hors-ligne, avec expiration": nothing but time, or a
\* row of the secret that could not be saved or read, ends a session: neither
\* another request, nor a new password, nor a restart.
SessionsLast ==
  [][\A t \in tokens : Valid(t) /\ now' <= t.exp =>
        Valid(t)' \/ "auth_secret" \in unsaved \cup unsaved']_vars

=============================================================================
