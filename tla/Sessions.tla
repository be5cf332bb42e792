------------------------------ MODULE Sessions ------------------------------
(***************************************************************************)
(* Sign-up, sign-in, refresh and logout (services/api/auth/jwt_routes.py), *)
(* over the tables users, refresh_tokens and audit_logs.                   *)
(*                                                                         *)
(* Each handler first awaits the rate limiter; what follows uses a driver  *)
(* that blocks, so from there to its answer a handler keeps the one event  *)
(* loop of the one API process.  SELECT, UPDATE and INSERT take no lock:   *)
(* that nothing awaits between them is all that keeps two handlers apart.  *)
(* A transaction is opened by one action and ended by another, so that     *)
(* tokens may expire, and the database fail, in between.                   *)
(*                                                                         *)
(* Tokens are identified with their hashes and their token_ids, which are  *)
(* all fresh; access tokens have no state.  Users sign in, present any     *)
(* refresh token they ever received, on any number of calls at a time.     *)
(***************************************************************************)
CONSTANTS
  Users,    \* user names
  Tokens,   \* refresh tokens create_refresh_token may make
  Calls,    \* bound: how many HTTP calls are in flight at once
  None      \* no token, no handler

ASSUME SessionAssumption == None \notin Tokens \cup Calls

VARIABLES
  users,    \* table users: column username
  row,      \* table refresh_tokens: no row, revoked_date NULL, or a date
  owner,    \* table refresh_tokens: column user_id
  audit,    \* table audit_logs: event_type and user_id
  expired,  \* the tokens whose exp and expiration_date have passed
  loop,     \* the call whose handler is inside a transaction
  call,     \* the calls in flight
  known,    \* clients: the tokens that reached a user
  origin,   \* history: the token of the sign-in a token descends from
  parted    \* history: sign-ins, by their first token, of which an answer
            \* was lost or which were asked to log out

tableVars  == <<users, row, owner, audit>>
clientVars == <<call, known, parted>>
vars == <<tableVars, expired, loop, clientVars, origin>>

Free  == [stage |-> "free"]
Kinds == {"sign-up", "sign-in", "refresh", "logout"}
CallRecords ==
  [kind : Kinds, user : Users, token : Tokens \cup {None},
   stage : {"sent", "open", "granted"}]

TypeOK ==
  /\ users \subseteq Users
  /\ row    \in [Tokens -> {"none", "live", "revoked"}]
  /\ owner  \in [Tokens -> Users \cup {None}]
  /\ \A t \in Tokens : row[t] # "none" => owner[t] \in Users
  /\ audit \subseteq {"signup", "login", "login_failed", "logout"} \X (Users \cup {None})
  /\ expired \subseteq Tokens
  /\ loop   \in Calls \cup {None}
  /\ call   \in [Calls -> {Free} \cup CallRecords]
  /\ \A c \in Calls : call[c].stage = "granted" => call[c].token \in Tokens
  /\ known  \in [Users -> SUBSET Tokens]
  /\ origin \in [Tokens -> Tokens \cup {None}]
  /\ parted \subseteq Tokens

Init ==
  /\ users  = {}
  /\ row    = [t \in Tokens |-> "none"]
  /\ owner  = [t \in Tokens |-> None]
  /\ audit  = {}
  /\ expired = {}
  /\ loop   = None
  /\ call   = [c \in Calls |-> Free]
  /\ known  = [u \in Users |-> {}]
  /\ origin = [t \in Tokens |-> None]
  /\ parted = {}

-----------------------------------------------------------------------------
(* A client calls. *)
Send(c, kind, u, t) ==
  /\ call[c] = Free
  /\ \/ kind \in {"sign-up", "sign-in"} /\ t = None
     \/ kind \in {"refresh", "logout"} /\ t \in known[u]
  /\ call'   = [call EXCEPT ![c] = [kind |-> kind, user |-> u, token |-> t,
                                    stage |-> "sent"]]
  /\ parted' = IF kind = "logout" THEN parted \cup {origin[t]} ELSE parted
  /\ UNCHANGED <<tableVars, expired, loop, known, origin>>

Begin(c) == call' = [call EXCEPT ![c].stage = "open"]

(* An answer without tokens, 201, 400, 401, 409, 429 or 500, tells a client *)
(* nothing that it keeps here: the call is over.                           *)
Answer(c) == call' = [call EXCEPT ![c] = Free]

(* Slip: an await, or a second process, in the middle of a transaction. *)
MayRunAtOnce(c) == call[c].stage = "sent"

(* The event loop resumes a handler only when no other one is running. *)
MayRun(c) == call[c].stage = "sent" /\ loop = None

(* 429 of the rate limiter, 400 for a body that is too short or empty, 500 *)
(* when the database cannot be reached.                                    *)
Refuse(c) ==
  /\ MayRun(c)
  /\ Answer(c)
  /\ UNCHANGED <<tableVars, expired, loop, known, parted, origin>>

(* write_audit_event: its failure is swallowed.  Nor is it called when a   *)
(* statement took effect and this was not heard of (500).                  *)
WriteAuditEvent(event, u) == audit' \in {audit, audit \cup {<<event, u>>}}

(* signup: the UNIQUE constraint decides who has a name. *)
SignUp(c) ==
  LET u == call[c].user IN
  /\ MayRun(c)
  /\ call[c].kind = "sign-up"
  /\ u \notin users
  /\ users' = users \cup {u}
  /\ Answer(c)
  /\ WriteAuditEvent("signup", u)
  /\ UNCHANGED <<row, owner, expired, loop, known, parted, origin>>

(* Slip: the audit event is written before the token is stored. *)
SignInAuditedEarly(c) ==
  /\ MayRun(c)
  /\ call[c].kind = "sign-in"
  /\ call[c].user \in users
  /\ loop' = c
  /\ Begin(c)
  /\ WriteAuditEvent("login", call[c].user)
  /\ UNCHANGED <<users, row, owner, expired, known, parted, origin>>

(* signin up to its INSERT, with the right password *)
SignIn(c) ==
  /\ MayRun(c)
  /\ call[c].kind = "sign-in"
  /\ call[c].user \in users
  /\ loop' = c
  /\ Begin(c)
  /\ UNCHANGED <<tableVars, expired, known, parted, origin>>

(* signin with an unknown name, which is recorded without a user, or with  *)
(* a wrong password                                                        *)
FailSignIn(c) ==
  LET u == call[c].user IN
  /\ MayRun(c)
  /\ call[c].kind = "sign-in"
  /\ Answer(c)
  /\ WriteAuditEvent("login_failed", IF u \in users THEN u ELSE None)
  /\ UNCHANGED <<users, row, owner, expired, loop, known, parted, origin>>

(* Slip: the SELECT without its condition on revoked_date. *)
ValidOnceIssued(t) == row[t] # "none" /\ t \notin expired

Valid(t) == row[t] = "live" /\ t \notin expired

(* refresh up to its INSERT: decode_token, the SELECT and the UPDATE, which *)
(* nobody sees before the commit.  A token not valid is answered by Refuse. *)
Refresh(c) ==
  /\ MayRun(c)
  /\ call[c].kind = "refresh"
  /\ Valid(call[c].token)
  /\ loop' = c
  /\ Begin(c)
  /\ UNCHANGED <<tableVars, expired, known, parted, origin>>

-----------------------------------------------------------------------------
(* The commit of the transaction of c, which inserts u and, in a refresh,  *)
(* revokes the token presented.                                            *)
Revoked(c) == IF call[c].kind = "refresh" THEN {call[c].token} ELSE {}

Chain(c, u) == IF call[c].kind = "refresh" THEN origin[call[c].token] ELSE u

(* Slip: the row is inserted without its user_id. *)
InsertTokenOfNobody(c, u) ==
  /\ row[u] = "none"
  /\ row'    = [row EXCEPT ![u] = "live"]
  /\ origin' = [origin EXCEPT ![u] = Chain(c, u)]
  /\ UNCHANGED owner

InsertToken(c, u) ==
  /\ row[u] = "none"
  /\ row'    = [t \in Tokens |-> IF t = u THEN "live"
                                 ELSE IF t \in Revoked(c) THEN "revoked" ELSE row[t]]
  /\ owner'  = [owner EXCEPT ![u] = call[c].user]
  /\ origin' = [origin EXCEPT ![u] = Chain(c, u)]

Commit(c, u) ==
  /\ call[c].stage = "open"
  /\ InsertToken(c, u)
  /\ loop' = None
  /\ call' = [call EXCEPT ![c].stage = "granted", ![c].token = u]
  /\ IF call[c].kind = "sign-in" THEN WriteAuditEvent("login", call[c].user)
                                 ELSE UNCHANGED audit
  /\ UNCHANGED <<users, expired, known, parted>>

(* The commit takes effect but its answer does not arrive: 500. *)
CommitUnheard(c, u) ==
  /\ call[c].stage = "open"
  /\ InsertToken(c, u)
  /\ loop' = None
  /\ Answer(c)
  /\ parted' = parted \cup {Chain(c, u)}
  /\ UNCHANGED <<users, audit, expired, known>>

(* Slip: the UPDATE was committed by itself. *)
RollbackHalf(c) ==
  /\ call[c].stage = "open"
  /\ loop' = None
  /\ Answer(c)
  /\ row' = [t \in Tokens |-> IF t \in Revoked(c) THEN "revoked" ELSE row[t]]
  /\ UNCHANGED <<users, owner, audit, expired, known, parted, origin>>

(* psycopg.Error before the commit: the connection rolls back. *)
Rollback(c) ==
  /\ call[c].stage = "open"
  /\ loop' = None
  /\ Answer(c)
  /\ UNCHANGED <<tableVars, expired, known, parted, origin>>

(* logout: any token is accepted, its row marked revoked if it has one. *)
Logout(c) ==
  /\ MayRun(c)
  /\ call[c].kind = "logout"
  /\ row' = [row EXCEPT ![call[c].token] = "revoked"]
  /\ Answer(c)
  /\ WriteAuditEvent("logout", None)
  /\ UNCHANGED <<users, owner, expired, loop, known, parted, origin>>

-----------------------------------------------------------------------------
Deliver(c) ==
  /\ call[c].stage = "granted"
  /\ call' = [call EXCEPT ![c] = Free]
  /\ known' = [known EXCEPT ![call[c].user] = @ \cup {call[c].token}]
  /\ UNCHANGED <<tableVars, expired, loop, parted, origin>>

(* The client gave up, its connection broke, or the process died. *)
Lose(c) ==
  /\ call[c].stage = "granted"
  /\ call' = [call EXCEPT ![c] = Free]
  /\ parted' = parted \cup {origin[call[c].token]}
  /\ UNCHANGED <<tableVars, expired, loop, known, origin>>

(* JWT_DAYS have passed since create_refresh_token. *)
Expire(t) ==
  /\ row[t] # "none"
  /\ t \notin expired
  /\ expired' = expired \cup {t}
  /\ UNCHANGED <<tableVars, loop, clientVars, origin>>

Next ==
  \/ \E c \in Calls, kind \in Kinds, u \in Users, t \in Tokens \cup {None} :
        Send(c, kind, u, t)
  \/ \E c \in Calls : \/ Refuse(c) \/ SignUp(c) \/ SignIn(c) \/ FailSignIn(c)
                      \/ Refresh(c) \/ Rollback(c) \/ Logout(c)
                      \/ Deliver(c) \/ Lose(c)
  \/ \E c \in Calls, u \in Tokens : Commit(c, u) \/ CommitUnheard(c, u)
  \/ \E t \in Tokens : Expire(t)

Spec == Init /\ [][Next]_vars

-----------------------------------------------------------------------------
(* A sign-in has one live refresh token at most, however often and on how  *)
(* many calls at once its tokens are presented, and whatever commits are   *)
(* not heard of: the rotation of jwt_routes.py:167-207.                    *)
LiveOf(r) == {t \in Tokens : row[t] = "live" /\ origin[t] = r}

OneLivePerSignIn ==
  \A t, u \in Tokens :
    row[t] = "live" /\ row[u] = "live" /\ origin[t] = origin[u] => t = u

(* Nobody is signed out by accident: a user who did not log out, lost no   *)
(* answer and waits for none still holds a live token of each sign-in,     *)
(* through failed refreshes and tokens shown twice (it may have expired).  *)
StrandedOnlyByLoss ==
  \A v \in Users : \A t \in known[v] :
    \/ LiveOf(origin[t]) \cap known[v] # {}
    \/ origin[t] \in parted
    \/ \E c \in Calls : call[c].stage = "granted" /\ origin[call[c].token] = origin[t]

(* The audit log records what happened: a "login" of a user who got a row  *)
(* in refresh_tokens, a "signup" of one who got a row in users.            *)
AuditTellsTheTruth ==
  \A u \in Users :
    /\ <<"signup", u>> \in audit => u \in users
    /\ <<"login", u>> \in audit => \E t \in Tokens : owner[t] = u /\ row[t] # "none"

(* The handlers keep the promise of SessionChain: tokens are exchanged in  *)
(* a chain without forks, and no spent or revoked one is ever good again.  *)
SessionsPromised == INSTANCE SessionChain WITH
  issued  <- {t \in Tokens : row[t] # "none"},
  current <- [r \in Tokens |-> LiveOf(r)]

ImplementsSessionChain == SessionsPromised!Spec
=============================================================================
