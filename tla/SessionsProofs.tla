--------------------------- MODULE SessionsProofs ---------------------------
(***************************************************************************)
(* Theorems about Sessions, for any users, tokens and number of calls in   *)
(* flight: the rotation of refresh tokens keeps the promise of             *)
(* SessionChain.  The argument: at most one handler is inside a            *)
(* transaction, so that the token its SELECT found live is still live, and *)
(* still the only live one of its sign-in, when it commits.                *)
(***************************************************************************)
EXTENDS Sessions, TLAPS

Open(c) == call[c].stage = "open"

-----------------------------------------------------------------------------
(* Type correctness *)

LEMMA TypeInit == Init => TypeOK
<1> SUFFICES ASSUME Init PROVE TypeOK
  OBVIOUS
<1>1. call \in [Calls -> {Free} \cup CallRecords]
  BY DEF Init
<1>2. \A c \in Calls : call[c].stage # "granted"
  BY DEF Init, Free
<1>3. /\ row \in [Tokens -> {"none", "live", "revoked"}]
      /\ \A t \in Tokens : row[t] = "none"
  BY DEF Init
<1>4. /\ owner  \in [Tokens -> Users \cup {None}]
      /\ origin \in [Tokens -> Tokens \cup {None}]
      /\ known  \in [Users -> SUBSET Tokens]
  BY DEF Init
<1> QED
  BY <1>1, <1>2, <1>3, <1>4 DEF Init, TypeOK

(* A call that was sent has all its fields. *)
LEMMA CallFields ==
  ASSUME TypeOK, NEW c \in Calls, call[c].stage # "free"
  PROVE  /\ call[c] \in CallRecords
         /\ call[c].kind \in Kinds /\ call[c].user \in Users
         /\ call[c].token \in Tokens \cup {None}
BY DEF TypeOK, Free, CallRecords

(* What Begin and Answer change: the stage of one call. *)
Moved(c, s) == IF s = "open" THEN Begin(c) ELSE Answer(c)

LEMMA AnswerStep ==
  ASSUME TypeOK, NEW c \in Calls, call[c].stage # "free",
         NEW s \in {"open", "free"}, Moved(c, s)
  PROVE  /\ call' \in [Calls -> {Free} \cup CallRecords]
         /\ \A d \in Calls : call'[d].stage = "granted" => call'[d].token \in Tokens
         /\ \A d \in Calls \ {c} : call'[d] = call[d]
         /\ call'[c].stage = s
         /\ s = "open" => /\ call'[c].kind = call[c].kind
                          /\ call'[c].token = call[c].token
                          /\ call'[c].user = call[c].user
<1>1. call[c] \in CallRecords /\ call \in [Calls -> {Free} \cup CallRecords]
  BY CallFields DEF TypeOK
<1> DEFINE x == IF s = "open" THEN [call[c] EXCEPT !.stage = s] ELSE Free
<1>2. call' = [call EXCEPT ![c] = x]
  BY <1>1 DEF Moved, Begin, Answer
<1>3. /\ x \in {Free} \cup CallRecords
      /\ x.stage = s
      /\ s = "open" => /\ x.kind = call[c].kind /\ x.token = call[c].token
                       /\ x.user = call[c].user
  <2>1. CASE s = "open"
    BY <1>1, <2>1 DEF CallRecords
  <2>2. CASE s = "free"
    BY <2>2 DEF Free
  <2> QED
    BY <2>1, <2>2
<1> HIDE DEF x
<1>4. call'[c] = x /\ \A d \in Calls \ {c} : call'[d] = call[d]
  BY <1>1, <1>2
<1>5. call' \in [Calls -> {Free} \cup CallRecords]
  BY <1>1, <1>2, <1>3
<1>6. \A d \in Calls : call'[d].stage = "granted" => call'[d].token \in Tokens
  BY <1>3, <1>4 DEF TypeOK
<1> QED
  BY <1>3, <1>4, <1>5, <1>6

(* What a grant changes: the stage and the token of one call. *)
LEMMA GrantStep ==
  ASSUME TypeOK, NEW c \in Calls, call[c].stage # "free", NEW u \in Tokens,
         call' = [call EXCEPT ![c].stage = "granted", ![c].token = u]
  PROVE  /\ call' \in [Calls -> {Free} \cup CallRecords]
         /\ \A d \in Calls : call'[d].stage = "granted" => call'[d].token \in Tokens
         /\ \A d \in Calls \ {c} : call'[d] = call[d]
         /\ call'[c].stage = "granted" /\ call'[c].kind = call[c].kind
         /\ call'[c].token = u /\ call'[c].user = call[c].user
<1>1. call[c] \in CallRecords
  BY CallFields
<1> DEFINE x == [call[c] EXCEPT !.stage = "granted", !.token = u]
<1>2. x \in CallRecords
  BY <1>1 DEF CallRecords
<1>3. /\ x.stage = "granted" /\ x.kind = call[c].kind /\ x.token = u
      /\ x.user = call[c].user
  BY <1>1 DEF CallRecords
<1>4. call \in [Calls -> {Free} \cup CallRecords]
  BY DEF TypeOK
<1>5. call' = [call EXCEPT ![c] = x]
  BY <1>4
<1> HIDE DEF x
<1>6. call'[c] = x /\ \A d \in Calls \ {c} : call'[d] = call[d]
  BY <1>4, <1>5
<1>7. call' \in [Calls -> {Free} \cup CallRecords]
  BY <1>2, <1>4, <1>5
<1>8. \A d \in Calls : call'[d].stage = "granted" => call'[d].token \in Tokens
  BY <1>3, <1>6 DEF TypeOK
<1> QED
  BY <1>3, <1>6, <1>7, <1>8

(* What the insertion of a row writes has the right types. *)
LEMMA InsertTypes ==
  ASSUME TypeOK, NEW c \in Calls, call[c].stage # "free", NEW u \in Tokens,
         InsertToken(c, u),
         call[c].kind = "refresh" => call[c].token \in Tokens
  PROVE  /\ row'    \in [Tokens -> {"none", "live", "revoked"}]
         /\ owner'  \in [Tokens -> Users \cup {None}]
         /\ origin' \in [Tokens -> Tokens \cup {None}]
         /\ Chain(c, u) \in Tokens \cup {None}
         /\ call[c].kind = "refresh" \/ Chain(c, u) \in Tokens
<1>1. call[c].user \in Users
  BY CallFields
<1>2. row' \in [Tokens -> {"none", "live", "revoked"}]
  BY DEF TypeOK, InsertToken
<1>3. owner' \in [Tokens -> Users \cup {None}]
  BY <1>1 DEF TypeOK, InsertToken
<1>4. /\ Chain(c, u) \in Tokens \cup {None}
      /\ call[c].kind = "refresh" \/ Chain(c, u) \in Tokens
  BY DEF TypeOK, Chain
<1>5. origin' \in [Tokens -> Tokens \cup {None}]
  BY <1>4 DEF TypeOK, InsertToken
<1> QED
  BY <1>2, <1>3, <1>4, <1>5

(* An audit event of a known kind keeps the type of the table. *)
LEMMA AuditTypes ==
  ASSUME TypeOK, NEW e \in {"signup", "login", "login_failed", "logout"},
         NEW u \in Users \cup {None}, WriteAuditEvent(e, u)
  PROVE  audit' \subseteq {"signup", "login", "login_failed", "logout"} \X (Users \cup {None})
BY DEF TypeOK, WriteAuditEvent

-----------------------------------------------------------------------------
(* The inductive invariant *)

(* What a client presents it was given, and what it was given has a row.   *)
CallsPresentRows ==
  /\ \A v \in Users : \A t \in known[v] : row[t] # "none"
  /\ \A c \in Calls : call[c].stage # "free" =>
       /\ call[c].kind \in {"refresh", "logout"} => call[c].token \in Tokens
       /\ call[c].token # None => row[call[c].token] # "none"

(* One transaction at a time, over a token that is still live. *)
OneTransaction ==
  \A c \in Calls : Open(c) =>
    /\ loop = c
    /\ call[c].kind \in {"sign-in", "refresh"}
    /\ call[c].kind = "refresh" => row[call[c].token] = "live"

(* A token has a row exactly when it descends from a sign-in with a row. *)
RowsHaveOrigins ==
  \A t \in Tokens :
    /\ row[t] # "none" => origin[t] \in Tokens
    /\ origin[t] # None => row[t] # "none" /\ row[origin[t]] # "none"

SessionInv ==
  TypeOK /\ CallsPresentRows /\ OneTransaction /\ RowsHaveOrigins /\ OneLivePerSignIn

LEMMA SessionInit == Init => SessionInv
<1> SUFFICES ASSUME Init PROVE SessionInv
  OBVIOUS
<1>1. \A c \in Calls : call[c].stage = "free"
  BY DEF Init, Free
<1>2. \A t \in Tokens : row[t] = "none" /\ origin[t] = None
  BY DEF Init
<1>3. \A v \in Users : known[v] = {}
  BY DEF Init
<1> QED
  BY <1>1, <1>2, <1>3, TypeInit DEF SessionInv, CallsPresentRows, OneTransaction, Open,
     RowsHaveOrigins, OneLivePerSignIn

-----------------------------------------------------------------------------
(* The handlers that commit no token: they move one call on, and may take  *)
(* or leave the loop, but write neither refresh_tokens nor the clients.    *)
Moves(c) ==
  \/ Refuse(c) \/ SignUp(c) \/ SignIn(c) \/ FailSignIn(c) \/ Refresh(c) \/ Rollback(c)

LEMMA MoveEffects ==
  ASSUME SessionInv, NEW c \in Calls, Moves(c)
  PROVE  /\ UNCHANGED <<row, owner, expired, known, parted, origin>>
         /\ call[c].stage \in {"sent", "open"}
         /\ \E s \in {"open", "free"} :
              /\ Moved(c, s)
              /\ s = "open" => /\ loop' = c
                               /\ call[c].kind \in {"sign-in", "refresh"}
                               /\ call[c].kind = "refresh" => row[call[c].token] = "live"
         /\ \A d \in Calls \ {c} : ~Open(d)
<1>1. UNCHANGED <<row, owner, expired, known, parted, origin>>
  BY DEF Moves, Refuse, SignUp, SignIn, FailSignIn, Refresh, Rollback, tableVars
<1>2. \/ MayRun(c)
      \/ call[c].stage = "open"
  BY DEF Moves, Refuse, SignUp, SignIn, FailSignIn, Refresh, Rollback
<1>3. \E s \in {"open", "free"} :
        /\ Moved(c, s)
        /\ s = "open" => /\ loop' = c
                         /\ call[c].kind \in {"sign-in", "refresh"}
                         /\ call[c].kind = "refresh" => row[call[c].token] = "live"
  BY DEF Moves, Refuse, SignUp, SignIn, FailSignIn, Refresh, Rollback, Valid, Moved
<1>4. \A d \in Calls \ {c} : ~Open(d)
  BY <1>2, SessionAssumption DEF SessionInv, OneTransaction, Open, MayRun
<1> QED
  BY <1>1, <1>2, <1>3, <1>4 DEF MayRun

LEMMA MoveTypes ==
  ASSUME SessionInv, NEW c \in Calls, Moves(c)
  PROVE  TypeOK'
<1>1. TypeOK
  BY DEF SessionInv
<1>2. PICK s \in {"open", "free"} : Moved(c, s)
  BY MoveEffects
<1>3. UNCHANGED <<row, owner, expired, known, parted, origin>> /\ call[c].stage # "free"
  BY MoveEffects
<1>4. /\ call' \in [Calls -> {Free} \cup CallRecords]
      /\ \A d \in Calls : call'[d].stage = "granted" => call'[d].token \in Tokens
  BY <1>1, <1>2, <1>3, AnswerStep
<1>5. call[c].user \in Users
  BY <1>1, <1>3, CallFields
<1>6. users' \subseteq Users
  BY <1>1, <1>5
  DEF TypeOK, Moves, Refuse, SignUp, SignIn, FailSignIn, Refresh, Rollback, tableVars
<1>7. \/ UNCHANGED audit
      \/ \E e \in {"signup", "login_failed"}, u \in Users \cup {None} : WriteAuditEvent(e, u)
  BY <1>5 DEF Moves, Refuse, SignUp, SignIn, FailSignIn, Refresh, Rollback, tableVars
<1>8. audit' \subseteq {"signup", "login", "login_failed", "logout"} \X (Users \cup {None})
  BY <1>1, <1>7, AuditTypes DEF TypeOK
<1>9. loop' \in Calls \cup {None}
  BY <1>1 DEF TypeOK, Moves, Refuse, SignUp, SignIn, FailSignIn, Refresh, Rollback
<1> QED
  BY <1>1, <1>3, <1>4, <1>6, <1>8, <1>9 DEF TypeOK

LEMMA MovesKeepInv ==
  ASSUME SessionInv, NEW c \in Calls, Moves(c)
  PROVE  SessionInv'
<1>1. TypeOK /\ TypeOK'
  BY MoveTypes DEF SessionInv
<1>2. PICK s \in {"open", "free"} :
        /\ Moved(c, s)
        /\ s = "open" => /\ loop' = c
                         /\ call[c].kind \in {"sign-in", "refresh"}
                         /\ call[c].kind = "refresh" => row[call[c].token] = "live"
  BY MoveEffects
<1>3. /\ UNCHANGED <<row, known, origin>> /\ call[c].stage # "free"
      /\ \A d \in Calls \ {c} : ~Open(d)
  BY MoveEffects
<1>4. /\ \A d \in Calls \ {c} : call'[d] = call[d]
      /\ call'[c].stage = s
      /\ s = "open" => call'[c].kind = call[c].kind /\ call'[c].token = call[c].token
  BY <1>1, <1>2, <1>3, AnswerStep
<1>5. CallsPresentRows'
  BY <1>3, <1>4 DEF SessionInv, CallsPresentRows
<1>6. OneTransaction'
  BY <1>2, <1>3, <1>4 DEF OneTransaction, Open
<1>7. RowsHaveOrigins' /\ OneLivePerSignIn'
  BY <1>3 DEF SessionInv, RowsHaveOrigins, OneLivePerSignIn
<1> QED
  BY <1>1, <1>5, <1>6, <1>7 DEF SessionInv

-----------------------------------------------------------------------------
(* The handlers that commit a token. *)
Commits(c, u) == Commit(c, u) \/ CommitUnheard(c, u)

LEMMA CommitEffects ==
  ASSUME SessionInv, NEW c \in Calls, NEW u \in Tokens, Commits(c, u)
  PROVE  /\ Open(c) /\ InsertToken(c, u)
         /\ UNCHANGED <<users, expired, known>> /\ loop' = None
         /\ \A d \in Calls \ {c} : call'[d] = call[d] /\ ~Open(d)
         /\ call'[c].stage \in {"granted", "free"}
         /\ call'[c].stage # "free" => /\ call'[c].kind = call[c].kind
                                       /\ call'[c].token = u
                                       /\ call'[c].user = call[c].user
         /\ call[c].kind \in {"sign-in", "refresh"}
         /\ call[c].kind = "refresh" => /\ call[c].token \in Tokens
                                        /\ row[call[c].token] = "live"
<1>1. /\ Open(c) /\ InsertToken(c, u)
      /\ UNCHANGED <<users, expired, known>> /\ loop' = None
  BY DEF Commits, Commit, CommitUnheard, Open
<1>2. TypeOK /\ call[c].stage # "free"
  BY <1>1 DEF SessionInv, Open
<1>3. /\ \A d \in Calls \ {c} : call'[d] = call[d]
      /\ call'[c].stage \in {"granted", "free"}
      /\ call'[c].stage # "free" => /\ call'[c].kind = call[c].kind
                                    /\ call'[c].token = u
                                    /\ call'[c].user = call[c].user
  <2>1. CASE Commit(c, u)
    BY <1>2, <2>1, GrantStep DEF Commit
  <2>2. CASE CommitUnheard(c, u)
    BY <1>2, <2>2, AnswerStep DEF CommitUnheard, Moved
  <2> QED
    BY <2>1, <2>2 DEF Commits
<1>4. \A d \in Calls \ {c} : ~Open(d)
  BY <1>1 DEF SessionInv, OneTransaction
<1>5. /\ call[c].kind \in {"sign-in", "refresh"}
      /\ call[c].kind = "refresh" => /\ call[c].token \in Tokens
                                     /\ row[call[c].token] = "live"
  BY <1>1, <1>2 DEF SessionInv, OneTransaction, CallsPresentRows
<1> QED
  BY <1>1, <1>3, <1>4, <1>5

(* What a commit does to the rows: u is new and live, and a token          *)
(* exchanged for it is revoked.                                            *)
LEMMA CommitRows ==
  ASSUME SessionInv, NEW c \in Calls, NEW u \in Tokens, Commits(c, u)
  PROVE  /\ row[u] = "none" /\ origin[u] = None
         /\ row'[u] = "live" /\ origin'[u] = Chain(c, u) /\ Chain(c, u) \in Tokens
         /\ \A t \in Tokens \ {u} : /\ origin'[t] = origin[t]
                                    /\ row'[t] = IF t \in Revoked(c) THEN "revoked" ELSE row[t]
         /\ call[c].kind = "refresh" =>
              /\ Revoked(c) = {call[c].token} /\ call[c].token # u
              /\ Chain(c, u) = origin[call[c].token]
         /\ call[c].kind # "refresh" => Revoked(c) = {} /\ Chain(c, u) = u
<1>1. /\ InsertToken(c, u)
      /\ call[c].kind = "refresh" => /\ call[c].token \in Tokens
                                     /\ row[call[c].token] = "live"
  BY CommitEffects
<1>2. row[u] = "none" /\ origin[u] = None
  BY <1>1 DEF InsertToken, SessionInv, RowsHaveOrigins
<1>3. call[c].kind = "refresh" => origin[call[c].token] \in Tokens
  BY <1>1 DEF SessionInv, RowsHaveOrigins
<1>4. Chain(c, u) \in Tokens
  BY <1>3 DEF Chain
<1>5. /\ row'[u] = "live" /\ origin'[u] = Chain(c, u)
      /\ \A t \in Tokens \ {u} : /\ origin'[t] = origin[t]
                                 /\ row'[t] = IF t \in Revoked(c) THEN "revoked" ELSE row[t]
  BY <1>1 DEF InsertToken, SessionInv, TypeOK
<1> QED
  BY <1>1, <1>2, <1>4, <1>5 DEF Revoked, Chain

LEMMA CommitTypes ==
  ASSUME SessionInv, NEW c \in Calls, NEW u \in Tokens, Commits(c, u)
  PROVE  TypeOK'
<1>1. TypeOK /\ call[c].stage # "free" /\ InsertToken(c, u)
      /\ (call[c].kind = "refresh" => call[c].token \in Tokens)
  BY CommitEffects DEF SessionInv, Open
<1>2. /\ row'    \in [Tokens -> {"none", "live", "revoked"}]
      /\ owner'  \in [Tokens -> Users \cup {None}]
      /\ origin' \in [Tokens -> Tokens \cup {None}]
  BY <1>1, InsertTypes
<1>3. call[c].user \in Users
  BY <1>1, CallFields
<1>4. /\ call' \in [Calls -> {Free} \cup CallRecords]
      /\ \A d \in Calls : call'[d].stage = "granted" => call'[d].token \in Tokens
  <2>1. CASE Commit(c, u)
    BY <1>1, <2>1, GrantStep DEF Commit
  <2>2. CASE CommitUnheard(c, u)
    BY <1>1, <2>2, AnswerStep DEF CommitUnheard, Moved
  <2> QED
    BY <2>1, <2>2 DEF Commits
<1>5. audit' \subseteq {"signup", "login", "login_failed", "logout"} \X (Users \cup {None})
  <2>1. UNCHANGED audit \/ WriteAuditEvent("login", call[c].user)
    BY DEF Commits, Commit, CommitUnheard
  <2> QED
    BY <1>1, <1>3, <2>1, AuditTypes DEF TypeOK
<1>6. parted' \subseteq Tokens
  <2>1. parted' \subseteq parted \cup {Chain(c, u)}
    BY DEF Commits, Commit, CommitUnheard
  <2>2. parted \subseteq Tokens /\ Chain(c, u) \in Tokens
    BY <1>1, CommitRows DEF TypeOK
  <2> QED
    BY <2>1, <2>2
<1>7. \A t \in Tokens : row'[t] # "none" => owner'[t] \in Users
  <2>1. owner'[u] = call[c].user /\ \A t \in Tokens \ {u} : owner'[t] = owner[t]
    BY <1>1 DEF TypeOK, InsertToken
  <2>2. \A t \in Tokens \ {u} : row'[t] # "none" => row[t] # "none"
    BY CommitRows, CommitEffects
  <2> QED
    BY <1>1, <1>3, <2>1, <2>2 DEF TypeOK
<1> QED
  BY <1>1, <1>2, <1>4, <1>5, <1>6, <1>7, CommitEffects DEF TypeOK

LEMMA CommitsKeepInv ==
  ASSUME SessionInv, NEW c \in Calls, NEW u \in Tokens, Commits(c, u)
  PROVE  SessionInv'
<1>1. TypeOK'
  BY CommitTypes
<1>2. \A t \in Tokens : /\ row[t] # "none" => row'[t] # "none"
                        /\ row'[t] # "none" => t = u \/ row[t] # "none"
  <2>1. \A t \in Revoked(c) : row[t] = "live"
    BY CommitRows, CommitEffects
  <2>2. row'[u] = "live"
    BY CommitRows
  <2>3. ASSUME NEW t \in Tokens \ {u} PROVE row'[t] # "none" <=> row[t] # "none"
    <3>1. row'[t] = IF t \in Revoked(c) THEN "revoked" ELSE row[t]
      BY CommitRows
    <3> QED
      BY <2>1, <3>1
  <2> QED
    BY <2>2, <2>3
<1>3. CallsPresentRows'
  <2>1. \A v \in Users : \A t \in known'[v] : row'[t] # "none"
    BY <1>2, CommitEffects DEF SessionInv, TypeOK, CallsPresentRows
  <2>2. ASSUME NEW d \in Calls, call'[d].stage # "free"
        PROVE  /\ call'[d].kind \in {"refresh", "logout"} => call'[d].token \in Tokens
               /\ call'[d].token # None => row'[call'[d].token] # "none"
    <3>1. CASE d = c
      <4>1. call'[c].token = u /\ call'[c].kind = call[c].kind
        BY <2>2, <3>1, CommitEffects
      <4>2. row'[u] # "none" /\ u \in Tokens
        BY CommitRows
      <4> QED
        BY <3>1, <4>1, <4>2
    <3>2. CASE d # c
      <4>1. call'[d] = call[d]
        BY <3>2, CommitEffects
      <4>2. call[d].token \in Tokens \cup {None}
        BY <2>2, <4>1, CallFields DEF SessionInv
      <4> QED
        BY <1>2, <2>2, <4>1, <4>2 DEF SessionInv, CallsPresentRows
    <3> QED
      BY <3>1, <3>2
  <2> QED
    BY <2>1, <2>2 DEF CallsPresentRows
<1>4. OneTransaction'
  BY CommitEffects DEF OneTransaction, Open
<1>5. RowsHaveOrigins'
  <2>1. ASSUME NEW t \in Tokens
        PROVE  /\ row'[t] # "none" => origin'[t] \in Tokens
               /\ origin'[t] # None => row'[t] # "none" /\ row'[origin'[t]] # "none"
    <3>1. CASE t = u
      <4>1. Chain(c, u) = u \/ row[Chain(c, u)] # "none"
        <5>1. CASE call[c].kind = "refresh"
          <6>1. call[c].token \in Tokens /\ row[call[c].token] = "live"
            BY <5>1, CommitEffects
          <6>2. origin[call[c].token] # None
            BY <6>1, SessionAssumption DEF SessionInv, RowsHaveOrigins
          <6> QED
            BY <5>1, <6>1, <6>2, CommitRows DEF SessionInv, RowsHaveOrigins
        <5>2. CASE call[c].kind # "refresh"
          BY <5>2, CommitRows
        <5> QED
          BY <5>1, <5>2
      <4> QED
        BY <1>2, <3>1, <4>1, CommitRows
    <3>2. CASE t # u
      <4>1. origin'[t] = origin[t]
        BY <3>2, CommitRows
      <4>2. origin[t] # None => origin[t] \in Tokens
        BY DEF SessionInv, TypeOK
      <4> QED
        BY <1>2, <3>2, <4>1, <4>2 DEF SessionInv, RowsHaveOrigins
    <3> QED
      BY <3>1, <3>2
  <2> QED
    BY <2>1 DEF RowsHaveOrigins
<1>6. OneLivePerSignIn'
  <2>1. ASSUME NEW t \in Tokens \ {u}, row'[t] = "live" PROVE origin'[t] # Chain(c, u)
    <3>1. row[t] = "live" /\ t \notin Revoked(c) /\ origin'[t] = origin[t]
      BY <2>1, CommitRows
    <3>2. CASE call[c].kind = "refresh"
      <4>1. t # call[c].token /\ Chain(c, u) = origin[call[c].token]
        BY <3>1, <3>2, CommitRows
      <4> QED
        BY <3>1, <3>2, <4>1, CommitEffects DEF SessionInv, OneLivePerSignIn
    <3>3. CASE call[c].kind # "refresh"
      <4>1. row[u] = "none" /\ Chain(c, u) = u
        BY <3>3, CommitRows
      <4>2. origin[t] # None => row[origin[t]] # "none"
        BY DEF SessionInv, RowsHaveOrigins
      <4>3. u # None
        BY SessionAssumption
      <4> QED
        BY <3>1, <4>1, <4>2, <4>3
    <3> QED
      BY <3>2, <3>3
  <2>2. ASSUME NEW t \in Tokens, NEW v \in Tokens,
               row'[t] = "live", row'[v] = "live", origin'[t] = origin'[v]
        PROVE  t = v
    <3>1. CASE t = u \/ v = u
      BY <2>1, <2>2, <3>1, CommitRows
    <3>2. CASE t # u /\ v # u
      <4>1. row[t] = "live" /\ row[v] = "live" /\ origin[t] = origin[v]
        BY <2>2, <3>2, CommitRows
      <4> QED
        BY <4>1 DEF SessionInv, OneLivePerSignIn
    <3> QED
      BY <3>1, <3>2
  <2> QED
    BY <2>2 DEF OneLivePerSignIn
<1> QED
  BY <1>1, <1>3, <1>4, <1>5, <1>6 DEF SessionInv

-----------------------------------------------------------------------------
(* Log-out revokes a row, and leaves the loop free. *)
LEMMA LogoutRows ==
  ASSUME SessionInv, NEW c \in Calls, Logout(c)
  PROVE  /\ call[c].token \in Tokens /\ row[call[c].token] # "none"
         /\ row' = [row EXCEPT ![call[c].token] = "revoked"]
         /\ UNCHANGED <<users, owner, expired, loop, known, parted, origin>>
         /\ \A d \in Calls : ~Open(d)
         /\ call[c].stage # "free"
         /\ Moved(c, "free")
<1>1. /\ call[c].stage = "sent" /\ loop = None /\ call[c].kind = "logout"
      /\ row' = [row EXCEPT ![call[c].token] = "revoked"]
      /\ UNCHANGED <<users, owner, expired, loop, known, parted, origin>>
      /\ Moved(c, "free")
  BY DEF Logout, MayRun, Moved
<1>2. call[c].token \in Tokens
  BY <1>1 DEF SessionInv, CallsPresentRows
<1>3. call[c].token # None
  BY <1>2, SessionAssumption
<1>4. row[call[c].token] # "none"
  BY <1>1, <1>3 DEF SessionInv, CallsPresentRows
<1>5. \A d \in Calls : ~Open(d)
  BY <1>1, SessionAssumption DEF SessionInv, OneTransaction
<1> QED
  BY <1>1, <1>2, <1>4, <1>5

LEMMA LogoutKeepsInv ==
  ASSUME SessionInv, NEW c \in Calls, Logout(c)
  PROVE  SessionInv'
<1>1. TypeOK
  BY DEF SessionInv
<1> DEFINE t == call[c].token
<1>2. /\ t \in Tokens /\ row[t] # "none" /\ row' = [row EXCEPT ![t] = "revoked"]
      /\ UNCHANGED <<users, owner, expired, loop, known, parted, origin>>
      /\ \A d \in Calls : ~Open(d)
      /\ call[c].stage # "free"
  BY LogoutRows
<1>3. Moved(c, "free")
  BY LogoutRows
<1>4. /\ call' \in [Calls -> {Free} \cup CallRecords]
      /\ \A d \in Calls : call'[d].stage = "granted" => call'[d].token \in Tokens
      /\ \A d \in Calls \ {c} : call'[d] = call[d]
      /\ call'[c].stage = "free"
  BY <1>1, <1>2, <1>3, AnswerStep
<1> HIDE DEF t
<1>5. /\ row' \in [Tokens -> {"none", "live", "revoked"}]
      /\ \A u \in Tokens : /\ row'[u] # "none" <=> row[u] # "none"
                           /\ row'[u] = "live" => row[u] = "live"
  <2>1. row \in [Tokens -> {"none", "live", "revoked"}]
    BY <1>1 DEF TypeOK
  <2>2. row' \in [Tokens -> {"none", "live", "revoked"}]
    BY <1>2, <2>1
  <2>3. row'[t] = "revoked" /\ \A u \in Tokens \ {t} : row'[u] = row[u]
    BY <1>2, <2>1
  <2>4. ASSUME NEW u \in Tokens
        PROVE  /\ row'[u] # "none" <=> row[u] # "none"
               /\ row'[u] = "live" => row[u] = "live"
    <3>1. CASE u = t
      <4>1. row[t] # "none" /\ row'[t] = "revoked"
        BY <1>2, <2>3
      <4>2. row'[t] # "none" /\ row'[t] # "live"
        BY <4>1
      <4> QED
        BY <3>1, <4>1, <4>2
    <3>2. CASE u # t
      <4>1. row'[u] = row[u]
        BY <2>3, <3>2
      <4> QED
        BY <4>1
    <3> QED
      BY <3>1, <3>2
  <2> QED
    BY <2>2, <2>4
<1>6. audit' \subseteq {"signup", "login", "login_failed", "logout"} \X (Users \cup {None})
  <2>1. WriteAuditEvent("logout", None)
    BY DEF Logout
  <2> QED
    BY <1>1, <2>1, AuditTypes DEF TypeOK
<1>7. TypeOK'
  BY <1>1, <1>2, <1>4, <1>5, <1>6 DEF TypeOK
<1>8. CallsPresentRows'
  <2>1. \A v \in Users : \A u \in known'[v] : row'[u] # "none"
    BY <1>1, <1>2, <1>5 DEF SessionInv, TypeOK, CallsPresentRows
  <2>2. \A d \in Calls : call'[d].stage # "free" => call'[d] = call[d]
    BY <1>2, <1>4
  <2>3. \A d \in Calls : call[d].stage # "free" => call[d].token \in Tokens \cup {None}
    BY <1>1, CallFields
  <2>4. ASSUME NEW d \in Calls, call'[d].stage # "free"
        PROVE  /\ call'[d].kind \in {"refresh", "logout"} => call'[d].token \in Tokens
               /\ call'[d].token # None => row'[call'[d].token] # "none"
    <3>1. /\ call[d].kind \in {"refresh", "logout"} => call[d].token \in Tokens
          /\ call[d].token # None => row[call[d].token] # "none"
      BY <2>2, <2>4 DEF SessionInv, CallsPresentRows
    <3>2. call'[d].kind = call[d].kind /\ call'[d].token = call[d].token
          /\ call[d].token \in Tokens \cup {None}
      BY <2>2, <2>3, <2>4
    <3>3. ASSUME call[d].token # None PROVE row'[call[d].token] # "none"
      <4>1. call[d].token \in Tokens /\ row[call[d].token] # "none"
        BY <3>1, <3>2, <3>3
      <4>2. row'[call[d].token] # "none" <=> row[call[d].token] # "none"
        BY <1>5, <4>1
      <4> QED
        BY <4>1, <4>2
    <3> QED
      BY <3>1, <3>2, <3>3
  <2> QED
    BY <2>1, <2>4 DEF CallsPresentRows
<1>9. OneTransaction'
  BY <1>2, <1>4 DEF OneTransaction, Open
<1>10. RowsHaveOrigins'
  BY <1>1, <1>2, <1>5 DEF SessionInv, TypeOK, RowsHaveOrigins
<1>11. OneLivePerSignIn'
  BY <1>2, <1>5 DEF SessionInv, OneLivePerSignIn
<1> QED
  BY <1>7, <1>8, <1>9, <1>10, <1>11 DEF SessionInv

-----------------------------------------------------------------------------
(* The clients, and time. *)
LEMMA SendKeepsInv ==
  ASSUME SessionInv, NEW c \in Calls, NEW kind \in Kinds, NEW v \in Users,
         NEW t \in Tokens \cup {None}, Send(c, kind, v, t)
  PROVE  SessionInv'
<1> DEFINE x == [kind |-> kind, user |-> v, token |-> t, stage |-> "sent"]
<1>1. TypeOK /\ call' = [call EXCEPT ![c] = x]
      /\ UNCHANGED <<users, row, owner, audit, expired, loop, known, origin>>
  BY DEF Send, tableVars, SessionInv
<1>2. x \in CallRecords
  BY DEF CallRecords
<1>3. /\ x.stage = "sent" /\ x.kind = kind /\ x.token = t
  OBVIOUS
<1> HIDE DEF x
<1>4. /\ call' \in [Calls -> {Free} \cup CallRecords]
      /\ call'[c] = x
      /\ \A d \in Calls \ {c} : call'[d] = call[d]
  BY <1>1, <1>2 DEF TypeOK
<1>5. t # None => t \in Tokens /\ row[t] # "none"
  BY DEF Send, SessionInv, CallsPresentRows
<1>6. kind \in {"refresh", "logout"} => t \in Tokens /\ origin[t] \in Tokens
  BY <1>1 DEF Send, SessionInv, CallsPresentRows, RowsHaveOrigins, TypeOK
<1>7. parted' \subseteq Tokens
  BY <1>1, <1>6 DEF Send, TypeOK
<1>8. \A d \in Calls : call'[d].stage = "granted" => call'[d].token \in Tokens
  BY <1>1, <1>3, <1>4 DEF TypeOK
<1>9. TypeOK'
  BY <1>1, <1>4, <1>7, <1>8 DEF TypeOK
<1>10. CallsPresentRows'
  BY <1>1, <1>3, <1>4, <1>5, <1>6 DEF SessionInv, CallsPresentRows
<1>11. OneTransaction'
  BY <1>1, <1>3, <1>4 DEF SessionInv, OneTransaction, Open
<1>12. RowsHaveOrigins' /\ OneLivePerSignIn'
  BY <1>1 DEF SessionInv, RowsHaveOrigins, OneLivePerSignIn
<1> QED
  BY <1>9, <1>10, <1>11, <1>12 DEF SessionInv

LEMMA DeliverKeepsInv ==
  ASSUME SessionInv, NEW c \in Calls, Deliver(c) \/ Lose(c)
  PROVE  SessionInv'
<1>1. /\ TypeOK /\ call[c].stage = "granted"
      /\ call' = [call EXCEPT ![c] = Free]
      /\ UNCHANGED <<users, row, owner, audit, expired, loop, origin>>
  BY DEF Deliver, Lose, tableVars, SessionInv
<1>2. /\ call' \in [Calls -> {Free} \cup CallRecords]
      /\ call'[c].stage = "free"
      /\ \A d \in Calls \ {c} : call'[d] = call[d]
  BY <1>1 DEF TypeOK, Free
<1>3. /\ call[c].user \in Users
      /\ call[c].stage = "granted" =>
           call[c].token \in Tokens /\ row[call[c].token] # "none"
  BY <1>1, CallFields, SessionAssumption
  DEF TypeOK, SessionInv, CallsPresentRows
<1>4. /\ known' \in [Users -> SUBSET Tokens]
      /\ \A v \in Users : \A t \in known'[v] : row[t] # "none"
  <2>1. CASE call[c].stage = "granted" /\ Deliver(c)
    <3>1. known' = [known EXCEPT ![call[c].user] = @ \cup {call[c].token}]
      BY <2>1 DEF Deliver
    <3> QED
      BY <1>1, <1>3, <2>1, <3>1 DEF SessionInv, TypeOK, CallsPresentRows
  <2>2. CASE UNCHANGED known
    BY <1>1, <2>2 DEF SessionInv, TypeOK, CallsPresentRows
  <2> QED
    BY <2>1, <2>2 DEF Deliver, Lose
<1>5. parted' \subseteq Tokens
  <2>1. call[c].stage = "granted" => origin[call[c].token] \in Tokens
    BY <1>3 DEF SessionInv, RowsHaveOrigins
  <2> QED
    BY <1>1, <2>1 DEF Deliver, Lose, TypeOK
<1>6. \A d \in Calls : call'[d].stage = "granted" => call'[d].token \in Tokens
  BY <1>1, <1>2 DEF TypeOK
<1>7. TypeOK'
  BY <1>1, <1>2, <1>4, <1>5, <1>6 DEF TypeOK
<1>8. CallsPresentRows'
  BY <1>1, <1>2, <1>4 DEF SessionInv, CallsPresentRows
<1>9. OneTransaction'
  BY <1>1, <1>2 DEF SessionInv, OneTransaction, Open
<1>10. RowsHaveOrigins' /\ OneLivePerSignIn'
  BY <1>1 DEF SessionInv, RowsHaveOrigins, OneLivePerSignIn
<1> QED
  BY <1>7, <1>8, <1>9, <1>10 DEF SessionInv

(* Steps that write neither tables nor calls: a token expires, or nothing. *)
LEMMA QuietKeepsInv ==
  ASSUME SessionInv, expired' \subseteq Tokens,
         UNCHANGED <<users, row, owner, audit, loop, call, known, parted, origin>>
  PROVE  SessionInv'
<1>1. TypeOK'
  BY DEF SessionInv, TypeOK
<1> QED
  BY <1>1 DEF SessionInv, CallsPresentRows, OneTransaction, Open, RowsHaveOrigins,
     OneLivePerSignIn

LEMMA SessionStep == SessionInv /\ [Next]_vars => SessionInv'
<1> SUFFICES ASSUME SessionInv, [Next]_vars PROVE SessionInv'
  OBVIOUS
<1>1. ASSUME NEW c \in Calls, NEW kind \in Kinds, NEW v \in Users,
             NEW t \in Tokens \cup {None}, Send(c, kind, v, t)
      PROVE  SessionInv'
  BY <1>1, SendKeepsInv
<1>2. ASSUME NEW c \in Calls, Moves(c) PROVE SessionInv'
  BY <1>2, MovesKeepInv
<1>3. ASSUME NEW c \in Calls, Logout(c) PROVE SessionInv'
  BY <1>3, LogoutKeepsInv
<1>4. ASSUME NEW c \in Calls, Deliver(c) \/ Lose(c) PROVE SessionInv'
  BY <1>4, DeliverKeepsInv
<1>5. ASSUME NEW c \in Calls, NEW u \in Tokens, Commits(c, u) PROVE SessionInv'
  BY <1>5, CommitsKeepInv
<1>6. ASSUME NEW t \in Tokens, Expire(t) PROVE SessionInv'
  BY <1>6, QuietKeepsInv DEF Expire, SessionInv, TypeOK, tableVars, clientVars
<1>7. CASE UNCHANGED vars
  BY <1>7, QuietKeepsInv DEF SessionInv, TypeOK, vars, tableVars, clientVars
<1> QED
  BY <1>1, <1>2, <1>3, <1>4, <1>5, <1>6, <1>7 DEF Next, Moves, Commits

THEOREM SessionInvariant == Spec => []SessionInv
<1>1. Init => SessionInv
  BY SessionInit
<1>2. SessionInv /\ [Next]_vars => SessionInv'
  BY SessionStep
<1> QED
  BY <1>1, <1>2, PTL DEF Spec

(* The variables of Sessions always have the types of the tables and calls *)
(* they stand for: a row always has the user it belongs to.                *)
THEOREM TypeCorrect == Spec => []TypeOK
<1>1. SessionInv => TypeOK
  BY DEF SessionInv
<1> QED
  BY <1>1, SessionInvariant, PTL

(* The rotation of jwt_routes.py:167-207 leaves a sign-in one live refresh *)
(* token at most, for any number of users, tokens and overlapping calls.   *)
THEOREM OneLive == Spec => []OneLivePerSignIn
<1>1. SessionInv => OneLivePerSignIn
  BY DEF SessionInv
<1> QED
  BY <1>1, SessionInvariant, PTL

-----------------------------------------------------------------------------
(* The audit log *)

LEMMA AuditStep ==
  ASSUME SessionInv, AuditTellsTheTruth, [Next]_vars
  PROVE  AuditTellsTheTruth'
<1>1. TypeOK /\ TypeOK'
  BY SessionStep DEF SessionInv
<1>2. ASSUME users \subseteq users',
             \A t \in Tokens : row[t] # "none" => row'[t] # "none" /\ owner'[t] = owner[t],
             NEW e \in {"login_failed", "logout"}, NEW u,
             audit' \subseteq audit \cup {<<e, u>>}
      PROVE  AuditTellsTheTruth'
  <2>1. \A v \in Users : /\ <<"signup", v>> \in audit' => <<"signup", v>> \in audit
                         /\ <<"login", v>> \in audit' => <<"login", v>> \in audit
    BY <1>2
  <2>2. ASSUME NEW v \in Users, <<"signup", v>> \in audit'
        PROVE  v \in users'
    BY <1>2, <2>1, <2>2 DEF AuditTellsTheTruth
  <2>3. ASSUME NEW v \in Users, <<"login", v>> \in audit'
        PROVE  \E t \in Tokens : owner'[t] = v /\ row'[t] # "none"
    <3>1. PICK t \in Tokens : owner[t] = v /\ row[t] # "none"
      BY <2>1, <2>3 DEF AuditTellsTheTruth
    <3> QED
      BY <1>2, <3>1
  <2> QED
    BY <2>2, <2>3 DEF AuditTellsTheTruth
<1>3. ASSUME UNCHANGED <<row, owner>>, users \subseteq users', UNCHANGED audit
      PROVE  AuditTellsTheTruth'
  BY <1>3 DEF AuditTellsTheTruth
<1>4. ASSUME NEW c \in Calls, SignUp(c) PROVE AuditTellsTheTruth'
  <2>1. /\ users' = users \cup {call[c].user}
        /\ audit' \subseteq audit \cup {<<"signup", call[c].user>>}
        /\ UNCHANGED <<row, owner>>
    BY <1>4 DEF SignUp, WriteAuditEvent
  <2>2. \A v \in Users : /\ <<"signup", v>> \in audit' => v \in users'
                         /\ <<"login", v>> \in audit' => <<"login", v>> \in audit
    BY <2>1 DEF AuditTellsTheTruth
  <2> QED
    BY <2>1, <2>2 DEF AuditTellsTheTruth
<1>5. ASSUME NEW c \in Calls, NEW u \in Tokens, Commits(c, u) PROVE AuditTellsTheTruth'
  <2>1. /\ users' = users /\ row'[u] = "live" /\ row[u] = "none"
        /\ audit' \subseteq audit \cup {<<"login", call[c].user>>}
    <3>1. users' = users
      BY <1>5, CommitEffects
    <3>2. row'[u] = "live" /\ row[u] = "none"
      BY <1>5, CommitRows
    <3>3. audit' \subseteq audit \cup {<<"login", call[c].user>>}
      BY <1>5 DEF Commits, Commit, CommitUnheard, WriteAuditEvent
    <3> QED
      BY <3>1, <3>2, <3>3
  <2>2. owner'[u] = call[c].user /\ \A t \in Tokens \ {u} : owner'[t] = owner[t]
    BY <1>1, <1>5, CommitEffects DEF TypeOK, InsertToken
  <2>3. \A t \in Tokens \ {u} : row[t] # "none" => row'[t] # "none"
    BY <1>5, CommitRows
  <2>4. \A v \in Users : /\ <<"signup", v>> \in audit' => <<"signup", v>> \in audit
                         /\ <<"login", v>> \in audit' =>
                              <<"login", v>> \in audit \/ v = call[c].user
    BY <2>1
  <2>5. ASSUME NEW v \in Users, <<"login", v>> \in audit'
        PROVE  \E t \in Tokens : owner'[t] = v /\ row'[t] # "none"
    <3>1. CASE v = call[c].user
      <4>1. row'[u] # "none"
        BY <2>1
      <4> QED
        BY <2>2, <3>1, <4>1
    <3>2. CASE <<"login", v>> \in audit
      <4>1. PICK t \in Tokens : owner[t] = v /\ row[t] # "none"
        BY <3>2 DEF AuditTellsTheTruth
      <4>2. t # u
        BY <2>1, <4>1
      <4> QED
        BY <2>2, <2>3, <4>1, <4>2
    <3> QED
      BY <2>4, <2>5, <3>1, <3>2
  <2> QED
    BY <2>1, <2>4, <2>5 DEF AuditTellsTheTruth
<1>6. ASSUME NEW c \in Calls, FailSignIn(c) PROVE AuditTellsTheTruth'
  BY <1>2, <1>6 DEF FailSignIn, WriteAuditEvent
<1>7. ASSUME NEW c \in Calls, Logout(c) PROVE AuditTellsTheTruth'
  <2>1. audit' \subseteq audit \cup {<<"logout", None>>} /\ users' = users /\ owner' = owner
    BY <1>7 DEF Logout, WriteAuditEvent
  <2>2. \A t \in Tokens : row[t] # "none" => row'[t] # "none"
    BY <1>1, <1>7, LogoutRows DEF TypeOK
  <2> QED
    BY <1>2, <2>1, <2>2
<1>8. ASSUME NEW c \in Calls, \/ Refuse(c) \/ SignIn(c) \/ Refresh(c) \/ Rollback(c)
                              \/ Deliver(c) \/ Lose(c)
      PROVE  AuditTellsTheTruth'
  BY <1>3, <1>8 DEF Refuse, SignIn, Refresh, Rollback, Deliver, Lose, tableVars
<1>9. ASSUME NEW c \in Calls, NEW kind \in Kinds, NEW v \in Users,
             NEW t \in Tokens \cup {None}, Send(c, kind, v, t)
      PROVE  AuditTellsTheTruth'
  BY <1>3, <1>9 DEF Send, tableVars
<1>10. ASSUME NEW t \in Tokens, Expire(t) PROVE AuditTellsTheTruth'
  BY <1>3, <1>10 DEF Expire, tableVars
<1>11. CASE UNCHANGED vars
  BY <1>3, <1>11 DEF vars, tableVars
<1> QED
  BY <1>4, <1>5, <1>6, <1>7, <1>8, <1>9, <1>10, <1>11 DEF Next, Commits

(* audit_logs says what happened: a "signup" has its user, and a "login"   *)
(* its refresh token, though an event may be missing of either.            *)
THEOREM AuditCorrect == Spec => []AuditTellsTheTruth
<1>1. Init => AuditTellsTheTruth
  BY DEF Init, AuditTellsTheTruth
<1>2. SessionInv /\ AuditTellsTheTruth /\ [Next]_vars => AuditTellsTheTruth'
  BY AuditStep
<1> QED
  BY <1>1, <1>2, SessionInvariant, PTL DEF Spec

-----------------------------------------------------------------------------
(* The refinement of SessionChain *)
Issued  == {t \in Tokens : row[t] # "none"}
Current == [r \in Tokens |-> LiveOf(r)]

(* A step that changes the live tokens of one chain changes Current there. *)
LEMMA ChainChanged ==
  ASSUME NEW r \in Tokens, NEW L, LiveOf(r)' = L,
         \A q \in Tokens \ {r} : LiveOf(q)' = LiveOf(q)
  PROVE  Current' = [Current EXCEPT ![r] = L]
<1>1. Current' = [q \in Tokens |-> LiveOf(q)']
  BY DEF Current
<1>2. [Current EXCEPT ![r] = L] = [q \in Tokens |-> IF q = r THEN L ELSE LiveOf(q)]
  BY DEF Current
<1>3. \A q \in Tokens : LiveOf(q)' = IF q = r THEN L ELSE LiveOf(q)
  OBVIOUS
<1> QED
  BY <1>1, <1>2, <1>3

(* A commit adds a token to its chain, in the place of the one it exchanges. *)
LEMMA CommitRefines ==
  ASSUME SessionInv, NEW c \in Calls, NEW u \in Tokens, Commits(c, u)
  PROVE  \/ SessionsPromised!SignIn(u)
         \/ \E r \in Tokens : SessionsPromised!Exchange(r, u)
<1>0. PICK r \in Tokens : r = Chain(c, u)
  BY CommitRows
<1>1. row[u] = "none" /\ row'[u] = "live" /\ origin'[u] = r
  BY <1>0, CommitRows
<1>2. \A t \in Tokens \ {u} : /\ origin'[t] = origin[t]
                              /\ row'[t] = IF t \in Revoked(c) THEN "revoked" ELSE row[t]
  BY CommitRows
<1>3. \A t \in Revoked(c) : t \in Tokens /\ row[t] = "live" /\ origin[t] = r
  BY <1>0, CommitRows, CommitEffects
<1>4. \A t \in Tokens \ {u} : row'[t] # "none" <=> row[t] # "none"
  <2>1. ASSUME NEW t \in Tokens \ {u} PROVE row'[t] # "none" <=> row[t] # "none"
    <3>1. CASE t \in Revoked(c)
      BY <1>2, <1>3, <3>1
    <3>2. CASE t \notin Revoked(c)
      BY <1>2, <3>2
    <3> QED
      BY <3>1, <3>2
  <2> QED
    BY <2>1
<1>5. u \notin Issued /\ Issued' = Issued \cup {u}
  BY <1>1, <1>4 DEF Issued
<1>6. OneLivePerSignIn'
  BY CommitsKeepInv DEF SessionInv
<1>7. LiveOf(r)' = {u}
  <2>1. \A t \in Tokens : row'[t] = "live" /\ origin'[t] = r <=> t = u
    BY <1>1, <1>6 DEF OneLivePerSignIn
  <2>2. LiveOf(r)' = {t \in Tokens : row'[t] = "live" /\ origin'[t] = r}
    BY DEF LiveOf
  <2> QED
    BY <2>1, <2>2
<1>8. \A q \in Tokens \ {r} : LiveOf(q)' = LiveOf(q)
  <2>1. ASSUME NEW q \in Tokens \ {r}, NEW t \in Tokens
        PROVE  row'[t] = "live" /\ origin'[t] = q <=> row[t] = "live" /\ origin[t] = q
    <3>1. CASE t = u
      BY <1>1, <2>1, <3>1
    <3>2. CASE t # u /\ t \in Revoked(c)
      BY <1>2, <1>3, <2>1, <3>2
    <3>3. CASE t # u /\ t \notin Revoked(c)
      BY <1>2, <3>3
    <3> QED
      BY <3>1, <3>2, <3>3
  <2> QED
    BY <2>1 DEF LiveOf
<1>9. Current' = [Current EXCEPT ![r] = {u}]
  BY <1>1, <1>7, <1>8, ChainChanged
<1>10. CASE call[c].kind = "refresh"
  <2>1. call[c].token \in LiveOf(r)
    BY <1>0, <1>3, <1>10, CommitRows DEF LiveOf
  <2>2. LiveOf(r) = {call[c].token}
    BY <2>1 DEF LiveOf, SessionInv, OneLivePerSignIn
  <2>3. call[c].token \in Issued
    BY <2>1 DEF Issued, LiveOf
  <2>4. Current[r] = {call[c].token}
    BY <1>1, <2>2 DEF Current
  <2>5. SessionsPromised!Exchange(r, u)
    BY <1>5, <1>9, <2>3, <2>4 DEF SessionsPromised!Exchange, Issued, Current
  <2> QED
    BY <1>1, <2>5
<1>11. CASE call[c].kind # "refresh"
  <2>1. r = u
    BY <1>0, <1>11, CommitRows
  <2> QED
    BY <1>5, <1>9, <2>1 DEF SessionsPromised!SignIn, Issued, Current
<1> QED
  BY <1>10, <1>11

(* A log-out ends the chain of a live token, and does nothing for others. *)
LEMMA LogoutRefines ==
  ASSUME SessionInv, NEW c \in Calls, Logout(c)
  PROVE  \/ \E r \in Tokens : SessionsPromised!Revoke(r)
         \/ UNCHANGED <<Issued, Current>>
<1>0. PICK t \in Tokens : t = call[c].token
  BY LogoutRows
<1>1. /\ row[t] # "none" /\ row' = [row EXCEPT ![t] = "revoked"]
      /\ UNCHANGED origin
  BY <1>0, LogoutRows
<1>2. row'[t] = "revoked" /\ \A u \in Tokens \ {t} : row'[u] = row[u]
  BY <1>1 DEF SessionInv, TypeOK
<1>3. \A u \in Tokens : row'[u] # "none" <=> row[u] # "none"
  <2>1. row'[t] # "none" /\ row[t] # "none"
    BY <1>1, <1>2
  <2> QED
    BY <1>2, <2>1
<1>4. Issued' = Issued
  BY <1>3 DEF Issued
<1>5. CASE row[t] = "live"
  <2>1. PICK r \in Tokens : r = origin[t]
    BY <1>1 DEF SessionInv, RowsHaveOrigins
  <2>2. LiveOf(r)' = {}
    <3>1. \A u \in Tokens : ~(row'[u] = "live" /\ origin'[u] = r)
      BY <1>1, <1>2, <1>5, <2>1 DEF SessionInv, OneLivePerSignIn
    <3>2. LiveOf(r)' = {u \in Tokens : row'[u] = "live" /\ origin'[u] = r}
      BY DEF LiveOf
    <3> QED
      BY <3>1, <3>2
  <2>3. \A q \in Tokens \ {r} : LiveOf(q)' = LiveOf(q)
    BY <1>1, <1>2, <2>1 DEF LiveOf
  <2>4. Current' = [Current EXCEPT ![r] = {}]
    BY <2>2, <2>3, ChainChanged
  <2> QED
    BY <1>4, <2>4 DEF SessionsPromised!Revoke, Issued, Current
<1>6. CASE row[t] # "live"
  <2>1. \A q \in Tokens : LiveOf(q)' = LiveOf(q)
    BY <1>1, <1>2, <1>6 DEF LiveOf
  <2> QED
    BY <1>4, <2>1 DEF Current
<1> QED
  BY <1>5, <1>6

LEMMA ChainStep ==
  SessionInv /\ [Next]_vars => [SessionsPromised!Next]_<<Issued, Current>>
<1> SUFFICES ASSUME SessionInv, [Next]_vars
             PROVE  [SessionsPromised!Next]_<<Issued, Current>>
  OBVIOUS
<1>1. CASE UNCHANGED <<row, origin>>
  BY <1>1 DEF Issued, Current, LiveOf
<1>2. ASSUME NEW c \in Calls, NEW u \in Tokens, Commits(c, u)
      PROVE  SessionsPromised!Next
  BY <1>2, CommitRefines DEF SessionsPromised!Next
<1>3. ASSUME NEW c \in Calls, Logout(c)
      PROVE  [SessionsPromised!Next]_<<Issued, Current>>
  BY <1>3, LogoutRefines DEF SessionsPromised!Next
<1>4. ASSUME NEW c \in Calls, Moves(c) PROVE UNCHANGED <<row, origin>>
  BY <1>4, MoveEffects
<1>5. ASSUME NEW c \in Calls, Deliver(c) \/ Lose(c) PROVE UNCHANGED <<row, origin>>
  BY <1>5 DEF Deliver, Lose, tableVars
<1>6. ASSUME NEW c \in Calls, NEW kind \in Kinds, NEW v \in Users,
             NEW t \in Tokens \cup {None}, Send(c, kind, v, t)
      PROVE  UNCHANGED <<row, origin>>
  BY <1>6 DEF Send, tableVars
<1>7. ASSUME NEW t \in Tokens, Expire(t) PROVE UNCHANGED <<row, origin>>
  BY <1>7 DEF Expire, tableVars
<1>8. CASE UNCHANGED vars
  BY <1>1, <1>8 DEF vars, tableVars
<1> QED
  BY <1>1, <1>2, <1>3, <1>4, <1>5, <1>6, <1>7, <1>8 DEF Next, Moves, Commits

(* Sign-in, refresh and log-out implement SessionChain: a sign-in starts a *)
(* chain of tokens, a refresh moves it on by one, and no token that was    *)
(* exchanged or revoked can be exchanged again.                            *)
THEOREM ChainRefined == Spec => ImplementsSessionChain
<1>1. Init => SessionsPromised!Init
  BY DEF Init, SessionsPromised!Init, LiveOf
<1>2. SessionInv /\ [Next]_vars => [SessionsPromised!Next]_<<Issued, Current>>
  BY ChainStep
<1> QED
  BY <1>1, <1>2, SessionInvariant, PTL
  DEF Spec, ImplementsSessionChain, SessionsPromised!Spec, Issued, Current
=============================================================================
