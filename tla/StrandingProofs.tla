-------------------------- MODULE StrandingProofs --------------------------
(***************************************************************************)
(* A theorem about Sessions: nobody is signed out by accident, for any     *)
(* users, tokens and number of calls in flight.                            *)
(*                                                                         *)
(* The argument: a token that was granted and did not reach its user yet   *)
(* is known to nobody, so nobody can have spent it; a chain of tokens has  *)
(* one owner, so the user it reaches is the one who waits for it; and who  *)
(* asked to log out is counted as gone from the call on.                   *)
(***************************************************************************)
EXTENDS SessionsProofs

(* What a user knows, presents or is granted, and a sign-in with all its   *)
(* descendants, belong to that user.                                       *)
Owned ==
  /\ \A v \in Users : \A t \in known[v] : owner[t] = v
  /\ \A c \in Calls : call[c].stage # "free" /\ call[c].token # None =>
       owner[call[c].token] = call[c].user
  /\ \A t \in Tokens : row[t] # "none" => owner[t] = owner[origin[t]]

(* A token on its way to its user is live, and in one answer only. *)
Undelivered ==
  \A c \in Calls : call[c].stage = "granted" =>
    /\ row[call[c].token] = "live"
    /\ \A v \in Users : call[c].token \notin known[v]
    /\ \A d \in Calls \ {c} : call[d].stage # "free" => call[d].token # call[c].token

LogoutsPart ==
  \A c \in Calls : call[c].stage # "free" /\ call[c].kind = "logout" =>
    origin[call[c].token] \in parted

HoldInv == Owned /\ Undelivered /\ LogoutsPart /\ StrandedOnlyByLoss

LEMMA HoldInit == Init => HoldInv
<1> SUFFICES ASSUME Init PROVE HoldInv
  OBVIOUS
<1>1. \A c \in Calls : call[c].stage = "free"
  BY DEF Init, Free
<1>2. (\A t \in Tokens : row[t] = "none") /\ \A v \in Users : known[v] = {}
  BY DEF Init
<1> QED
  BY <1>1, <1>2 DEF HoldInv, Owned, Undelivered, LogoutsPart, StrandedOnlyByLoss

-----------------------------------------------------------------------------
(* A call that goes on keeps its user, kind and token. *)
Carried(d) ==
  call'[d].stage # "free" =>
    /\ call[d].stage # "free"
    /\ call'[d].kind = call[d].kind
    /\ call'[d].token = call[d].token
    /\ call'[d].user = call[d].user
    /\ call'[d].stage = "granted" => call[d].stage = "granted"

LEMMA CarriedHolds ==
  ASSUME HoldInv, UNCHANGED <<row, owner, known, parted, origin>>,
         \A d \in Calls : Carried(d),
         \A d \in Calls : call[d].stage = "granted" => call'[d] = call[d]
  PROVE  HoldInv'
<1>1. Owned'
  BY DEF HoldInv, Owned, Carried
<1>2. Undelivered'
  BY DEF HoldInv, Undelivered, Carried
<1>3. LogoutsPart'
  BY DEF HoldInv, LogoutsPart, Carried
<1>4. StrandedOnlyByLoss'
  BY DEF HoldInv, StrandedOnlyByLoss, LiveOf
<1> QED
  BY <1>1, <1>2, <1>3, <1>4 DEF HoldInv

LEMMA MovesHold ==
  ASSUME SessionInv, HoldInv, NEW c \in Calls, Moves(c)
  PROVE  HoldInv'
<1>1. TypeOK
  BY DEF SessionInv
<1>2. /\ UNCHANGED <<row, owner, expired, known, parted, origin>>
      /\ call[c].stage \in {"sent", "open"}
      /\ \E s \in {"open", "free"} : Moved(c, s)
  BY MoveEffects
<1>3. PICK s \in {"open", "free"} : Moved(c, s)
  BY <1>2
<1>4. /\ \A d \in Calls \ {c} : call'[d] = call[d]
      /\ call'[c].stage = s
      /\ s = "open" => /\ call'[c].kind = call[c].kind
                       /\ call'[c].token = call[c].token
                       /\ call'[c].user = call[c].user
  BY <1>1, <1>2, <1>3, AnswerStep
<1>5. \A d \in Calls : Carried(d)
  BY <1>2, <1>4 DEF Carried
<1>6. \A d \in Calls : call[d].stage = "granted" => call'[d] = call[d]
  BY <1>2, <1>4
<1> QED
  BY <1>2, <1>5, <1>6, CarriedHolds

(* A log-out revokes a token of a chain that was given up. *)
LEMMA LogoutHolds ==
  ASSUME SessionInv, HoldInv, NEW c \in Calls, Logout(c)
  PROVE  HoldInv'
<1> DEFINE x == call[c].token
<1>1. TypeOK /\ Undelivered /\ StrandedOnlyByLoss
  BY DEF SessionInv, HoldInv
<1>2. /\ x \in Tokens /\ row' = [row EXCEPT ![x] = "revoked"] /\ row[x] # "none"
      /\ UNCHANGED <<users, owner, expired, loop, known, parted, origin>>
      /\ call[c].stage # "free"
      /\ Moved(c, "free")
  BY LogoutRows
<1>3. /\ call'[c].stage = "free"
      /\ \A d \in Calls \ {c} : call'[d] = call[d]
  BY <1>1, <1>2, AnswerStep
<1>4. call[c].stage = "sent" /\ call[c].kind = "logout"
  BY DEF Logout, MayRun
<1>5. origin[x] \in parted
  BY <1>4 DEF HoldInv, LogoutsPart
<1>6. \A t \in Tokens \ {x} : row'[t] = row[t]
  BY <1>1, <1>2 DEF TypeOK
<1>7. \A t \in Tokens : row'[t] # "none" => row[t] # "none"
  BY <1>2, <1>6
<1> HIDE DEF x
<1>8. Owned'
  <2>1. \A v \in Users : \A t \in known'[v] : owner'[t] = v
    BY <1>2 DEF HoldInv, Owned
  <2>2. \A d \in Calls : call'[d].stage # "free" /\ call'[d].token # None =>
          owner'[call'[d].token] = call'[d].user
    BY <1>2, <1>3 DEF HoldInv, Owned
  <2>3. \A t \in Tokens : row'[t] # "none" => owner'[t] = owner'[origin'[t]]
    BY <1>2, <1>7 DEF HoldInv, Owned
  <2> QED
    BY <2>1, <2>2, <2>3 DEF Owned
<1>9. Undelivered'
  <2>1. ASSUME NEW d \in Calls, call'[d].stage = "granted"
        PROVE  /\ row'[call'[d].token] = "live"
               /\ \A v \in Users : call'[d].token \notin known'[v]
               /\ \A e \in Calls \ {d} : call'[e].stage # "free" =>
                    call'[e].token # call'[d].token
    <3>1. d # c /\ call'[d] = call[d] /\ call[d].token \in Tokens
      BY <1>1, <1>3, <2>1 DEF TypeOK
    <3>2. call[d].token # x
      BY <1>1, <1>2, <2>1, <3>1 DEF Undelivered, x
    <3> QED
      BY <1>1, <1>2, <1>3, <1>6, <2>1, <3>1, <3>2 DEF Undelivered
  <2> QED
    BY <2>1 DEF Undelivered
<1>10. LogoutsPart'
  BY <1>2, <1>3 DEF HoldInv, LogoutsPart
<1>11. StrandedOnlyByLoss'
  <2> SUFFICES ASSUME NEW v \in Users, NEW t \in known'[v]
               PROVE  \/ LiveOf(origin[t])' \cap known[v] # {}
                      \/ origin[t] \in parted
                      \/ \E d \in Calls : /\ call'[d].stage = "granted"
                                          /\ origin[call'[d].token] = origin[t]
    BY <1>2 DEF StrandedOnlyByLoss, LiveOf
  <2>1. CASE origin[t] = origin[x]
    BY <1>5, <2>1
  <2>2. CASE origin[t] # origin[x]
    <3>1. LiveOf(origin[t]) \subseteq {u \in Tokens : row'[u] = "live" /\ origin'[u] = origin[t]}
      BY <1>2, <1>6, <2>2 DEF LiveOf
    <3>2. \A d \in Calls : call[d].stage = "granted" => call'[d] = call[d]
      BY <1>3, <1>4
    <3>3. \/ LiveOf(origin[t]) \cap known[v] # {}
          \/ origin[t] \in parted
          \/ \E d \in Calls : call[d].stage = "granted" /\ origin[call[d].token] = origin[t]
      BY <1>1, <1>2 DEF StrandedOnlyByLoss
    <3>4. LiveOf(origin[t])' = {u \in Tokens : row'[u] = "live" /\ origin'[u] = origin'[t]}
      BY DEF LiveOf
    <3> QED
      BY <1>2, <3>1, <3>2, <3>3, <3>4
  <2> QED
    BY <2>1, <2>2
<1> QED
  BY <1>8, <1>9, <1>10, <1>11 DEF HoldInv

(* A client presents a token that reached it: none that is on its way. *)
LEMMA SendHolds ==
  ASSUME SessionInv, HoldInv, NEW c \in Calls, NEW kind \in Kinds, NEW v \in Users,
         NEW t \in Tokens \cup {None}, Send(c, kind, v, t)
  PROVE  HoldInv'
<1> DEFINE x == [kind |-> kind, user |-> v, token |-> t, stage |-> "sent"]
<1>1. TypeOK /\ Undelivered /\ Owned /\ LogoutsPart
  BY DEF SessionInv, HoldInv
<1>2. /\ call' = [call EXCEPT ![c] = x] /\ call[c].stage = "free"
      /\ UNCHANGED <<row, owner, known, origin>> /\ parted \subseteq parted'
      /\ t # None => t \in known[v]
      /\ kind = "logout" => origin[t] \in parted'
  BY DEF Send, tableVars, Free
<1>3. x.kind = kind /\ x.user = v /\ x.token = t /\ x.stage = "sent"
  OBVIOUS
<1> HIDE DEF x
<1>4. call'[c] = x /\ \A d \in Calls \ {c} : call'[d] = call[d]
  BY <1>1, <1>2 DEF TypeOK
<1>5. Owned'
  <2>1. t # None => owner[t] = v
    BY <1>1, <1>2 DEF Owned
  <2>2. \A d \in Calls : call'[d].stage # "free" /\ call'[d].token # None =>
          owner'[call'[d].token] = call'[d].user
    BY <1>1, <1>2, <1>3, <1>4, <2>1 DEF Owned
  <2> QED
    BY <1>1, <1>2, <2>2 DEF Owned
<1>6. Undelivered'
  <2>1. ASSUME NEW d \in Calls, call'[d].stage = "granted"
        PROVE  /\ row'[call'[d].token] = "live"
               /\ \A w \in Users : call'[d].token \notin known'[w]
               /\ \A e \in Calls \ {d} : call'[e].stage # "free" =>
                    call'[e].token # call'[d].token
    <3>1. d # c /\ call'[d] = call[d] /\ call[d].token \in Tokens
      BY <1>1, <1>3, <1>4, <2>1 DEF TypeOK
    <3>2. call[d].token # t
      BY <1>1, <1>2, <2>1, <3>1, SessionAssumption DEF Undelivered
    <3> QED
      BY <1>1, <1>2, <1>3, <1>4, <2>1, <3>1, <3>2 DEF Undelivered
  <2> QED
    BY <2>1 DEF Undelivered
<1>7. LogoutsPart'
  BY <1>1, <1>2, <1>3, <1>4 DEF LogoutsPart
<1>8. StrandedOnlyByLoss'
  <2>1. \A d \in Calls : call[d].stage = "granted" => call'[d] = call[d]
    BY <1>2, <1>4
  <2> QED
    BY <1>2, <2>1 DEF HoldInv, StrandedOnlyByLoss, LiveOf
<1> QED
  BY <1>5, <1>6, <1>7, <1>8 DEF HoldInv

(* An answer arrives: whoever waits for its chain is the user it reaches.  *)
LEMMA DeliverHolds ==
  ASSUME SessionInv, HoldInv, NEW c \in Calls, Deliver(c) \/ Lose(c)
  PROVE  HoldInv'
<1> DEFINE x == call[c].token
           w == call[c].user
<1>1. TypeOK /\ Undelivered /\ Owned /\ LogoutsPart /\ StrandedOnlyByLoss
      /\ RowsHaveOrigins
  BY DEF SessionInv, HoldInv
<1>2. /\ call[c].stage = "granted" /\ call' = [call EXCEPT ![c] = Free]
      /\ UNCHANGED <<row, owner, origin>>
      /\ \/ parted' = parted /\ known' = [known EXCEPT ![w] = known[w] \cup {x}]
         \/ parted' = parted \cup {origin[x]} /\ known' = known
  BY DEF Deliver, Lose, tableVars
<1>3. call'[c].stage = "free" /\ \A d \in Calls \ {c} : call'[d] = call[d]
  BY <1>1, <1>2 DEF TypeOK, Free
<1>4. x \in Tokens /\ w \in Users /\ row[x] = "live"
  BY <1>1, <1>2, CallFields DEF TypeOK, Undelivered
<1>5. owner[x] = w
  BY <1>1, <1>2, <1>4, SessionAssumption DEF Owned
<1>6. \A d \in Calls \ {c} : call[d].stage # "free" => call[d].token # x
  BY <1>1, <1>2 DEF Undelivered
<1> HIDE DEF x, w
<1>7. \A v \in Users : /\ known[v] \subseteq known'[v]
                       /\ \A t \in known'[v] : t \in known[v] \/ (t = x /\ v = w)
  BY <1>1, <1>2, <1>4 DEF TypeOK
<1>8. Owned'
  <2>1. \A v \in Users : \A t \in known'[v] : owner'[t] = v
    BY <1>1, <1>2, <1>5, <1>7 DEF Owned
  <2>2. \A d \in Calls : call'[d].stage # "free" /\ call'[d].token # None =>
          owner'[call'[d].token] = call'[d].user
    BY <1>1, <1>2, <1>3 DEF Owned
  <2> QED
    BY <1>1, <1>2, <2>1, <2>2 DEF Owned
<1>9. Undelivered'
  <2>1. ASSUME NEW d \in Calls, call'[d].stage = "granted"
        PROVE  /\ row'[call'[d].token] = "live"
               /\ \A v \in Users : call'[d].token \notin known'[v]
               /\ \A e \in Calls \ {d} : call'[e].stage # "free" =>
                    call'[e].token # call'[d].token
    <3>1. d # c /\ call'[d] = call[d] /\ call[d].token # x
      BY <1>3, <1>6, <2>1
    <3>2. \A v \in Users : call[d].token \notin known'[v]
      BY <1>1, <1>7, <2>1, <3>1 DEF Undelivered
    <3> QED
      BY <1>1, <1>2, <1>3, <2>1, <3>1, <3>2 DEF Undelivered
  <2> QED
    BY <2>1 DEF Undelivered
<1>10. LogoutsPart'
  <2>1. parted \subseteq parted'
    BY <1>2
  <2> QED
    BY <1>1, <1>2, <1>3, <2>1 DEF LogoutsPart
<1>11. StrandedOnlyByLoss'
  <2>1. ASSUME NEW v \in Users, NEW t \in known'[v]
        PROVE  \/ LiveOf(origin[t]) \cap known'[v] # {}
               \/ origin[t] \in parted'
               \/ \E d \in Calls : /\ call'[d].stage = "granted"
                                   /\ origin[call'[d].token] = origin[t]
    <3>1. CASE origin[t] = origin[x] /\ known' = [known EXCEPT ![w] = known[w] \cup {x}]
      <4>1. t \in Tokens /\ row[t] # "none"
        BY <1>1, <1>4, <1>7 DEF SessionInv, CallsPresentRows, TypeOK
      <4>2. owner[t] = owner[x]
        BY <1>1, <1>4, <3>1, <4>1 DEF Owned
      <4>3. owner[t] = v
        BY <1>2, <1>8 DEF Owned
      <4>4. v = w
        BY <1>5, <4>2, <4>3
      <4>5. x \in known'[v] /\ x \in LiveOf(origin[t])
        BY <1>1, <1>4, <3>1, <4>4 DEF TypeOK, LiveOf
      <4> QED
        BY <4>5
    <3>2. CASE origin[t] = origin[x] /\ parted' = parted \cup {origin[x]}
      BY <3>2
    <3>3. CASE origin[t] # origin[x]
      <4>1. t \in known[v]
        BY <1>7, <3>3
      <4>2. \/ LiveOf(origin[t]) \cap known[v] # {}
            \/ origin[t] \in parted
            \/ \E d \in Calls : call[d].stage = "granted" /\ origin[call[d].token] = origin[t]
        BY <1>1, <4>1 DEF StrandedOnlyByLoss
      <4>3. \A d \in Calls : origin[call[d].token] = origin[t] => d # c /\ call'[d] = call[d]
        BY <1>3, <3>3 DEF x
      <4> QED
        BY <1>2, <1>7, <4>2, <4>3
    <3> QED
      BY <1>2, <3>1, <3>2, <3>3
  <2> QED
    BY <1>2, <2>1 DEF StrandedOnlyByLoss, LiveOf
<1> QED
  BY <1>8, <1>9, <1>10, <1>11 DEF HoldInv

(* A commit puts a new token on its way, in the place of the one it spent: *)
(* who holds that one waits for the answer, or has lost it.                *)
LEMMA CommitFrames ==
  ASSUME SessionInv, HoldInv, NEW c \in Calls, NEW u \in Tokens, Commits(c, u)
  PROVE  /\ known' = known /\ parted \subseteq parted'
         /\ owner'[u] = call[c].user
         /\ \A t \in Tokens \ {u} : owner'[t] = owner[t] /\ origin'[t] = origin[t]
         /\ \A t \in Tokens \ {u} : /\ row'[t] # "none" => row[t] # "none"
                                    /\ row[t] = "live" /\ t \notin Revoked(c) => row'[t] = "live"
         /\ \A v \in Users : u \notin known[v]
         /\ \A d \in Calls : call[d].stage # "free" => call[d].token # u
         /\ \/ call'[c].stage = "granted"
            \/ Chain(c, u) \in parted'
<1>1. TypeOK /\ CallsPresentRows
  BY DEF SessionInv
<1>2. InsertToken(c, u) /\ known' = known
  BY CommitEffects
<1>3. owner'[u] = call[c].user /\ \A t \in Tokens \ {u} : owner'[t] = owner[t]
  BY <1>1, <1>2 DEF TypeOK, InsertToken
<1>4. row[u] = "none"
  BY CommitRows
<1>5. \A t \in Revoked(c) : row[t] = "live"
  BY CommitRows, CommitEffects
<1>6. ASSUME NEW t \in Tokens \ {u}
      PROVE  /\ origin'[t] = origin[t]
             /\ row'[t] # "none" => row[t] # "none"
             /\ row[t] = "live" /\ t \notin Revoked(c) => row'[t] = "live"
  <2>1. origin'[t] = origin[t] /\ row'[t] = IF t \in Revoked(c) THEN "revoked" ELSE row[t]
    BY CommitRows
  <2>2. CASE t \in Revoked(c)
    <3>1. row[t] # "none"
      BY <1>5, <2>2
    <3> QED
      BY <2>1, <2>2, <3>1
  <2>3. CASE t \notin Revoked(c)
    BY <2>1, <2>3
  <2> QED
    BY <2>2, <2>3
<1>7. \A v \in Users : u \notin known[v]
  BY <1>1, <1>4 DEF CallsPresentRows
<1>8. \A d \in Calls : call[d].stage # "free" => call[d].token # u
  BY <1>1, <1>4, SessionAssumption DEF CallsPresentRows
<1>9. parted \subseteq parted' /\ (call'[c].stage = "granted" \/ Chain(c, u) \in parted')
  <2>1. CASE Commit(c, u)
    <3>1. call[c].stage # "free"
      BY CommitEffects DEF Open
    <3>2. call'[c].stage = "granted"
      BY <1>1, <2>1, <3>1, GrantStep DEF Commit
    <3> QED
      BY <2>1, <3>2 DEF Commit
  <2>2. CASE CommitUnheard(c, u)
    BY <2>2 DEF CommitUnheard
  <2> QED
    BY <2>1, <2>2 DEF Commits
<1> QED
  BY <1>2, <1>3, <1>6, <1>7, <1>8, <1>9

LEMMA CommitHolds ==
  ASSUME SessionInv, HoldInv, NEW c \in Calls, NEW u \in Tokens, Commits(c, u)
  PROVE  HoldInv'
<1>1. /\ TypeOK /\ CallsPresentRows /\ RowsHaveOrigins
      /\ Undelivered /\ Owned /\ LogoutsPart /\ StrandedOnlyByLoss
  BY DEF SessionInv, HoldInv
<1>2. /\ call[c].stage = "open"
      /\ \A d \in Calls \ {c} : call'[d] = call[d]
      /\ call'[c].stage \in {"granted", "free"}
      /\ call'[c].stage # "free" => /\ call'[c].kind = call[c].kind
                                    /\ call'[c].token = u
                                    /\ call'[c].user = call[c].user
      /\ call[c].kind \in {"sign-in", "refresh"}
      /\ call[c].kind = "refresh" => call[c].token \in Tokens /\ row[call[c].token] = "live"
  BY CommitEffects DEF Open
<1>3. /\ known' = known /\ parted \subseteq parted'
      /\ owner'[u] = call[c].user
      /\ \A t \in Tokens \ {u} : owner'[t] = owner[t] /\ origin'[t] = origin[t]
      /\ \A t \in Tokens \ {u} : /\ row'[t] # "none" => row[t] # "none"
                                 /\ row[t] = "live" /\ t \notin Revoked(c) => row'[t] = "live"
      /\ \A v \in Users : u \notin known[v]
      /\ \A d \in Calls : call[d].stage # "free" => call[d].token # u
      /\ call'[c].stage = "granted" \/ Chain(c, u) \in parted'
  BY CommitFrames
<1>4. /\ row[u] = "none" /\ row'[u] = "live" /\ origin'[u] = Chain(c, u)
      /\ call[c].kind = "refresh" =>
           Revoked(c) = {call[c].token} /\ Chain(c, u) = origin[call[c].token]
      /\ call[c].kind # "refresh" => Revoked(c) = {} /\ Chain(c, u) = u
  BY CommitRows
<1>5. \A v \in Users : \A t \in known[v] : t \in Tokens \ {u} /\ row[t] # "none"
  BY <1>1, <1>3 DEF TypeOK, CallsPresentRows
<1>6. \A d \in Calls : call[d].stage # "free" => call[d].token \in (Tokens \ {u}) \cup {None}
  BY <1>1, <1>3, CallFields
<1>7. \A t \in Tokens : row[t] # "none" => origin[t] \in Tokens \ {u}
  BY <1>1, <1>4, SessionAssumption DEF RowsHaveOrigins
<1>8. Owned'
  <2>1. \A v \in Users : \A t \in known'[v] : owner'[t] = v
    BY <1>1, <1>3, <1>5 DEF Owned
  <2>2. ASSUME NEW d \in Calls, call'[d].stage # "free", call'[d].token # None
        PROVE  owner'[call'[d].token] = call'[d].user
    <3>1. CASE d = c
      BY <1>2, <1>3, <2>2, <3>1
    <3>2. CASE d # c
      <4>1. call'[d] = call[d]
        BY <1>2, <3>2
      <4>2. call[d].token \in Tokens \ {u} /\ owner[call[d].token] = call[d].user
        BY <1>1, <1>6, <2>2, <4>1 DEF Owned
      <4> QED
        BY <1>3, <4>1, <4>2
    <3> QED
      BY <3>1, <3>2
  <2>3. ASSUME NEW t \in Tokens, row'[t] # "none"
        PROVE  owner'[t] = owner'[origin'[t]]
    <3>1. CASE t = u /\ call[c].kind = "refresh"
      <4> DEFINE k == call[c].token
      <4>1. k \in Tokens /\ row[k] # "none" /\ k # None
        BY <1>2, <3>1, SessionAssumption
      <4>2. owner[k] = call[c].user
        BY <1>1, <1>2, <4>1 DEF Owned
      <4>3. owner[k] = owner[origin[k]]
        BY <1>1, <4>1 DEF Owned
      <4>4. origin[k] \in Tokens \ {u}
        BY <1>7, <4>1
      <4>5. owner'[origin[k]] = call[c].user
        BY <1>3, <4>2, <4>3, <4>4
      <4>6. origin'[u] = origin[k]
        BY <1>4, <3>1
      <4> QED
        BY <1>3, <3>1, <4>5, <4>6
    <3>2. CASE t = u /\ call[c].kind # "refresh"
      BY <1>4, <3>2
    <3>3. CASE t # u
      <4>1. /\ row[t] # "none" /\ origin'[t] = origin[t] /\ owner'[t] = owner[t]
            /\ owner[t] = owner[origin[t]]
        BY <1>1, <1>3, <2>3, <3>3 DEF Owned
      <4>2. owner'[origin[t]] = owner[origin[t]]
        BY <1>3, <1>7, <4>1
      <4> QED
        BY <4>1, <4>2
    <3> QED
      BY <3>1, <3>2, <3>3
  <2> QED
    BY <2>1, <2>2, <2>3 DEF Owned
<1>9. Undelivered'
  <2>1. ASSUME NEW d \in Calls, call'[d].stage = "granted"
        PROVE  /\ row'[call'[d].token] = "live"
               /\ \A v \in Users : call'[d].token \notin known'[v]
               /\ \A e \in Calls \ {d} : call'[e].stage # "free" =>
                    call'[e].token # call'[d].token
    <3>1. CASE d = c
      <4>1. call'[d].token = u
        BY <1>2, <2>1, <3>1
      <4>2. \A e \in Calls \ {d} : call'[e].stage # "free" => call'[e].token # u
        BY <1>2, <1>3, <3>1
      <4> QED
        BY <1>3, <1>4, <4>1, <4>2
    <3>2. CASE d # c
      <4>1. /\ call'[d] = call[d] /\ call[d].stage = "granted"
            /\ call[d].token \in Tokens \ {u}
        BY <1>1, <1>2, <1>3, <2>1, <3>2 DEF TypeOK
      <4>2. /\ row[call[d].token] = "live"
            /\ \A v \in Users : call[d].token \notin known[v]
            /\ \A e \in Calls \ {d} : call[e].stage # "free" => call[e].token # call[d].token
        BY <1>1, <4>1 DEF Undelivered
      <4>3. call[d].token \notin Revoked(c)
        BY <1>2, <1>4, <3>2, <4>2
      <4>4. row'[call[d].token] = "live"
        BY <1>3, <4>1, <4>2, <4>3
      <4>5. ASSUME NEW e \in Calls \ {d}, call'[e].stage # "free"
            PROVE  call'[e].token # call[d].token
        BY <1>2, <4>1, <4>2, <4>5
      <4> QED
        BY <1>3, <4>1, <4>2, <4>4, <4>5
    <3> QED
      BY <3>1, <3>2
  <2> QED
    BY <2>1 DEF Undelivered
<1>10. LogoutsPart'
  <2>1. ASSUME NEW d \in Calls, call'[d].stage # "free", call'[d].kind = "logout"
        PROVE  origin'[call'[d].token] \in parted'
    <3>1. d # c /\ call'[d] = call[d]
      BY <1>2, <2>1
    <3>2. call[d].token \in Tokens \ {u}
      BY <1>1, <1>3, <2>1, <3>1 DEF CallsPresentRows
    <3> QED
      BY <1>1, <1>3, <2>1, <3>1, <3>2 DEF LogoutsPart
  <2> QED
    BY <2>1 DEF LogoutsPart
<1>11. StrandedOnlyByLoss'
  <2> DEFINE L(r) == {t \in Tokens : row'[t] = "live" /\ origin'[t] = r}
  <2>1. ASSUME NEW v \in Users, NEW t \in known[v]
        PROVE  \/ L(origin[t]) \cap known[v] # {}
               \/ origin[t] \in parted'
               \/ \E d \in Calls : /\ call'[d].stage = "granted"
                                   /\ origin'[call'[d].token] = origin[t]
    <3>1. CASE origin[t] = Chain(c, u)
      BY <1>2, <1>3, <1>4, <3>1
    <3>2. CASE origin[t] # Chain(c, u)
      <4>1. CASE LiveOf(origin[t]) \cap known[v] # {}
        <5>1. PICK k \in Tokens : row[k] = "live" /\ origin[k] = origin[t] /\ k \in known[v]
          BY <4>1 DEF LiveOf
        <5>2. k # u /\ k \notin Revoked(c)
          BY <1>4, <1>5, <3>2, <5>1
        <5>3. k \in L(origin[t])
          BY <1>3, <5>1, <5>2
        <5> QED
          BY <5>1, <5>3
      <4>2. CASE origin[t] \in parted
        BY <1>3, <4>2
      <4>3. ASSUME NEW d \in Calls, call[d].stage = "granted",
                   origin[call[d].token] = origin[t]
            PROVE  call'[d].stage = "granted" /\ origin'[call'[d].token] = origin[t]
        <5>1. call'[d] = call[d] /\ call[d].token \in Tokens \ {u}
          BY <1>1, <1>2, <1>3, <4>3 DEF TypeOK
        <5> QED
          BY <1>3, <4>3, <5>1
      <4>4. \/ LiveOf(origin[t]) \cap known[v] # {}
            \/ origin[t] \in parted
            \/ \E d \in Calls : call[d].stage = "granted" /\ origin[call[d].token] = origin[t]
        BY <1>1 DEF StrandedOnlyByLoss
      <4> QED
        BY <4>1, <4>2, <4>3, <4>4
    <3> QED
      BY <3>1, <3>2
  <2>2. \A v \in Users : \A t \in known[v] : origin'[t] = origin[t]
    BY <1>3, <1>5
  <2> QED
    BY <1>3, <2>1, <2>2 DEF StrandedOnlyByLoss, LiveOf
<1> QED
  BY <1>8, <1>9, <1>10, <1>11 DEF HoldInv

-----------------------------------------------------------------------------
LEMMA HoldStep ==
  ASSUME SessionInv, HoldInv, [Next]_vars
  PROVE  HoldInv'
<1>1. ASSUME UNCHANGED <<row, owner, call, known, parted, origin>> PROVE HoldInv'
  BY <1>1, CarriedHolds DEF Carried
<1>2. ASSUME NEW t \in Tokens, Expire(t) PROVE HoldInv'
  BY <1>1, <1>2 DEF Expire, tableVars, clientVars
<1>3. CASE UNCHANGED vars
  BY <1>1, <1>3 DEF vars, tableVars, clientVars
<1> QED
  BY <1>2, <1>3, MovesHold, LogoutHolds, SendHolds, DeliverHolds, CommitHolds
  DEF Next, Moves, Commits

(* A user who did not ask to log out, lost no answer and waits for none    *)
(* holds a live refresh token of each sign-in: a refresh that fails, or is *)
(* repeated, or meets another on its way signs nobody out.                 *)
THEOREM StrandedCorrect == Spec => []StrandedOnlyByLoss
<1>1. HoldInv => StrandedOnlyByLoss
  BY DEF HoldInv
<1>2. SessionInv /\ HoldInv /\ [Next]_vars => HoldInv'
  BY HoldStep
<1> QED
  BY <1>1, <1>2, HoldInit, SessionInvariant, PTL DEF Spec
=============================================================================
