--------------------------- MODULE AccountsProofs ---------------------------
(* What holds of Accounts for any number of rows, sessions, tokens and     *)
(* concurrent requests.                                                    *)
EXTENDS Accounts, TLAPS

\* Sessions and tokens refer to rows that exist; reset tokens to accounts with
\* a password.
Owners ==
    /\ \A s \in Sessions : LiveSession(s) => session[s].user \in Users /\ Present(session[s].user)
    /\ \A t \in Tokens : token[t].life = "live" =>
          /\ token[t].user \in Users /\ Present(token[t].user)
          /\ token[t].scope = "password-reset" => user[token[t].user].provider = "email"

\* A row not in use carries no rights and no edits.
Unused ==
    \A u \in Users : ~Present(u) => ~user[u].verified /\ user[u].profile = {}

\* Handlers that set passwords or send reset tokens work on an account that
\* was, when they looked, one with a password.
Targets ==
    \A r \in Requests :
        /\ request[r].op \notin {"idle", "google"} =>
              request[r].user \in Users /\ user[request[r].user].state # "free"
        /\ request[r].op \in {"forgot", "reset", "change"} =>
              user[request[r].user].provider = "email"

\* If the version still matches, the copy an edit works on is up to date.
Copies ==
    \A r \in Requests :
        LET u == request[r].user IN
        request[r].op = "update" /\ Present(u) =>
          /\ request[r].row.version <= user[u].version
          /\ request[r].row.version = user[u].version =>
               /\ user[u].state = "active"
               /\ request[r].row.verified = user[u].verified
               /\ request[r].row.profile = user[u].profile
               /\ "deletion" \notin request[r].missed

\* A sign-in that missed no change of password verified the one in force.
Verifications ==
    \A r \in Requests :
        LET u == request[r].user IN
        request[r].op = "signin" /\ Present(u) /\ "password" \notin request[r].missed
          => request[r].row.password = user[u].password

AccountsInv == /\ TypeOK
               /\ Owners
               /\ Unused
               /\ Targets
               /\ Copies
               /\ Verifications
               /\ GrantsFollowVerification
               /\ PasswordChangeCutsOff
               /\ GooglePasswordless

-----------------------------------------------------------------------------
LEMMA Blank == /\ NoRow \in Row /\ NoRow.state = "free" /\ ~NoRow.verified
               /\ NoRow.password = 0 /\ NoRow.provider = "email" /\ NoRow.profile = {}
               /\ Idle \in Request /\ Idle.op = "idle"
  BY DEF NoRow, Row, Presence, Providers, Idle, Request, Ops, Events

LEMMA InitInv == Init => AccountsInv
<1> SUFFICES ASSUME Init PROVE AccountsInv
  OBVIOUS
<1>1. TypeOK
  BY Blank, AccountsAssumption DEF Init, TypeOK, Life, Scopes, SessionRow
<1>2. Owners /\ Unused /\ Targets /\ Copies /\ Verifications
  BY Blank DEF Init, Owners, Unused, Targets, Copies, Verifications, LiveSession, Present
<1>3. GrantsFollowVerification /\ PasswordChangeCutsOff /\ GooglePasswordless
  BY Blank DEF Init, GrantsFollowVerification, PasswordChangeCutsOff,
               GooglePasswordless, LiveSession
<1> QED  BY <1>1, <1>2, <1>3 DEF AccountsInv

\* A handler that starts keeps a copy that is up to date.
LEMMA StartInv ==
    ASSUME AccountsInv, NEW r \in Requests, NEW op \in Ops \ {"idle", "google"},
           NEW u \in Users, NEW s \in Sessions \union {NoSession}, Start(r, op, u, s),
           op = "update" => user[u].state = "active", user[u].state # "free",
           op \in {"forgot", "reset", "change"} => user[u].provider = "email"
    PROVE  AccountsInv'
<1> DEFINE new == [op |-> op, user |-> u, via |-> s, swept |-> FALSE, victims |-> {},
                   missed |-> {}, row |-> IF op \in Copying THEN user[u] ELSE NoRow]
<1>1. /\ new \in Request /\ new.op = op /\ new.user = u /\ new.missed = {}
      /\ op \in {"signin", "update"} => new.row = user[u]
  BY Blank DEF Request, AccountsInv, TypeOK, Copying
<1>2. /\ request' = [request EXCEPT ![r] = new]
      /\ UNCHANGED <<user, deletedFor, permitted, session, token>>
  BY DEF Start, tables
<1> HIDE DEF new
<1>3. user[u].version \in Nat
  BY DEF AccountsInv, TypeOK, Row
<1> QED
  BY <1>1, <1>2, <1>3
     DEF AccountsInv, TypeOK, Owners, Unused, Targets, Copies, Verifications, LiveSession,
         Present, GrantsFollowVerification, PasswordChangeCutsOff, GooglePasswordless

\* A handler that ends without a commit changes nothing.
LEMMA FinishInv ==
    ASSUME AccountsInv, NEW r \in Requests, Finish(r),
           UNCHANGED <<user, deletedFor, permitted, session, token>>
    PROVE  AccountsInv'
<1> QED
  BY Blank DEF Finish, AccountsInv, TypeOK, Owners, Unused, Targets, Copies, Verifications,
         LiveSession, Present, GrantsFollowVerification, PasswordChangeCutsOff, GooglePasswordless

-----------------------------------------------------------------------------
(* One lemma per commit.                                                   *)

LEMMA RegisterInv ==
    ASSUME AccountsInv, NEW u \in Users, NEW s \in Sessions, NEW t \in Tokens,
           Register(u, s, t)
    PROVE  AccountsInv'
<1> DEFINE row == [NoRow EXCEPT !.state = "active", !.password = 1, !.version = 1]
<1>1. /\ row \in Row /\ row.state = "active" /\ row.password = 1 /\ row.version = 1
      /\ ~row.verified /\ row.provider = "email"
  BY DEF NoRow, Row, Presence, Providers
<1>2. /\ user' = [user EXCEPT ![u] = row]
      /\ ~Present(u) /\ user[u].state = "free" /\ session[s].life = "unused" /\ token[t].life = "unused"
      /\ session' = [session EXCEPT ![s] = [life |-> "live", user |-> u, password |-> 1,
                                             overtaken |-> 0]]
      /\ token' = [token EXCEPT ![t] = [life |-> "live", user |-> u, scope |-> "activation"]]
      /\ UNCHANGED <<deletedFor, permitted, request>>
  BY DEF Register, CreateSession, AddressFree
<1> HIDE DEF row
<1>3. TypeOK'
  BY <1>1, <1>2 DEF AccountsInv, TypeOK, Life, Scopes, SessionRow
<1>4. Owners' /\ Unused'
  BY <1>1, <1>2 DEF AccountsInv, TypeOK, Owners, Unused, LiveSession, Present
<1>5. Targets' /\ Copies' /\ Verifications'
  BY <1>1, <1>2 DEF AccountsInv, TypeOK, Targets, Copies, Verifications, Present
<1>6. GrantsFollowVerification' /\ PasswordChangeCutsOff' /\ GooglePasswordless'
  BY <1>1, <1>2 DEF AccountsInv, TypeOK, GrantsFollowVerification, PasswordChangeCutsOff,
     GooglePasswordless, LiveSession, Owners, Unused
<1> QED  BY <1>3, <1>4, <1>5, <1>6 DEF AccountsInv

LEMMA GoogleInv ==
    ASSUME AccountsInv, NEW r \in Requests, NEW u \in Users, NEW s \in Sessions,
           GoogleCommit(r, u, s)
    PROVE  AccountsInv'
<1> DEFINE row == [NoRow EXCEPT !.state = "active", !.version = 1,
                                !.provider = "google", !.verified = TRUE]
<1>1. /\ row \in Row /\ row.state = "active" /\ row.password = 0 /\ row.version = 1
      /\ row.verified /\ row.provider = "google"
  BY DEF NoRow, Row, Presence, Providers
<1>2. /\ user' = [user EXCEPT ![u] = row]
      /\ ~Present(u) /\ user[u].state = "free" /\ session[s].life = "unused"
      /\ session' = [session EXCEPT ![s] = [life |-> "live", user |-> u, password |-> 0,
                                             overtaken |-> 0]]
      /\ permitted' = permitted \union {u}
      /\ request' = [request EXCEPT ![r] = Idle]
      /\ UNCHANGED <<deletedFor, token>>
  BY DEF GoogleCommit, CreateSession, AddressFree, Finish, Granted
<1> HIDE DEF row
<1>3. TypeOK'
  BY <1>1, <1>2, Blank DEF AccountsInv, TypeOK, Life, Scopes, SessionRow
<1>4. Owners' /\ Unused'
  BY <1>1, <1>2 DEF AccountsInv, TypeOK, Owners, Unused, LiveSession, Present
<1>5. Targets' /\ Copies' /\ Verifications'
  BY <1>1, <1>2, Blank DEF AccountsInv, TypeOK, Targets, Copies, Verifications, Present
<1>6. GrantsFollowVerification' /\ PasswordChangeCutsOff' /\ GooglePasswordless'
  BY <1>1, <1>2 DEF AccountsInv, TypeOK, GrantsFollowVerification, PasswordChangeCutsOff,
     GooglePasswordless, LiveSession, Owners, Unused
<1> QED  BY <1>3, <1>4, <1>5, <1>6 DEF AccountsInv

\* What the commit of r on u's row does to the requests: r ends, the others keep
\* their copies, and those of u note a change of the password.
Ended(r, u, changed) ==
    /\ request' \in [Requests -> Request]
    /\ request'[r].op = "idle"
    /\ \A q \in Requests \ {r} :
         /\ request'[q].op = request[q].op
         /\ request'[q].user = request[q].user
         /\ request'[q].row = request[q].row
         /\ request[q].missed \subseteq request'[q].missed
         /\ request[q].user # u => request'[q] = request[q]
         /\ changed /\ request[q].op = "signin" /\ request[q].user = u
              => "password" \in request'[q].missed

LEMMA FinishEnds ==
    ASSUME TypeOK, NEW r \in Requests, NEW u, Finish(r)
    PROVE  Ended(r, u, FALSE)
  BY Blank DEF TypeOK, Finish, Ended

LEMMA FinishAfterEnds ==
    ASSUME TypeOK, NEW r \in Requests, NEW u, NEW event \in Events,
           FinishAfter(r, event, u)
    PROVE  Ended(r, u, event = "password")
<1> DEFINE noted(q) == [request[q] EXCEPT !.missed = @ \union {event}]
<1>1. ASSUME NEW q \in Requests
      PROVE  /\ noted(q) \in Request /\ noted(q).op = request[q].op
             /\ noted(q).user = request[q].user /\ noted(q).row = request[q].row
             /\ noted(q).missed = request[q].missed \union {event}
  <2>1. request[q] \in Request
    BY DEF TypeOK
  <2>2. request[q].missed \union {event} \in SUBSET Events
    BY <2>1 DEF Request
  <2> QED  BY <2>1, <2>2 DEF Request
<1>2. request' = [q \in Requests |->
        IF q = r THEN Idle
        ELSE IF request[q].op \in Copying /\ request[q].user = u THEN noted(q)
        ELSE request[q]]
  BY DEF FinishAfter
<1> HIDE DEF noted
<1>3. request' \in [Requests -> Request]
  BY <1>1, <1>2, Blank DEF TypeOK
<1>4. request'[r].op = "idle"
  BY <1>2, Blank
<1>5. ASSUME NEW q \in Requests \ {r}
      PROVE  /\ request'[q].op = request[q].op
             /\ request'[q].user = request[q].user
             /\ request'[q].row = request[q].row
             /\ request[q].missed \subseteq request'[q].missed
             /\ request[q].user # u => request'[q] = request[q]
             /\ event = "password" /\ request[q].op = "signin" /\ request[q].user = u
                  => "password" \in request'[q].missed
  BY <1>1, <1>2 DEF Copying
<1> QED  BY <1>3, <1>4, <1>5 DEF Ended

\* Every other commit writes at most one row that exists, raises its version,
\* and leaves each live session as it was unless it belongs to that row.
LEMMA RowCommitInv ==
    ASSUME AccountsInv, NEW r \in Requests, NEW u \in Users, NEW row \in Row,
           Present(u),
           \/ Ended(r, u, TRUE)
           \/ Ended(r, u, FALSE) /\ row.password = user[u].password,
           user' = [user EXCEPT ![u] = row],
           row.state \in {"active", "deleted"}, row.provider = user[u].provider,
           row.version = user[u].version + 1,
           row.provider = "google" => row.password = 0,
           deletedFor' \in [Users -> 0..Grace + 1],
           permitted' \subseteq Users,
           \A v \in Users : v \in permitted' <=> IF v = u THEN row.verified
                                                           ELSE v \in permitted,
           session' \in [Sessions -> SessionRow],
           \A s \in Sessions : session'[s].life = "live" =>
               IF session'[s].user = u
                 THEN \/ session'[s].password = row.password
                      \/ session'[s].overtaken = row.password
                      \/ s = row.kept
                 ELSE session'[s] = session[s],
           token' \in [Tokens -> [life : Life, user : Users \union {NoUser},
                                  scope : Scopes]],
           \A t \in Tokens : token'[t].life = "live" => token'[t] = token[t]
    PROVE  AccountsInv'
<1>1. /\ \A v \in Users \ {u} : user'[v] = user[v]
      /\ user'[u] = row
      /\ request' \in [Requests -> Request]
  BY DEF Ended, AccountsInv, TypeOK
<1>2. TypeOK'
  BY <1>1, Blank DEF AccountsInv, TypeOK
<1>3. Owners' /\ Unused'
  BY <1>1 DEF AccountsInv, Owners, Unused, LiveSession, Present
<1>4. Targets' /\ Copies' /\ Verifications'
  <2>1. user[u].version \in Nat /\ user[u].version + 1 # user[u].version
    BY DEF AccountsInv, TypeOK, Row
  <2>2. \A q \in Requests : request[q].row.version \in Nat
    BY DEF AccountsInv, TypeOK, Request, Row
  <2>3. Targets'
    BY <1>1 DEF AccountsInv, Targets, Ended, Present
  <2>4. Copies'
    BY <1>1, <2>1, <2>2 DEF AccountsInv, Targets, Copies, Ended, Present
  <2>5. Verifications'
    BY <1>1 DEF AccountsInv, Targets, Verifications, Ended, Present
  <2> QED  BY <2>3, <2>4, <2>5
<1>5. GrantsFollowVerification' /\ PasswordChangeCutsOff' /\ GooglePasswordless'
  BY <1>1 DEF AccountsInv, GrantsFollowVerification, PasswordChangeCutsOff,
     GooglePasswordless, LiveSession
<1> QED  BY <1>2, <1>3, <1>4, <1>5 DEF AccountsInv

\* The UPDATE statements yield rows.
LEMMA NewState ==
    ASSUME NEW old \in Row
    PROVE  SoftDeleted(old) \in Row /\ Restored(old) \in Row
<1> DEFINE a(x) == [old EXCEPT !.state = x]
           b(x) == [a(x) EXCEPT !.version = @ + 1]
<1>1. a("deleted") \in Row /\ a("active") \in Row  BY DEF Row, Presence
<1> HIDE DEF a
<1>2. b("deleted") \in Row /\ b("active") \in Row  BY <1>1 DEF Row
<1>3. b("deleted") = SoftDeleted(old) /\ b("active") = Restored(old)
  BY DEF a, b, SoftDeleted, Restored
<1> QED  BY <1>2, <1>3

LEMMA NewVerified == ASSUME NEW old \in Row PROVE Activated(old) \in Row
<1> DEFINE a == [old EXCEPT !.verified = TRUE]
           b == [a EXCEPT !.version = @ + 1]
<1>1. a \in Row  BY DEF Row
<1> HIDE DEF a
<1>2. b \in Row  BY <1>1 DEF Row
<1>3. b = Activated(old)  BY DEF a, b, Activated
<1> QED  BY <1>2, <1>3

LEMMA NewPassword ==
    ASSUME NEW old \in Row, NEW k \in Sessions \union {NoSession}
    PROVE  WithPassword(old, k) \in Row
<1> DEFINE a == [old EXCEPT !.password = @ + 1]
           b == [a EXCEPT !.version = @ + 1]
           c == [b EXCEPT !.kept = k]
<1>1. a \in Row  BY DEF Row
<1> HIDE DEF a
<1>2. b \in Row  BY <1>1 DEF Row
<1> HIDE DEF b
<1>3. c \in Row  BY <1>2 DEF Row
<1>4. c = WithPassword(old, k)  BY DEF a, b, c, WithPassword
<1> QED  BY <1>3, <1>4

LEMMA NewProfile ==
    ASSUME NEW old \in Row, NEW copy \in Row, NEW r \in Requests
    PROVE  Edited(old, copy, r) \in Row
<1> DEFINE a == [old EXCEPT !.profile = copy.profile \union {r}]
           b == [a EXCEPT !.verified = copy.verified]
           c == [b EXCEPT !.version = @ + 1]
<1>1. a \in Row  BY DEF Row
<1> HIDE DEF a
<1>2. b \in Row  BY <1>1 DEF Row
<1> HIDE DEF b
<1>3. c \in Row  BY <1>2 DEF Row
<1>4. c = Edited(old, copy, r)  BY DEF a, b, c, Edited
<1> QED  BY <1>3, <1>4

\* Deleting sessions or tokens only ends lives.
LEMMA Without ==
    ASSUME TypeOK, NEW u \in Users, NEW k \in Sessions \union {NoSession}, NEW sc \in Scopes
    PROVE  /\ SessionsWithout(u, k) \in [Sessions -> SessionRow]
           /\ \A s \in Sessions : SessionsWithout(u, k)[s].life = "live" =>
                  /\ SessionsWithout(u, k)[s] = session[s]
                  /\ session[s].user = u => s = k
           /\ TokensWithout(u, sc) \in [Tokens -> [life : Life,
                  user : Users \union {NoUser}, scope : Scopes]]
           /\ \A t \in Tokens : TokensWithout(u, sc)[t].life = "live" =>
                  TokensWithout(u, sc)[t] = token[t]
  BY DEF TypeOK, SessionsWithout, TokensWithout, Life, Scopes, SessionRow

\* Setting a password, in a change or a reset.
LEMMA PasswordInv ==
    ASSUME AccountsInv, NEW r \in Requests, NEW u \in Users, Present(u),
           FinishAfter(r, "password", u), user[u].provider = "email",
           NEW k \in Sessions \union {NoSession},
           user' = [user EXCEPT ![u] = WithPassword(user[u], k)],
           session' = SessionsWithout(u, k), token' \in {token, TokensWithout(u, "password-reset")},
           UNCHANGED <<deletedFor, permitted>>
    PROVE  AccountsInv'
<1> DEFINE row == WithPassword(user[u], k)
<1>1. user[u] \in Row
  BY DEF AccountsInv, TypeOK
<1>2. row \in Row
  BY <1>1, NewPassword
<1>3. /\ row.state = user[u].state /\ row.provider = user[u].provider
      /\ row.version = user[u].version + 1 /\ row.verified = user[u].verified
      /\ row.kept = k
  BY <1>1 DEF Row, WithPassword
<1>4. user' = [user EXCEPT ![u] = row]
  OBVIOUS
<1> HIDE DEF row
<1>5. \A s \in Sessions : session'[s].life = "live" =>
         IF session'[s].user = u
           THEN \/ session'[s].password = row.password
                \/ session'[s].overtaken = row.password
                \/ s = row.kept
           ELSE session'[s] = session[s]
  BY <1>3, <1>4, Without DEF AccountsInv, Scopes
<1>6. \A v \in Users : v \in permitted' <=> IF v = u THEN row.verified ELSE v \in permitted
  BY <1>3, <1>4 DEF AccountsInv, GrantsFollowVerification
<1>7. /\ row.state \in {"active", "deleted"}
      /\ row.provider = "google" => row.password = 0
      /\ session' \in [Sessions -> SessionRow]
  BY <1>3, <1>4, Without DEF AccountsInv, Scopes, Present
<1>8. /\ deletedFor' \in [Users -> 0..Grace + 1] /\ permitted' \subseteq Users
      /\ token' \in [Tokens -> [life : Life, user : Users \union {NoUser}, scope : Scopes]]
      /\ \A t \in Tokens : token'[t].life = "live" => token'[t] = token[t]
  BY <1>4, Without DEF AccountsInv, TypeOK, Scopes
<1>9. Ended(r, u, TRUE)
  BY FinishAfterEnds DEF AccountsInv, Events
<1> QED
  BY <1>2, <1>3, <1>4, <1>5, <1>6, <1>7, <1>8, <1>9, RowCommitInv

LEMMA ActivateInv ==
    ASSUME AccountsInv, NEW r \in Requests, ActivateCommit(r) PROVE AccountsInv'
<1> DEFINE u == request[r].user
           row == Activated(user[u])
<1>1. /\ u \in Users /\ user[u] \in Row /\ Present(u)
  BY DEF ActivateCommit, AccountsInv, Targets, TypeOK, Present
<1>2. row \in Row
  BY <1>1, NewVerified
<1>3. /\ row.state = user[u].state /\ row.provider = user[u].provider
      /\ row.version = user[u].version + 1 /\ row.verified
      /\ row.password = user[u].password /\ row.kept = user[u].kept
  BY <1>1 DEF Row, Activated
<1>4. /\ Finish(r) /\ user' = [user EXCEPT ![u] = row]
      /\ permitted' = permitted \union {u} /\ token' = TokensWithout(u, "activation")
      /\ UNCHANGED <<deletedFor, session>> /\ user[u].state = "active"
  BY DEF ActivateCommit, Granted
<1> HIDE DEF row, u
<1>5. \A s \in Sessions : session'[s].life = "live" =>
         IF session'[s].user = u
           THEN \/ session'[s].password = row.password
                \/ session'[s].overtaken = row.password
                \/ s = row.kept
           ELSE session'[s] = session[s]
  BY <1>3, <1>4 DEF AccountsInv, PasswordChangeCutsOff, LiveSession
<1>6. /\ permitted' \subseteq Users
      /\ \A v \in Users : v \in permitted' <=> IF v = u THEN row.verified ELSE v \in permitted
  BY <1>1, <1>3, <1>4 DEF AccountsInv, TypeOK
<1>7. /\ row.provider = "google" => row.password = 0
      /\ row.state \in {"active", "deleted"}
  BY <1>1, <1>3, <1>4 DEF AccountsInv, GooglePasswordless
<1>8. /\ deletedFor' \in [Users -> 0..Grace + 1]
      /\ session' \in [Sessions -> SessionRow]
  BY <1>4 DEF AccountsInv, TypeOK
<1>9. /\ token' \in [Tokens -> [life : Life, user : Users \union {NoUser}, scope : Scopes]]
      /\ \A t \in Tokens : token'[t].life = "live" => token'[t] = token[t]
  BY <1>1, <1>4, Without DEF AccountsInv, Scopes
<1>10. Ended(r, u, FALSE) /\ row.password = user[u].password
  BY <1>3, <1>4, FinishEnds DEF AccountsInv
<1> QED
  BY <1>1, <1>2, <1>3, <1>4, <1>5, <1>6, <1>7, <1>8, <1>9, <1>10, RowCommitInv

LEMMA UpdateInv ==
    ASSUME AccountsInv, NEW r \in Requests, UpdateCommit(r) PROVE AccountsInv'
<1> DEFINE u == request[r].user
           copy == request[r].row
           row == Edited(user[u], copy, r)
<1>1. /\ u \in Users /\ user[u] \in Row /\ copy \in Row /\ Present(u)
      /\ copy.verified = user[u].verified
  <2>1. request[r].op = "update" /\ Present(u) /\ copy.version = user[u].version
    BY DEF UpdateCommit, VersionMatches
  <2>2. u \in Users
    BY <2>1 DEF AccountsInv, Targets
  <2>3. user[u] \in Row /\ copy \in Row
    BY <2>2 DEF AccountsInv, TypeOK, Request
  <2>4. copy.verified = user[u].verified
    BY <2>1 DEF AccountsInv, Copies
  <2> QED  BY <2>1, <2>2, <2>3, <2>4
<1>2. row \in Row
  BY <1>1, NewProfile
<1>3. /\ row.state = user[u].state /\ row.provider = user[u].provider
      /\ row.version = user[u].version + 1 /\ row.verified = user[u].verified
      /\ row.password = user[u].password /\ row.kept = user[u].kept
  BY <1>1 DEF Row, Edited
<1>4. /\ Finish(r) /\ user' = [user EXCEPT ![u] = row]
      /\ UNCHANGED <<deletedFor, permitted, session, token>>
  BY DEF UpdateCommit
<1> HIDE DEF row, u, copy
<1>5. \A s \in Sessions : session'[s].life = "live" =>
         IF session'[s].user = u
           THEN \/ session'[s].password = row.password
                \/ session'[s].overtaken = row.password
                \/ s = row.kept
           ELSE session'[s] = session[s]
  BY <1>3, <1>4 DEF AccountsInv, PasswordChangeCutsOff, LiveSession
<1>6. /\ permitted' \subseteq Users
      /\ \A v \in Users : v \in permitted' <=> IF v = u THEN row.verified ELSE v \in permitted
  BY <1>1, <1>3, <1>4 DEF AccountsInv, TypeOK, GrantsFollowVerification
<1>7. /\ row.provider = "google" => row.password = 0
      /\ row.state \in {"active", "deleted"}
  BY <1>1, <1>3 DEF AccountsInv, GooglePasswordless, Present
<1>8. /\ deletedFor' \in [Users -> 0..Grace + 1]
      /\ session' \in [Sessions -> SessionRow]
      /\ token' \in [Tokens -> [life : Life, user : Users \union {NoUser}, scope : Scopes]]
      /\ \A t \in Tokens : token'[t].life = "live" => token'[t] = token[t]
  BY <1>4 DEF AccountsInv, TypeOK
<1>9. Ended(r, u, FALSE) /\ row.password = user[u].password
  BY <1>3, <1>4, FinishEnds DEF AccountsInv
<1> QED
  BY <1>1, <1>2, <1>3, <1>4, <1>5, <1>6, <1>7, <1>8, <1>9, RowCommitInv

\* A step that ends the lives of sessions and tokens, and adds a token for an
\* existing owner, keeps the invariant.
LEMMA LivesInv ==
    ASSUME AccountsInv, UNCHANGED <<user, permitted>>,
           deletedFor' \in [Users -> 0..Grace + 1],
           request' \in [Requests -> Request],
           \A q \in Requests : \/ request'[q].op \in {"idle", "google"}
                               \/ /\ request'[q].op = request[q].op
                                  /\ request'[q].user = request[q].user
                                  /\ request'[q].row = request[q].row
                                  /\ request'[q].missed = request[q].missed,
           session' \in [Sessions -> SessionRow],
           \A s \in Sessions : session'[s].life = "live" => session'[s] = session[s],
           token' \in [Tokens -> [life : Life, user : Users \union {NoUser},
                                  scope : Scopes]],
           \A t \in Tokens : token'[t].life = "live" =>
               \/ token'[t] = token[t]
               \/ /\ token'[t].user \in Users /\ Present(token'[t].user)
                  /\ token'[t].scope = "password-reset" =>
                       user[token'[t].user].provider = "email"
    PROVE  AccountsInv'
<1>1. TypeOK'
  BY DEF AccountsInv, TypeOK
<1>2. Owners' /\ Unused'
  BY DEF AccountsInv, Owners, Unused, LiveSession, Present
<1>3. Targets' /\ Copies' /\ Verifications'
  BY DEF AccountsInv, Targets, Copies, Verifications, Present
<1>4. GrantsFollowVerification' /\ PasswordChangeCutsOff' /\ GooglePasswordless'
  BY DEF AccountsInv, GrantsFollowVerification, PasswordChangeCutsOff,
         GooglePasswordless, LiveSession
<1> QED  BY <1>1, <1>2, <1>3, <1>4 DEF AccountsInv

LEMMA SignInInv ==
    ASSUME AccountsInv, NEW r \in Requests, NEW s \in Sessions, SignInCommit(r, s)
    PROVE  AccountsInv'
<1> DEFINE u == request[r].user
           new == [life |-> "live", user |-> u, password |-> request[r].row.password,
                   overtaken |-> IF "password" \in request[r].missed
                                   THEN user[u].password ELSE 0]
<1>1. /\ u \in Users /\ user[u] \in Row /\ Present(u)
      /\ Finish(r) /\ UNCHANGED <<permitted, token>>
      /\ session' = [session EXCEPT ![s] = new]
  BY DEF SignInCommit, CreateSession, AccountsInv, Targets, TypeOK
<1>2. new \in SessionRow
  <2>1. user[u].password \in Nat /\ request[r].row.password \in Nat
    BY <1>1 DEF AccountsInv, TypeOK, Request, Row
  <2> QED  BY <1>1, <2>1 DEF Life, SessionRow
<1>0. new.password = user[u].password \/ new.overtaken = user[u].password
  BY <1>1 DEF SignInCommit, AccountsInv, Verifications
<1>3. /\ session' \in [Sessions -> SessionRow]
      /\ \A v \in Sessions : session'[v] = IF v = s THEN new ELSE session[v]
  BY <1>1, <1>2 DEF AccountsInv, TypeOK
<1>4. CASE request[r].row.state = "deleted"
  <2> DEFINE row == Restored(user[u])
  <2>1. row \in Row
    BY <1>1, NewState
  <2>2. /\ row.state = "active" /\ row.provider = user[u].provider
        /\ row.version = user[u].version + 1 /\ row.verified = user[u].verified
        /\ row.password = user[u].password /\ row.kept = user[u].kept
    BY <1>1 DEF Row, Restored
  <2>3. /\ user' = [user EXCEPT ![u] = row]
        /\ deletedFor' = [deletedFor EXCEPT ![u] = 0]
    BY <1>4 DEF SignInCommit
  <2> HIDE DEF row
  <2>4. \A v \in Sessions : session'[v].life = "live" =>
           IF session'[v].user = u
             THEN \/ session'[v].password = row.password
                  \/ session'[v].overtaken = row.password
                  \/ v = row.kept
             ELSE session'[v] = session[v]
    BY <1>0, <1>3, <2>2 DEF AccountsInv, PasswordChangeCutsOff, LiveSession
  <2>5. /\ permitted' \subseteq Users
        /\ \A v \in Users : v \in permitted' <=> IF v = u THEN row.verified
                                                         ELSE v \in permitted
    BY <1>1, <2>2 DEF AccountsInv, TypeOK, GrantsFollowVerification
  <2>6. row.provider = "google" => row.password = 0
    BY <1>1, <2>2 DEF AccountsInv, GooglePasswordless
  <2>7. /\ deletedFor' \in [Users -> 0..Grace + 1]
        /\ token' \in [Tokens -> [life : Life, user : Users \union {NoUser}, scope : Scopes]]
        /\ \A t \in Tokens : token'[t].life = "live" => token'[t] = token[t]
    BY <1>1, <2>3, AccountsAssumption DEF AccountsInv, TypeOK
  <2>8. Ended(r, u, FALSE) /\ row.password = user[u].password
    BY <1>1, <2>2, FinishEnds DEF AccountsInv
  <2>9. u \in Users /\ Present(u) /\ session' \in [Sessions -> SessionRow]
    BY <1>1, <1>3
  <2> HIDE DEF u, new
  <2> QED
    BY <2>1, <2>2, <2>3, <2>4, <2>5, <2>6, <2>7, <2>8, <2>9, RowCommitInv
<1>5. CASE request[r].row.state # "deleted"
  <2>1. UNCHANGED <<user, deletedFor>>
    BY <1>5 DEF SignInCommit
  <2>2. request' = [request EXCEPT ![r] = Idle]
    BY <1>1 DEF Finish
  <2> HIDE DEF u
  <2>3. TypeOK'
    BY <1>1, <1>3, <2>1, <2>2, Blank DEF AccountsInv, TypeOK
  <2>4. Owners' /\ Unused'
    BY <1>1, <1>3, <2>1 DEF AccountsInv, Owners, Unused, LiveSession, Present
  <2>5. Targets' /\ Copies' /\ Verifications'
    BY <2>1, <2>2, Blank DEF AccountsInv, TypeOK, Targets, Copies, Verifications, Present
  <2>6. GrantsFollowVerification' /\ PasswordChangeCutsOff' /\ GooglePasswordless'
    BY <1>0, <1>1, <1>3, <2>1 DEF AccountsInv, GrantsFollowVerification,
       PasswordChangeCutsOff, GooglePasswordless, LiveSession
  <2> QED  BY <2>3, <2>4, <2>5, <2>6 DEF AccountsInv
<1> QED  BY <1>4, <1>5

LEMMA DeleteInv ==
    ASSUME AccountsInv, NEW r \in Requests, DeleteCommit(r) PROVE AccountsInv'
<1> DEFINE u == request[r].user
<1>1. /\ u \in Users /\ user[u] \in Row
      /\ session' = SessionsWithout(u, NoSession)
      /\ UNCHANGED <<deletedFor, permitted, token>>
  BY DEF DeleteCommit, AccountsInv, Targets, TypeOK
<1>2. /\ session' \in [Sessions -> SessionRow]
      /\ \A s \in Sessions : session'[s].life = "live" =>
              session'[s] = session[s] /\ (session[s].user = u => s = NoSession)
  BY <1>1, Without DEF AccountsInv, Scopes
<1>3. /\ deletedFor' \in [Users -> 0..Grace + 1] /\ permitted' \subseteq Users
      /\ token' \in [Tokens -> [life : Life, user : Users \union {NoUser}, scope : Scopes]]
      /\ \A t \in Tokens : token'[t].life = "live" => token'[t] = token[t]
  BY <1>1 DEF AccountsInv, TypeOK
<1>4. CASE user[u].state = "active"
  <2> DEFINE row == SoftDeleted(user[u])
  <2>1. row \in Row
    BY <1>1, NewState
  <2>2. /\ row.state = "deleted" /\ row.provider = user[u].provider
        /\ row.version = user[u].version + 1 /\ row.verified = user[u].verified
        /\ row.password = user[u].password /\ row.kept = user[u].kept
    BY <1>1 DEF Row, SoftDeleted
  <2>3. user' = [user EXCEPT ![u] = row] /\ Present(u)
    BY <1>4 DEF DeleteCommit, Present
  <2>7. Ended(r, u, FALSE) /\ row.password = user[u].password
    <3>1. FinishAfter(r, "deletion", u)
      BY <1>4 DEF DeleteCommit
    <3> QED  BY <2>2, <3>1, FinishAfterEnds DEF AccountsInv, Events
  <2> HIDE DEF row
  <2>4. \A v \in Sessions : session'[v].life = "live" =>
           IF session'[v].user = u
             THEN \/ session'[v].password = row.password
                  \/ session'[v].overtaken = row.password
                  \/ v = row.kept
             ELSE session'[v] = session[v]
    BY <1>2, AccountsAssumption
  <2>5. \A v \in Users : v \in permitted' <=> IF v = u THEN row.verified
                                                    ELSE v \in permitted
    BY <1>1, <2>2 DEF AccountsInv, GrantsFollowVerification
  <2>6. row.provider = "google" => row.password = 0
    BY <1>1, <2>2 DEF AccountsInv, GooglePasswordless
  <2> HIDE DEF u
  <2> QED
    BY <1>1, <1>2, <1>3, <2>1, <2>2, <2>3, <2>4, <2>5, <2>6, <2>7, RowCommitInv
<1>5. CASE user[u].state # "active"
  <2>1. UNCHANGED user /\ Finish(r)
    BY <1>5 DEF DeleteCommit
  <2>2. request' \in [Requests -> Request]
    BY <2>1, Blank DEF AccountsInv, TypeOK, Finish
  <2>3. \A q \in Requests : request'[q].op = "idle" \/ request'[q] = request[q]
    BY <2>1, Blank DEF AccountsInv, TypeOK, Finish
  <2> HIDE DEF u
  <2> QED  BY <1>1, <1>2, <1>3, <2>1, <2>2, <2>3, LivesInv
<1> QED  BY <1>4, <1>5

\* Tokens.New: neither its DELETE nor its commit disturbs the accounts.
LEMMA NewTokenInv ==
    ASSUME AccountsInv, NEW r \in Requests,
           NewDelete(r) \/ \E t \in Tokens : NewCommit(r, t)
    PROVE  AccountsInv'
<1>1. /\ UNCHANGED <<user, permitted, deletedFor, session>>
      /\ deletedFor' \in [Users -> 0..Grace + 1]
      /\ session' \in [Sessions -> SessionRow]
  BY DEF NewDelete, NewCommit, tables, AccountsInv, TypeOK
<1>2. CASE NewDelete(r)
  <2> DEFINE found == {t \in Tokens : token[t].user = request[r].user
                                         /\ LiveToken(t, ScopeOf(request[r].op))}
             new == [request[r] EXCEPT !.swept = TRUE, !.victims = found]
  <2>1. request' = [request EXCEPT ![r] = new] /\ UNCHANGED token
    BY <1>2 DEF NewDelete, tables
  <2>2. /\ new \in Request /\ new.op = request[r].op /\ new.user = request[r].user
        /\ new.row = request[r].row /\ new.missed = request[r].missed
    <3> DEFINE a == [request[r] EXCEPT !.swept = TRUE]
               b == [a EXCEPT !.victims = found]
    <3>1. a \in Request /\ a.op = request[r].op /\ a.user = request[r].user
          /\ a.row = request[r].row /\ a.missed = request[r].missed
      BY DEF AccountsInv, TypeOK, Request
    <3> HIDE DEF a
    <3>2. found \in SUBSET Tokens
      OBVIOUS
    <3> HIDE DEF found
    <3>3. b \in Request /\ b.op = a.op /\ b.user = a.user /\ b.row = a.row
          /\ b.missed = a.missed
      BY <3>1, <3>2 DEF Request
    <3>4. b = new
      BY DEF a, b, new
    <3> QED  BY <3>1, <3>3, <3>4
  <2> HIDE DEF new
  <2>3. request' \in [Requests -> Request]
    BY <2>1, <2>2 DEF AccountsInv, TypeOK
  <2>4. \A q \in Requests : /\ request'[q].op = request[q].op
                            /\ request'[q].user = request[q].user
                            /\ request'[q].row = request[q].row
                            /\ request'[q].missed = request[q].missed
    BY <2>1, <2>2 DEF AccountsInv, TypeOK
  <2>5. token' \in [Tokens -> [life : Life, user : Users \union {NoUser}, scope : Scopes]]
    BY <2>1 DEF AccountsInv, TypeOK
  <2> QED  BY <1>1, <2>1, <2>3, <2>4, <2>5, LivesInv
<1>3. CASE \E t \in Tokens : NewCommit(r, t)
  <2>1. PICK t \in Tokens : NewCommit(r, t)
    BY <1>3
  <2> DEFINE u == request[r].user
             new == [life |-> "live", user |-> u, scope |-> ScopeOf(request[r].op)]
  <2>2. /\ u \in Users /\ Present(u) /\ new \in [life : Life,
                user : Users \union {NoUser}, scope : Scopes]
        /\ new.scope = "password-reset" => user[u].provider = "email"
    BY <2>1 DEF NewCommit, AccountsInv, Targets, ScopeOf, Life, Scopes
  <2>3. token' = [v \in Tokens |->
           IF v = t THEN new
           ELSE IF v \in request[r].victims THEN [token[v] EXCEPT !.life = "gone"]
           ELSE token[v]]
    BY <2>1 DEF NewCommit
  <2>4. new.user = u
    OBVIOUS
  <2> HIDE DEF new
  <2>5. token' \in [Tokens -> [life : Life, user : Users \union {NoUser}, scope : Scopes]]
    BY <2>2, <2>3 DEF AccountsInv, TypeOK, Life
  <2>6. \A v \in Tokens : token'[v].life = "live" => token'[v] = token[v] \/ token'[v] = new
    BY <2>3 DEF AccountsInv, TypeOK
  <2>7. /\ request' \in [Requests -> Request]
        /\ \A q \in Requests : request'[q].op = "idle" \/ request'[q] = request[q]
    BY <2>1, Blank DEF NewCommit, Finish, AccountsInv, TypeOK
  <2> HIDE DEF u
  <2> QED  BY <1>1, <2>2, <2>4, <2>5, <2>6, <2>7, LivesInv
<1> QED  BY <1>2, <1>3

\* Logout and expiry.
LEMMA EndInv ==
    ASSUME AccountsInv,
           \/ \E s \in Sessions : Logout(s) \/ ExpireSession(s)
           \/ \E t \in Tokens : ExpireToken(t)
    PROVE  AccountsInv'
<1>1. /\ UNCHANGED <<user, permitted, deletedFor, request>>
      /\ deletedFor' \in [Users -> 0..Grace + 1]
      /\ request' \in [Requests -> Request]
  BY DEF Logout, ExpireSession, ExpireToken, AccountsInv, TypeOK
<1>2. /\ session' \in [Sessions -> SessionRow]
      /\ \A s \in Sessions : session'[s].life = "live" => session'[s] = session[s]
  BY DEF Logout, ExpireSession, ExpireToken, AccountsInv, TypeOK, Life, SessionRow
<1>3. /\ token' \in [Tokens -> [life : Life, user : Users \union {NoUser}, scope : Scopes]]
      /\ \A t \in Tokens : token'[t].life = "live" => token'[t] = token[t]
  BY DEF Logout, ExpireSession, ExpireToken, AccountsInv, TypeOK, Life
<1> QED  BY <1>1, <1>2, <1>3, LivesInv

LEMMA TickInv == ASSUME AccountsInv, Tick PROVE AccountsInv'
<1>1. deletedFor' \in [Users -> 0..Grace + 1]
  BY AccountsAssumption DEF Tick, AccountsInv, TypeOK
<1>2. UNCHANGED <<user, permitted, session, token, request>>
  BY DEF Tick
<1>3. /\ request' \in [Requests -> Request]
      /\ session' \in [Sessions -> SessionRow]
      /\ token' \in [Tokens -> [life : Life, user : Users \union {NoUser}, scope : Scopes]]
  BY <1>2 DEF AccountsInv, TypeOK
<1> QED  BY <1>1, <1>2, <1>3, LivesInv

LEMMA PurgeInv == ASSUME AccountsInv, Purge PROVE AccountsInv'
<1> DEFINE due == {u \in Users : PurgeDue(u)}
           gone == [NoRow EXCEPT !.state = "purged"]
<1>1. /\ gone \in Row /\ gone.state = "purged" /\ ~gone.verified
      /\ gone.password = 0 /\ gone.provider = "email" /\ gone.profile = {}
  BY DEF NoRow, Row, Presence, Providers
<1>2. /\ user' = [u \in Users |-> IF u \in due THEN gone ELSE user[u]]
      /\ permitted' = permitted \ due
      /\ session' = [s \in Sessions |-> IF session[s].user \in due
                                          THEN [session[s] EXCEPT !.life = "gone"]
                                          ELSE session[s]]
      /\ token' = [t \in Tokens |-> IF token[t].user \in due
                                      THEN [token[t] EXCEPT !.life = "gone"]
                                      ELSE token[t]]
      /\ UNCHANGED <<deletedFor, request>>
  BY DEF Purge
<1>3. \A u \in due : user[u].state = "deleted"
  BY DEF PurgeDue
<1> HIDE DEF due, gone
<1>4. /\ \A s \in Sessions : session'[s].life = "live" =>
             session'[s] = session[s] /\ session[s].user \notin due
      /\ \A t \in Tokens : token'[t].life = "live" =>
             token'[t] = token[t] /\ token[t].user \notin due
  BY <1>2 DEF AccountsInv, TypeOK
<1>5. TypeOK'
  <2>1. session' \in [Sessions -> SessionRow]
    BY <1>2 DEF AccountsInv, TypeOK, Life, SessionRow
  <2>2. token' \in [Tokens -> [life : Life, user : Users \union {NoUser}, scope : Scopes]]
    BY <1>2 DEF AccountsInv, TypeOK, Life
  <2> QED  BY <1>1, <1>2, <2>1, <2>2 DEF AccountsInv, TypeOK
<1>6. Owners'
  BY <1>2, <1>4 DEF AccountsInv, Owners, LiveSession, Present
<1>7. Unused' /\ GrantsFollowVerification' /\ GooglePasswordless'
  BY <1>1, <1>2 DEF AccountsInv, Unused, GrantsFollowVerification, GooglePasswordless,
     Present
<1>8. Targets' /\ Copies' /\ Verifications'
  BY <1>1, <1>2, <1>3 DEF AccountsInv, Targets, Copies, Verifications, Present
<1>9. PasswordChangeCutsOff'
  BY <1>2, <1>4 DEF AccountsInv, PasswordChangeCutsOff, LiveSession, Owners
<1> QED  BY <1>5, <1>6, <1>7, <1>8, <1>9 DEF AccountsInv

\* The handlers' first reads.
LEMMA BeginInv ==
    ASSUME AccountsInv, NEW r \in Requests,
           \/ GoogleBegin(r)
           \/ \E u \in Users : SignInBegin(r, u) \/ ForgotBegin(r, u)
           \/ \E s \in Sessions : \/ ResendBegin(r, s) \/ ChangeBegin(r, s)
                                  \/ DeleteBegin(r, s) \/ UpdateBegin(r, s)
           \/ \E t \in Tokens : ActivateBegin(r, t) \/ ResetBegin(r, t)
    PROVE  AccountsInv'
<1>1. CASE GoogleBegin(r)
  <2> DEFINE new == [op |-> "google", user |-> NoUser, via |-> NoSession, swept |-> FALSE,
                     victims |-> {}, missed |-> {}, row |-> NoRow]
  <2>1. new \in Request /\ new.op = "google"
    BY Blank DEF Request, Ops
  <2>2. /\ request' = [request EXCEPT ![r] = new]
        /\ UNCHANGED <<user, deletedFor, permitted, session, token>>
    BY <1>1 DEF GoogleBegin, Start, tables, Copying
  <2> HIDE DEF new
  <2>3. request' \in [Requests -> Request]
    BY <2>1, <2>2 DEF AccountsInv, TypeOK
  <2>4. \A q \in Requests : request'[q].op = "google" \/ request'[q] = request[q]
    BY <2>1, <2>2 DEF AccountsInv, TypeOK
  <2>5. /\ deletedFor' \in [Users -> 0..Grace + 1]
        /\ session' \in [Sessions -> SessionRow]
        /\ token' \in [Tokens -> [life : Life, user : Users \union {NoUser},
                                  scope : Scopes]]
    BY <2>2 DEF AccountsInv, TypeOK
  <2> QED  BY <2>2, <2>3, <2>4, <2>5, LivesInv
<1>2. ASSUME NEW u \in Users, SignInBegin(r, u) \/ ForgotBegin(r, u) PROVE AccountsInv'
  BY <1>2, StartInv DEF SignInBegin, ForgotBegin, MayForget, Present, Ops
<1>3. ASSUME NEW s \in Sessions, ResendBegin(r, s) \/ ChangeBegin(r, s)
                                  \/ DeleteBegin(r, s) \/ UpdateBegin(r, s)
      PROVE  AccountsInv'
  <2>1. session[s].user \in Users /\ user[session[s].user].state = "active"
    BY <1>3 DEF ResendBegin, ChangeBegin, DeleteBegin, UpdateBegin, Authenticated,
                AccountsInv, Owners
  <2> QED
    BY <1>3, <2>1, StartInv DEF ResendBegin, ChangeBegin, DeleteBegin, UpdateBegin, Ops
<1>4. ASSUME NEW t \in Tokens, ActivateBegin(r, t) \/ ResetBegin(r, t) PROVE AccountsInv'
  <2>1. /\ token[t].user \in Users /\ user[token[t].user].state # "free"
        /\ token[t].scope = "password-reset" => user[token[t].user].provider = "email"
    BY <1>4 DEF ActivateBegin, ResetBegin, LiveToken, AccountsInv, Owners, Present
  <2> QED
    BY <1>4, <2>1, StartInv DEF ActivateBegin, ResetBegin, LiveToken, Ops
<1> QED  BY <1>1, <1>2, <1>3, <1>4

LEMMA NextInv == AccountsInv /\ [Next]_vars => AccountsInv'
<1> SUFFICES ASSUME AccountsInv, [Next]_vars PROVE AccountsInv'
  OBVIOUS
<1>1. CASE SessionStep
  BY <1>1, RegisterInv, GoogleInv, SignInInv, BeginInv, EndInv DEF SessionStep
<1>2. CASE TokenStep
  BY <1>2, EndInv, NewTokenInv, BeginInv DEF TokenStep
<1>3. CASE RequestStep
  <2> SUFFICES ASSUME NEW r \in Requests,
                      \/ GoogleBegin(r)
                      \/ \E u \in Users : SignInBegin(r, u) \/ ForgotBegin(r, u)
                      \/ NewDelete(r)
                      \/ ActivateCommit(r) \/ ResetCommit(r)
                      \/ ChangeCommit(r) \/ ChangeMailFails(r)
                      \/ DeleteCommit(r) \/ UpdateCommit(r)
                      \/ Abort(r)
               PROVE  AccountsInv'
    BY <1>3 DEF RequestStep
  <2>1. ASSUME ResetCommit(r) PROVE AccountsInv'
    <3>1. /\ request[r].user \in Users /\ user[request[r].user].provider = "email"
          /\ NoSession \in Sessions \union {NoSession}
      BY <2>1 DEF ResetCommit, AccountsInv, Targets
    <3> QED  BY <2>1, <3>1, PasswordInv DEF ResetCommit
  <2>2. ASSUME ChangeCommit(r) PROVE AccountsInv'
    <3>1. /\ request[r].user \in Users /\ user[request[r].user].provider = "email"
          /\ request[r].via \in Sessions \union {NoSession}
      BY <2>2 DEF ChangeCommit, AccountsInv, Targets, TypeOK, Request
    <3> QED  BY <2>2, <3>1, PasswordInv DEF ChangeCommit
  <2>3. ASSUME Abort(r) PROVE AccountsInv'
    BY <2>3, FinishInv DEF Abort, tables
  <2> QED
    BY <2>1, <2>2, <2>3, BeginInv, NewTokenInv, ActivateInv, DeleteInv, UpdateInv
       DEF ChangeMailFails
<1>4. CASE Tick
  BY <1>4, TickInv
<1>5. CASE Purge
  BY <1>5, PurgeInv
<1>6. CASE UNCHANGED vars
  BY <1>6 DEF vars, AccountsInv, TypeOK, Owners, Unused, Targets, Copies, Verifications,
              LiveSession, Present, GrantsFollowVerification, PasswordChangeCutsOff, GooglePasswordless
<1> QED  BY <1>1, <1>2, <1>3, <1>4, <1>5, <1>6 DEF Next

LEMMA SpecInv == Spec => []AccountsInv
<1>1. Init => AccountsInv
  BY InitInv
<1>2. AccountsInv /\ [Next]_vars => AccountsInv'
  BY NextInv
<1> QED  BY <1>1, <1>2, PTL DEF Spec

-----------------------------------------------------------------------------
(* What one step may do to the row of an account.                          *)

Moves(u) ==
    \/ user'[u].state = "purged"
    \/ /\ user[u].verified => user'[u].verified
       /\ user[u].profile \subseteq user'[u].profile

\* It is purged, or keeps its verification and its edits.
LEMMA StepMoves == AccountsInv /\ [Next]_vars => \A u \in Users : Moves(u)
<1> SUFFICES ASSUME AccountsInv, [Next]_vars, NEW u \in Users PROVE Moves(u)
  OBVIOUS
<1>1. user[u] \in Row
  BY DEF AccountsInv, TypeOK
<1>2. CASE user' = user
  BY <1>2 DEF Moves
<1>3. ASSUME NEW v \in Users, NEW row, user' = [user EXCEPT ![v] = row],
             user[v].state = "free"
      PROVE  Moves(u)
  BY <1>3 DEF Moves, AccountsInv, TypeOK, Unused, Present
<1>4. ASSUME NEW v \in Users, NEW row, user' = [user EXCEPT ![v] = row],
             user[v].verified => row.verified, row.profile = user[v].profile
      PROVE  Moves(u)
  BY <1>4 DEF Moves, AccountsInv, TypeOK
<1>5. ASSUME NEW r \in Requests, UpdateCommit(r) PROVE Moves(u)
  <2> DEFINE v == request[r].user
             row == Edited(user[v], request[r].row, r)
  <2>1. request[r].op = "update" /\ Present(v) /\ user' = [user EXCEPT ![v] = row]
        /\ request[r].row.version = user[v].version
    BY <1>5 DEF UpdateCommit, VersionMatches
  <2>2. v \in Users /\ user[v].state = "active"
        /\ request[r].row.verified = user[v].verified
        /\ request[r].row.profile = user[v].profile
    BY <2>1 DEF AccountsInv, Targets, Copies
  <2>3. user[v] \in Row
    BY <2>2 DEF AccountsInv, TypeOK
  <2>4. row.verified = user[v].verified /\ user[v].profile \subseteq row.profile
    BY <2>2, <2>3 DEF Edited, Row
  <2> HIDE DEF v, row
  <2> QED  BY <2>1, <2>2, <2>4 DEF Moves, AccountsInv, TypeOK
<1>6. CASE SessionStep
  <2>1. ASSUME NEW v \in Users, NEW s \in Sessions, NEW t \in Tokens, Register(v, s, t)
        PROVE  Moves(u)
    BY <2>1, <1>3 DEF Register
  <2>2. ASSUME NEW r \in Requests, NEW v \in Users, NEW s \in Sessions, GoogleCommit(r, v, s)
        PROVE  Moves(u)
    BY <2>2, <1>3 DEF GoogleCommit
  <2>3. ASSUME NEW r \in Requests, NEW s \in Sessions, SignInCommit(r, s) PROVE Moves(u)
    <3> DEFINE v == request[r].user
    <3>1. v \in Users /\ user[v] \in Row
      BY <2>3 DEF SignInCommit, AccountsInv, Targets, TypeOK
    <3>2. user' = user \/ user' = [user EXCEPT ![v] = Restored(user[v])]
      BY <2>3 DEF SignInCommit
    <3>3. /\ Restored(user[v]).verified = user[v].verified
          /\ Restored(user[v]).profile = user[v].profile
      BY <3>1 DEF Restored, Row
    <3> HIDE DEF v
    <3> QED  BY <3>1, <3>2, <3>3, <1>2, <1>4
  <2>4. ASSUME NEW r \in Requests, NEW s \in Sessions,
               ResendBegin(r, s) \/ ChangeBegin(r, s) \/ DeleteBegin(r, s)
                 \/ UpdateBegin(r, s)
        PROVE  Moves(u)
    BY <2>4, <1>2 DEF ResendBegin, ChangeBegin, DeleteBegin, UpdateBegin, Start, tables
  <2>5. ASSUME NEW s \in Sessions, Logout(s) \/ ExpireSession(s) PROVE Moves(u)
    BY <2>5, <1>2 DEF Logout, ExpireSession
  <2> QED  BY <1>6, <2>1, <2>2, <2>3, <2>4, <2>5 DEF SessionStep
<1>7. CASE TokenStep
  BY <1>7, <1>2 DEF TokenStep, ExpireToken, NewCommit, ActivateBegin, ResetBegin, Start, tables
<1>8. CASE RequestStep
  <2> SUFFICES ASSUME NEW r \in Requests,
                      \/ GoogleBegin(r)
                      \/ \E v \in Users : SignInBegin(r, v) \/ ForgotBegin(r, v)
                      \/ NewDelete(r)
                      \/ ActivateCommit(r) \/ ResetCommit(r)
                      \/ ChangeCommit(r) \/ ChangeMailFails(r)
                      \/ DeleteCommit(r) \/ UpdateCommit(r)
                      \/ Abort(r)
               PROVE  Moves(u)
    BY <1>8 DEF RequestStep
  <2> DEFINE v == request[r].user
  <2>1. ASSUME ActivateCommit(r) \/ ResetCommit(r) \/ ChangeCommit(r) \/ DeleteCommit(r)
        PROVE  Moves(u)
    <3>1. v \in Users /\ user[v] \in Row
      BY <2>1 DEF ActivateCommit, ResetCommit, ChangeCommit, DeleteCommit,
                  AccountsInv, Targets, TypeOK
    <3>2. \/ user' = user
          \/ user' = [user EXCEPT ![v] = Activated(user[v])]
          \/ user' = [user EXCEPT ![v] = WithPassword(user[v], NoSession)]
          \/ user' = [user EXCEPT ![v] = WithPassword(user[v], request[r].via)]
          \/ user' = [user EXCEPT ![v] = SoftDeleted(user[v])]
      BY <2>1 DEF ActivateCommit, ResetCommit, ChangeCommit, DeleteCommit
    <3>3. /\ Activated(user[v]).verified
          /\ Activated(user[v]).profile = user[v].profile
          /\ SoftDeleted(user[v]).verified = user[v].verified
          /\ SoftDeleted(user[v]).profile = user[v].profile
      BY <3>1 DEF Activated, SoftDeleted, Row
    <3>4. \A k : /\ WithPassword(user[v], k).verified = user[v].verified
                 /\ WithPassword(user[v], k).profile = user[v].profile
      BY <3>1 DEF WithPassword, Row
    <3> HIDE DEF v
    <3> QED  BY <3>1, <3>2, <3>3, <3>4, <1>2, <1>4
  <2>2. CASE \/ GoogleBegin(r)
             \/ \E w \in Users : SignInBegin(r, w) \/ ForgotBegin(r, w)
             \/ NewDelete(r) \/ ChangeMailFails(r) \/ Abort(r)
    BY <2>2, <1>2 DEF GoogleBegin, SignInBegin, ForgotBegin, NewDelete, ChangeMailFails,
                      Abort, Start, tables
  <2> QED  BY <2>1, <2>2, <1>5
<1>9. CASE Tick
  BY <1>9, <1>2 DEF Tick
<1>10. CASE Purge
  <2>1. [NoRow EXCEPT !.state = "purged"].state = "purged"
    BY DEF NoRow
  <2> QED  BY <1>10, <2>1 DEF Purge, Moves
<1>11. CASE UNCHANGED vars
  BY <1>11, <1>2 DEF vars
<1> QED  BY <1>6, <1>7, <1>8, <1>9, <1>10, <1>11 DEF Next

-----------------------------------------------------------------------------
\* Rows, sessions, tokens and requests keep their types.
THEOREM TypeCorrect == Spec => []TypeOK
  BY SpecInv, PTL DEF AccountsInv

\* The review permissions follow the verification of the address, whatever
\* handlers interleave.
THEOREM GrantsFollow == Spec => []GrantsFollowVerification
  BY SpecInv, PTL DEF AccountsInv

\* A password change leaves at most the session it was made from, a reset none.
THEOREM ChangeCutsOff == Spec => []PasswordChangeCutsOff
  BY SpecInv, PTL DEF AccountsInv

\* An account of the Google provider never gets a password.
THEOREM NoGooglePassword == Spec => []GooglePasswordless
  BY SpecInv, PTL DEF AccountsInv

\* A verified address stays verified under stale write-backs.
THEOREM VerifiedStays == Spec => EmailStaysVerified
<1>1. AccountsInv /\ [Next]_vars =>
        [\A u \in Users : user[u].verified /\ user'[u].state # "purged"
                             => user'[u].verified]_vars
  BY StepMoves DEF Moves
<1> QED  BY <1>1, SpecInv, PTL DEF Spec, EmailStaysVerified

\* Acknowledged profile edits are never lost.
THEOREM EditsStay == Spec => EditsKept
<1>1. AccountsInv /\ [Next]_vars =>
        [\A u \in Users : user'[u].state # "purged"
                             => user[u].profile \subseteq user'[u].profile]_vars
  BY StepMoves DEF Moves
<1> QED  BY <1>1, SpecInv, PTL DEF Spec, EditsKept

\* An update request that changes a row ends with its own commit.
LEMMA EditLands ==
    ASSUME AccountsInv, [Next]_vars, NEW r \in Requests, request[r].op = "update",
           request'[r].op = "idle", user' # user
    PROVE  UpdateCommit(r)
<1>1. \A q \in Requests : Finish(q) => \A p \in Requests \ {q} : request'[p] = request[p]
  BY DEF Finish, AccountsInv, TypeOK
<1>2. ASSUME NEW q \in Requests, NEW event \in Events, NEW u, FinishAfter(q, event, u)
      PROVE  \A p \in Requests \ {q} : request'[p].op = request[p].op
  BY <1>2, FinishAfterEnds DEF Ended, AccountsInv
<1>3. CASE SessionStep
  BY <1>1, <1>3 DEF SessionStep, Register, GoogleCommit, SignInCommit, ResendBegin,
     ChangeBegin, DeleteBegin, UpdateBegin, Logout, ExpireSession, Start, tables
<1>4. CASE TokenStep
  BY <1>4 DEF TokenStep, ExpireToken, NewCommit, ActivateBegin, ResetBegin, Start, tables
<1>5. CASE RequestStep
  <2>1. PICK q \in Requests :
          \/ GoogleBegin(q)
          \/ \E u \in Users : SignInBegin(q, u) \/ ForgotBegin(q, u)
          \/ NewDelete(q)
          \/ ActivateCommit(q) \/ ResetCommit(q)
          \/ ChangeCommit(q) \/ ChangeMailFails(q)
          \/ DeleteCommit(q) \/ UpdateCommit(q)
          \/ Abort(q)
    BY <1>5 DEF RequestStep
  <2>2. CASE ActivateCommit(q) \/ UpdateCommit(q)
    BY <1>1, <2>2 DEF ActivateCommit, UpdateCommit
  <2>3. CASE ResetCommit(q) \/ ChangeCommit(q) \/ DeleteCommit(q)
    BY <1>1, <1>2, <2>3 DEF ResetCommit, ChangeCommit, DeleteCommit, Events
  <2>4. CASE \/ GoogleBegin(q)
             \/ \E u \in Users : SignInBegin(q, u) \/ ForgotBegin(q, u)
             \/ NewDelete(q) \/ ChangeMailFails(q) \/ Abort(q)
    BY <2>4 DEF GoogleBegin, SignInBegin, ForgotBegin, NewDelete, ChangeMailFails,
                Abort, Start, tables
  <2> QED  BY <2>1, <2>2, <2>3, <2>4
<1>6. CASE Tick \/ Purge \/ UNCHANGED vars
  BY <1>6 DEF Tick, Purge, vars
<1> QED  BY <1>3, <1>4, <1>5, <1>6 DEF Next

\* No profile edit reaches an account that is deleted, or has been since the
\* edit read it.
THEOREM EditsReachLiveAccounts == Spec => EditsOnlyLiveAccounts
<1>1. ASSUME AccountsInv, [Next]_vars, NEW r \in Requests, request[r].op = "update",
             request'[r].op = "idle", user' # user
      PROVE  /\ user[request[r].user].state = "active"
             /\ "deletion" \notin request[r].missed
  <2>1. UpdateCommit(r)
    BY <1>1, EditLands
  <2> QED  BY <1>1, <2>1 DEF UpdateCommit, VersionMatches, AccountsInv, Copies
<1>2. AccountsInv /\ [Next]_vars =>
        [\A r \in Requests :
           request[r].op = "update" /\ request'[r].op = "idle" /\ user' # user
             => /\ user[request[r].user].state = "active"
                /\ "deletion" \notin request[r].missed]_vars
  BY <1>1
<1> QED  BY <1>2, SpecInv, PTL DEF Spec, EditsOnlyLiveAccounts
=============================================================================
