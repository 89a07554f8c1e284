------------------------------- MODULE Accounts -------------------------------
(***************************************************************************)
(* Accounts: the handlers of internal/app/auth.go and updateUserHandler,   *)
(* over the tables app_user, session, user_permission and the two token    *)
(* tables, with the purge of soft-deleted users.                           *)
(*                                                                         *)
(* app_user.email is unique, never updated, and accounts with different    *)
(* addresses share nothing here: the module follows ONE address, and Users *)
(* are the row ids that registrations of it may be given in turn.          *)
(*                                                                         *)
(* PostgreSQL runs at READ COMMITTED.  What a handler reads before its     *)
(* first write is a step of its own (XBegin), kept in request[r]; from the *)
(* first write to the commit is one step (XCommit): the UPDATEs of one row *)
(* are ordered by its lock.  A sign-in that restores nothing only INSERTs, *)
(* with the KEY SHARE lock of the foreign key, which no UPDATE waits for:  *)
(* it is ordered with nobody, and a session committed between another      *)
(* transaction's DELETE of sessions and its commit is what the model has   *)
(* as committed just after.  Tokens.New is split again, its DELETE sees    *)
(* the tokens committed when that statement starts.                        *)
(***************************************************************************)
EXTENDS Naturals

CONSTANTS Users,       \* row ids of app_user for the address
          Sessions,    \* session ids
          Tokens,      \* rows of the two token tables
          Requests,    \* HTTP requests in flight
          Importers,   \* users that an import_job row refers to
          MaxVersion,  \* bound on app_user.version
          Grace,       \* deletedUserGracePeriod, in clock ticks
          Handlers,    \* the handlers an instance exercises
          NoUser, NoSession

ASSUME AccountsAssumption ==
    /\ Importers \subseteq Users
    /\ MaxVersion \in Nat
    /\ Grace \in Nat
    /\ NoUser \notin Users
    /\ NoSession \notin Sessions

VARIABLES
    user,        \* user[u]: the columns of app_user the properties need
    deletedFor,  \* deletedFor[u]: time since deleted_at, counted to Grace + 1
    permitted,   \* users with review:submit and review:edit
    session,     \* session[s]: owner, and the password its sign-in verified
    token,       \* token[t]: owner and scope
    request      \* request[r]: the handler's local state between its steps

tables == <<user, deletedFor, permitted, session, token>>
vars == <<user, deletedFor, permitted, session, token, request>>

Providers == {"email", "google"}
Scopes    == {"activation", "password-reset"}
Presence  == {"free", "active", "deleted", "purged"}

\* password numbers the hashes (bcrypt salts make each one new), 0 for none;
\* profile is the set of requests whose edits the row shows; kept is the
\* session that the last password change spared (history).
Row == [state : Presence, provider : Providers, verified : BOOLEAN,
        password : Nat, version : Nat, profile : SUBSET Requests,
        kept : Sessions \union {NoSession}]

NoRow == [state |-> "free", provider |-> "email", verified |-> FALSE,
          password |-> 0, version |-> 0, profile |-> {}, kept |-> NoSession]

\* life: rows are inserted once and deleted once.
Life == {"unused", "live", "gone"}

Ops == {"idle", "signin", "google", "activate", "resend", "forgot", "reset",
        "change", "delete", "update"}

\* missed: what was done to the account since the handler read its row
\* (history); overtaken: if the sign-in missed a change of password, the one
\* in force when its session was created, else 0 (history).
Events == {"password", "deletion"}

Request == [op : Ops, user : Users \union {NoUser}, row : Row,
            via : Sessions \union {NoSession}, swept : BOOLEAN,
            victims : SUBSET Tokens, missed : SUBSET Events]

Idle == [op |-> "idle", user |-> NoUser, row |-> NoRow, via |-> NoSession,
         swept |-> FALSE, victims |-> {}, missed |-> {}]

SessionRow == [life : Life, user : Users \union {NoUser}, password : Nat,
               overtaken : Nat]

Init == /\ user = [u \in Users |-> NoRow]
        /\ deletedFor = [u \in Users |-> 0]
        /\ permitted = {}
        /\ session = [s \in Sessions |-> [life |-> "unused", user |-> NoUser,
                                          password |-> 0, overtaken |-> 0]]
        /\ token = [t \in Tokens |->
                        [life |-> "unused", user |-> NoUser, scope |-> "activation"]]
        /\ request = [r \in Requests |-> Idle]

-----------------------------------------------------------------------------
(* The tables.                                                             *)

Present(u)  == user[u].state \in {"active", "deleted"}
AddressFree == \A u \in Users : ~Present(u)
Room(u)     == user[u].version < MaxVersion    \* bound of the instances

LiveSession(s)    == session[s].life = "live"
LiveToken(t, sc)  == token[t].life = "live" /\ token[t].scope = sc

\* Sessions.Create for a user who has shown this password.
CreateSession(s, u, password, overtaken) ==
    /\ session[s].life = "unused"
    /\ session' = [session EXCEPT ![s] = [life |-> "live", user |-> u,
                                          password |-> password,
                                          overtaken |-> overtaken]]

\* Sessions.DeleteAllForUserExcept; DeleteAllForUser spares NoSession.
SessionsKept(u, spared) == session    \* mutant
SessionsWithout(u, spared) ==
    [s \in Sessions |-> IF session[s].user = u /\ s # spared
                          THEN [session[s] EXCEPT !.life = "gone"]
                          ELSE session[s]]

\* Tokens.DeleteAllForUser.
TokensWithout(u, sc) ==
    [t \in Tokens |-> IF token[t].user = u /\ token[t].scope = sc
                        THEN [token[t] EXCEPT !.life = "gone"]
                        ELSE token[t]]

\* Permissions.AddForUser, ON CONFLICT DO NOTHING.
GrantedNothing(u) == permitted    \* mutant
Granted(u)        == permitted \union {u}

\* The UPDATE statements of UserModel.
SoftDeletedUnversioned(row) == [row EXCEPT !.state = "deleted"]    \* mutant
SoftDeleted(row) == [row EXCEPT !.state = "deleted", !.version = @ + 1]
Restored(row)    == [row EXCEPT !.state = "active", !.version = @ + 1]
Activated(row)   == [row EXCEPT !.verified = TRUE, !.version = @ + 1]
WithPassword(row, spared) ==
    [row EXCEPT !.password = @ + 1, !.version = @ + 1, !.kept = spared]
Edited(row, copy, r) ==
    [row EXCEPT !.profile = copy.profile \union {r}, !.verified = copy.verified,
                !.version = @ + 1]

-----------------------------------------------------------------------------
(* Requests.                                                               *)

\* The handlers whose writes depend on the columns they have read.
Copying == {"signin", "update"}

\* The handler starts with a copy of u's row, on behalf of session s.
Start(r, op, u, s) ==
    /\ op \in Handlers
    /\ request[r].op = "idle"
    /\ request' = [request EXCEPT
         ![r] = [op |-> op, user |-> u, via |-> s, swept |-> FALSE, victims |-> {},
                 missed |-> {}, row |-> IF op \in Copying THEN user[u] ELSE NoRow]]
    /\ UNCHANGED tables

Finish(r) == request' = [request EXCEPT ![r] = Idle]

\* The same, noted in the requests that act on a copy of u's row.
FinishAfter(r, event, u) ==
    request' = [q \in Requests |->
      IF q = r THEN Idle
      ELSE IF request[q].op \in Copying /\ request[q].user = u
        THEN [request[q] EXCEPT !.missed = @ \union {event}]
        ELSE request[q]]

\* The authenticate middleware: a live session of an account not deleted.
\* For a deleted one Users.GetByID finds nothing and the answer is a 500.
Authenticated(s) == LiveSession(s) /\ user[session[s].user].state = "active"

\* The handler gives up before its commit: an edit conflict, a duplicate
\* email, a foreign key, a database error, a client that went away.
Abort(r) == /\ request[r].op # "idle"
            /\ Finish(r)
            /\ UNCHANGED tables

-----------------------------------------------------------------------------
(* Registration and sign-in.                                               *)

Register(u, s, t) ==
    /\ "register" \in Handlers
    /\ AddressFree /\ user[u].state = "free"
    /\ token[t].life = "unused"
    /\ user' = [user EXCEPT ![u] = [NoRow EXCEPT !.state = "active",
                                                 !.password = 1, !.version = 1]]
    /\ token' = [token EXCEPT
                   ![t] = [life |-> "live", user |-> u, scope |-> "activation"]]
    /\ CreateSession(s, u, 1, 0)
    /\ UNCHANGED <<deletedFor, permitted, request>>

\* googleAuthHandler, the address unknown when it looked.
GoogleBegin(r) == AddressFree /\ Start(r, "google", NoUser, NoSession)

GoogleCommit(r, u, s) ==
    /\ request[r].op = "google"
    /\ AddressFree /\ user[u].state = "free"
    /\ user' = [user EXCEPT ![u] = [NoRow EXCEPT !.state = "active", !.version = 1,
                                      !.provider = "google", !.verified = TRUE]]
    /\ permitted' = Granted(u)
    /\ CreateSession(s, u, 0, 0)
    /\ Finish(r)
    /\ UNCHANGED <<deletedFor, token>>

\* loginUserHandler with the right password, googleAuthHandler for a known
\* google account: the lookup includes soft-deleted rows.
SignInBegin(r, u) == Present(u) /\ Start(r, "signin", u, NoSession)

\* Restores iff the copy read at the start was deleted; the password is not
\* looked at again.  The session's foreign key needs the row.
SignInCommit(r, s) ==
    LET u == request[r].user IN
    /\ request[r].op = "signin"
    /\ Present(u)
    /\ IF request[r].row.state = "deleted"
         THEN /\ Room(u)
              /\ user' = [user EXCEPT ![u] = Restored(user[u])]
              /\ deletedFor' = [deletedFor EXCEPT ![u] = 0]
         ELSE UNCHANGED <<user, deletedFor>>
    /\ CreateSession(s, u, request[r].row.password,
         IF "password" \in request[r].missed THEN user[u].password ELSE 0)
    /\ Finish(r)
    /\ UNCHANGED <<permitted, token>>

Logout(s) ==
    /\ "logout" \in Handlers
    /\ LiveSession(s)
    /\ session' = [session EXCEPT ![s].life = "gone"]
    /\ UNCHANGED <<user, deletedFor, permitted, token, request>>

\* expires_at passes; the cron's DELETE of expired rows shows to nobody.
ExpireSession(s) ==
    /\ "expiry" \in Handlers
    /\ LiveSession(s)
    /\ session' = [session EXCEPT ![s].life = "gone"]
    /\ UNCHANGED <<user, deletedFor, permitted, token, request>>

-----------------------------------------------------------------------------
(* Tokens.                                                                 *)

ExpireToken(t) ==
    /\ "expiry" \in Handlers
    /\ token[t].life = "live"
    /\ token' = [token EXCEPT ![t].life = "gone"]
    /\ UNCHANGED <<user, deletedFor, permitted, session, request>>

ResendBegin(r, s) ==
    /\ Authenticated(s)
    /\ ~user[session[s].user].verified
    /\ Start(r, "resend", session[s].user, s)

MayForgetAny(u) == user[u].state = "active"    \* mutant: no provider check
MayForget(u) == user[u].state = "active" /\ user[u].provider = "email"

ForgotBegin(r, u) ==
    /\ MayForget(u)
    /\ Start(r, "forgot", u, NoSession)

ScopeOf(op) == IF op = "forgot" THEN "password-reset" ELSE "activation"

\* Tokens.New: the DELETE finds the tokens committed by now ...
NewDelete(r) ==
    LET q == request[r] IN
    /\ q.op \in {"resend", "forgot"} /\ ~q.swept
    /\ request' = [request EXCEPT ![r].swept = TRUE,
         ![r].victims = {t \in Tokens : token[t].user = q.user
                                          /\ LiveToken(t, ScopeOf(q.op))}]
    /\ UNCHANGED tables

\* ... the INSERT adds one, and both become visible with the commit.
NewCommit(r, t) ==
    LET q == request[r] IN
    /\ q.op \in {"resend", "forgot"} /\ q.swept
    /\ Present(q.user)
    /\ token[t].life = "unused"
    /\ token' = [v \in Tokens |->
         IF v = t THEN [life |-> "live", user |-> q.user, scope |-> ScopeOf(q.op)]
         ELSE IF v \in q.victims THEN [token[v] EXCEPT !.life = "gone"]
         ELSE token[v]]
    /\ Finish(r)
    /\ UNCHANGED <<user, deletedFor, permitted, session>>

\* activateUserHandler and resetPasswordHandler: GetUserForToken.
ActivateBegin(r, t) ==
    LiveToken(t, "activation") /\ Start(r, "activate", token[t].user, NoSession)

ResetBegin(r, t) ==
    LiveToken(t, "password-reset") /\ Start(r, "reset", token[t].user, NoSession)

\* The last read, Users.GetByID, rolls everything back for a deleted account.
ActivateCommit(r) ==
    LET u == request[r].user IN
    /\ request[r].op = "activate"
    /\ user[u].state = "active" /\ Room(u)
    /\ user' = [user EXCEPT ![u] = Activated(user[u])]
    /\ permitted' = Granted(u)
    /\ token' = TokensWithout(u, "activation")
    /\ Finish(r)
    /\ UNCHANGED <<deletedFor, session>>

\* Also for an account deleted meanwhile; the token lookup was not locked.
ResetCommit(r) ==
    LET u == request[r].user IN
    /\ request[r].op = "reset"
    /\ Present(u) /\ Room(u)
    /\ user' = [user EXCEPT ![u] = WithPassword(user[u], NoSession)]
    /\ token' = TokensWithout(u, "password-reset")
    /\ session' = SessionsWithout(u, NoSession)
    /\ FinishAfter(r, "password", u)
    /\ UNCHANGED <<deletedFor, permitted>>

-----------------------------------------------------------------------------
(* The signed-in user's account.                                           *)

ChangeBegin(r, s) ==
    /\ Authenticated(s)
    /\ user[session[s].user].provider = "email"
    /\ Start(r, "change", session[s].user, s)

ChangeCommit(r) ==
    LET q == request[r]
        u == q.user IN
    /\ q.op = "change"
    /\ Present(u) /\ Room(u)
    /\ user' = [user EXCEPT ![u] = WithPassword(user[u], q.via)]
    /\ session' = SessionsWithout(u, q.via)
    /\ FinishAfter(r, "password", u)
    /\ UNCHANGED <<deletedFor, permitted, token>>

\* Tasks.Insert of the confirmation mail fails: the transaction rolls back.
ChangeMailFails(r) == request[r].op = "change" /\ Abort(r)

DeleteBegin(r, s) == Authenticated(s) /\ Start(r, "delete", session[s].user, s)

\* SoftDelete writes nothing if the account is deleted already; the sessions
\* go all the same.
DeleteCommit(r) ==
    LET u == request[r].user IN
    /\ request[r].op = "delete"
    /\ IF user[u].state = "active"
         THEN /\ Room(u)
              /\ user' = [user EXCEPT ![u] = SoftDeleted(user[u])]
              /\ FinishAfter(r, "deletion", u)
         ELSE UNCHANGED user /\ Finish(r)
    /\ session' = SessionsWithout(u, NoSession)
    /\ UNCHANGED <<deletedFor, permitted, token>>

UpdateBegin(r, s) == Authenticated(s) /\ Start(r, "update", session[s].user, s)

\* Users.Update matches the version and writes back the whole copy, the stale
\* email_verified too.  It does not look at deleted_at.
VersionIgnored(r) == TRUE    \* mutant: no optimistic lock
VersionMatches(r) == user[request[r].user].version = request[r].row.version

UpdateCommit(r) ==
    LET q == request[r]
        u == q.user IN
    /\ q.op = "update"
    /\ Present(u) /\ VersionMatches(r) /\ Room(u)
    /\ user' = [user EXCEPT ![u] = Edited(user[u], q.row, r)]
    /\ Finish(r)
    /\ UNCHANGED <<deletedFor, permitted, session, token>>

-----------------------------------------------------------------------------
(* Time and the purge.                                                     *)

Tick ==
    /\ \E u \in Users : user[u].state = "deleted" /\ deletedFor[u] <= Grace
    /\ deletedFor' = [u \in Users |->
         IF user[u].state = "deleted" /\ deletedFor[u] <= Grace
           THEN deletedFor[u] + 1 ELSE deletedFor[u]]
    /\ UNCHANGED <<user, permitted, session, token, request>>

PurgeDue(u) == user[u].state = "deleted" /\ deletedFor[u] > Grace

\* PurgeSoftDeleted is one DELETE.  Sessions, tokens and permissions cascade;
\* import_job.user_id is SET NULL but NOT NULL, so that one referenced row
\* makes the statement fail.
Purge ==
    LET due == {u \in Users : PurgeDue(u)} IN
    /\ due # {} /\ due \intersect Importers = {}
    /\ user' = [u \in Users |-> IF u \in due THEN [NoRow EXCEPT !.state = "purged"]
                                             ELSE user[u]]
    /\ permitted' = permitted \ due
    /\ session' = [s \in Sessions |-> IF session[s].user \in due
                                        THEN [session[s] EXCEPT !.life = "gone"]
                                        ELSE session[s]]
    /\ token' = [t \in Tokens |-> IF token[t].user \in due
                                    THEN [token[t] EXCEPT !.life = "gone"]
                                    ELSE token[t]]
    /\ UNCHANGED <<deletedFor, request>>

-----------------------------------------------------------------------------
SessionStep ==
    \/ \E u \in Users, s \in Sessions, t \in Tokens : Register(u, s, t)
    \/ \E r \in Requests, u \in Users, s \in Sessions : GoogleCommit(r, u, s)
    \/ \E r \in Requests, s \in Sessions :
         \/ SignInCommit(r, s)
         \/ ResendBegin(r, s) \/ ChangeBegin(r, s)
         \/ DeleteBegin(r, s) \/ UpdateBegin(r, s)
    \/ \E s \in Sessions : Logout(s) \/ ExpireSession(s)

TokenStep ==
    \E t \in Tokens :
      \/ ExpireToken(t)
      \/ \E r \in Requests : \/ NewCommit(r, t)
                             \/ ActivateBegin(r, t) \/ ResetBegin(r, t)

RequestStep ==
    \E r \in Requests :
      \/ GoogleBegin(r)
      \/ \E u \in Users : SignInBegin(r, u) \/ ForgotBegin(r, u)
      \/ NewDelete(r)
      \/ ActivateCommit(r) \/ ResetCommit(r)
      \/ ChangeCommit(r) \/ ChangeMailFails(r)
      \/ DeleteCommit(r) \/ UpdateCommit(r)
      \/ Abort(r)

Next == SessionStep \/ TokenStep \/ RequestStep \/ Tick \/ Purge

Spec == Init /\ [][Next]_vars

\* The cron loop tries the purge every 6 hours, for ever.
PurgeSpec == Spec /\ WF_vars(Tick) /\ WF_vars(Purge)

-----------------------------------------------------------------------------
TypeOK ==
    /\ user \in [Users -> Row]
    /\ deletedFor \in [Users -> 0..Grace + 1]
    /\ permitted \subseteq Users
    /\ session \in [Sessions -> SessionRow]
    /\ token \in [Tokens -> [life : Life, user : Users \union {NoUser},
                             scope : Scopes]]
    /\ request \in [Requests -> Request]

\* An account has the review permissions exactly while its address is
\* verified, whichever of activation, Google sign-in, profile edit, deletion
\* and restoration touched it, in whatever order (auth.go activateUserHandler,
\* googleAuthHandler; users.go Update writes email_verified back).  That a
\* registration grants none is the code; its doc (auth.go:20) says otherwise.
GrantsFollowVerification ==
    \A u \in Users : u \in permitted <=> user[u].verified

\* A change of password cuts off every session that exists, but the one it was
\* made from, a reset all of them (auth.go:698, :814); and none that is created
\* later was signed in with an older password, but those whose sign-in had read
\* the row before this last change: the next change cuts these off too.
PasswordChangeCutsOff ==
    \A s \in Sessions : LiveSession(s) =>
        LET owner == user[session[s].user] IN
        \/ session[s].password = owner.password
        \/ session[s].overtaken = owner.password
        \/ s = owner.kept

\* No request, however delayed, gives a Google account a password hash: the
\* provider is only looked at when a reset mail is asked for (auth.go:626).
GooglePasswordless ==
    \A u \in Users : user[u].provider = "google" => user[u].password = 0

\* email_verified never goes back to false while the row exists, although
\* profile edits write back the value they read (users.go Update).
EmailStaysVerified ==
    [][\A u \in Users : user[u].verified /\ user'[u].state # "purged"
                          => user'[u].verified]_vars

\* No acknowledged profile edit is overwritten by a concurrent one.
EditsKept ==
    [][\A u \in Users : user'[u].state # "purged"
                          => user[u].profile \subseteq user'[u].profile]_vars

\* A profile edit never lands on an account that is deleted, or was deleted and
\* restored since the edit read it: Update does not look at deleted_at, the
\* version bump of SoftDelete is what stops it.
EditsOnlyLiveAccounts ==
    [][\A r \in Requests :
         request[r].op = "update" /\ request'[r].op = "idle" /\ user' # user
           => /\ user[request[r].user].state = "active"
              /\ "deletion" \notin request[r].missed]_vars

-----------------------------------------------------------------------------
(* What comments and texts of the repository say, and the code does not.   *)

\* auth.go:190-192: "never end up with a session pointing at a still-deleted
\* user".
NoSessionOfDeletedUser ==
    \A s \in Sessions : LiveSession(s) => user[session[s].user].state # "deleted"

\* users.go:422-425: deleted accounts remain "for 30 days ... after which the
\* cleanup cron permanently removes" them.
DeletedAreRemoved ==
    \A u \in Users : (user[u].state = "deleted") ~> (user[u].state # "deleted")
=============================================================================
