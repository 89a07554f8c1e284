----------------------------- MODULE RateLimiter -----------------------------
(***************************************************************************)
(* MemoryLimiter of internal/ratelimit, and its two kinds of use.          *)
(*                                                                         *)
(*  counted: Allow before the work (register, resend, forgot, rateLimitAll)*)
(*  guarded: Peek, then compare the password, then Allow if it was wrong   *)
(*           or Reset if it was right (login, change password)             *)
(*                                                                         *)
(* The entries of different keys do not interact, and no key is used in    *)
(* both ways: the module follows one key.  Every method holds the mutex    *)
(* throughout, so each is one step; between Peek and the second call the   *)
(* password is compared, and other requests run.  A refused call changes   *)
(* nothing.                                                                *)
(***************************************************************************)
EXTENDS Naturals, Sequences, FiniteSets

CONSTANTS Clients,   \* requests that may be in flight at once
          Limit, Window,
          Horizon    \* bound on the clock of an instance

ASSUME LimiterAssumption ==
    /\ IsFiniteSet(Clients)
    /\ Limit \in Nat \ {0}
    /\ Window \in Nat \ {0}
    /\ Horizon \in Nat

VARIABLES
    style,      \* how the key is used: "counted" or "guarded"
    count,      \* entries[key].count, 0 if the map has no entry
    expiresAt,  \* entries[key].expiresAt
    now,        \* time.Now()
    checking,   \* guarded requests that have passed Peek
    allowed,    \* history: the times at which counted calls were admitted
    wrong       \* history: wrong passwords answered since the entry was made

vars == <<style, count, expiresAt, now, checking, allowed, wrong>>

Init == /\ style \in {"counted", "guarded"}
        /\ count = 0 /\ expiresAt = 0
        /\ now = 0
        /\ checking = {}
        /\ allowed = <<>>
        /\ wrong = 0

-----------------------------------------------------------------------------
\* now.After(e.expiresAt) is false: the last instant belongs to the window.
InForceShort == count > 0 /\ now + 1 < expiresAt    \* mutant
InForce      == count > 0 /\ now <= expiresAt

NeverFull == FALSE                  \* mutant: Peek lets everybody through
FullLate  == InForce /\ count > Limit    \* mutant: one call too many
Full      == InForce /\ count >= Limit

\* Allow where it answers true.
Admit == /\ ~Full
         /\ IF InForce THEN count' = count + 1 /\ UNCHANGED expiresAt
                       ELSE count' = 1 /\ expiresAt' = now + Window

Counted == /\ style = "counted"
           /\ Admit
           /\ allowed' = Append(allowed, now)
           /\ UNCHANGED <<style, now, checking, wrong>>

Peek(c) == /\ style = "guarded"
           /\ c \notin checking
           /\ ~Full
           /\ checking' = checking \union {c}
           /\ UNCHANGED <<style, count, expiresAt, now, allowed, wrong>>

\* The password is wrong: Allow, its answer ignored, so that a full entry
\* stays as it is.
Fail(c) == /\ c \in checking
           /\ checking' = checking \ {c}
           /\ \/ Full /\ UNCHANGED <<count, expiresAt>>
              \/ Admit
           /\ wrong' = IF InForce THEN wrong + 1 ELSE 1
           /\ UNCHANGED <<style, now, allowed>>

\* The request ends without a verdict: no such user, or an error.
Leave(c) == /\ c \in checking
            /\ checking' = checking \ {c}
            /\ UNCHANGED <<style, count, expiresAt, now, allowed, wrong>>

Reset == count' = 0 /\ expiresAt' = 0

Succeed(c) == /\ c \in checking
              /\ checking' = checking \ {c}
              /\ Reset
              /\ wrong' = 0
              /\ UNCHANGED <<style, now, allowed>>

\* One turn of cleanupLoop.
ExpiredAny == count > 0    \* mutant: entries in force go too
Expired    == count > 0 /\ now > expiresAt

Cleanup == /\ Expired
           /\ Reset
           /\ wrong' = 0
           /\ UNCHANGED <<style, now, checking, allowed>>

Tick == /\ now < Horizon
        /\ now' = now + 1
        /\ UNCHANGED <<style, count, expiresAt, checking, allowed, wrong>>

Next == \/ Counted
        \/ \E c \in Clients : Peek(c) \/ Fail(c) \/ Leave(c) \/ Succeed(c)
        \/ Cleanup
        \/ Tick

Spec == Init /\ [][Next]_vars

-----------------------------------------------------------------------------
TypeOK == /\ style \in {"counted", "guarded"}
          /\ count \in 0..Limit
          /\ expiresAt \in Nat
          /\ now \in Nat
          /\ checking \subseteq Clients
          /\ allowed \in Seq(Nat)
          /\ wrong \in Nat

\* However calls, expiry and cleanupLoop fall, a burst of counted calls is at
\* most two full windows: of 2 * Limit + 1 consecutive ones that Allow admits
\* the last comes more than Window after the first (ratelimit.go Allow).
BurstBound ==
    \A i \in 1..Len(allowed) :
        i + 2 * Limit <= Len(allowed) =>
            allowed[i + 2 * Limit] - allowed[i] > Window

\* Peek and the counting of the failure are two steps: the requests that run
\* at once overshoot the limit on guesses, but only by their number less one
\* (auth.go loginUserHandler, changePasswordHandler).
GuessBound ==
    InForce => wrong + Cardinality(checking) < Limit + Cardinality(Clients)

\* A window once full refuses until it ends or a success resets it: no cleanup
\* turn and no call in between reopens it early.
FullStaysFull ==
    [][Full /\ now' <= expiresAt =>
          \/ count' = count /\ expiresAt' = expiresAt
          \/ \E c \in Clients : Succeed(c)]_vars

\* The limiter with its lazily expiring entries and its cleanup loop is a
\* FixedWindow: cleanup is invisible.
Shown == INSTANCE FixedWindow WITH used <- IF InForce THEN count ELSE 0,
                                   age  <- IF InForce THEN now + Window - expiresAt
                                                      ELSE 0

ImplementsFixedWindow == Shown!Spec
=============================================================================
