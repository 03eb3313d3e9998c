--------------------------- MODULE AccessTokens ---------------------------
(***************************************************************************)
(* internal/auth/service.go: a token is a hash of the key and of the       *)
(* number of the five minutes it was made in.  ValidateToken tries the     *)
(* current window and the one before, and reads the clock for each.        *)
(***************************************************************************)
EXTENDS Naturals

CONSTANTS TokenClients,
          WindowTicks,   \* ticks of five minutes
          MaxNow         \* bound on time

ASSUME TokenAssumption == WindowTicks \in Nat \ {0} /\ MaxNow \in Nat

VARIABLES
  now,
  token   \* token[c]: the client's token, with the time it was made, and its check

tokenVars == <<now, token>>

TokenInit == now = 0 /\ token = [c \in TokenClients |-> [at |-> "none"]]

Window(t) == t \div WindowTicks

TokenIs(c, v) == token' = [token EXCEPT ![c] = v] /\ UNCHANGED now

\* Verify answers an active key with a token.
GenerateToken(c) ==
  /\ token[c].at # "second"
  /\ TokenIs(c, [at |-> "held", window |-> Window(now), made |-> now])

\* A slip: the window before is left out.
WindowOnly == <<0, 0>>

\* A slip: so is the one before that.
TwoBefore == <<1, 2>>

\* How many windows back the two tries look.
Offsets == <<0, 1>>

Matches(c, offset) == token[c].window + offset = Window(now)

\* The outcome of a try, and when the clock was read for it.
Tried(c, at) ==
  TokenIs(c, [at |-> at, window |-> token[c].window, made |-> token[c].made, read |-> now])

\* ValidateToken, its first try and its second.
TryCurrent(c) ==
  /\ token[c].at \in {"held", "accepted", "refused"}
  /\ Tried(c, IF Matches(c, Offsets[1]) THEN "accepted" ELSE "second")

TryBefore(c) ==
  /\ token[c].at = "second"
  /\ Tried(c, IF Matches(c, Offsets[2]) THEN "accepted" ELSE "refused")

TokenTick == now < MaxNow /\ now' = now + 1 /\ UNCHANGED token

TokenNext ==
  TokenTick \/ \E c \in TokenClients : GenerateToken(c) \/ TryCurrent(c) \/ TryBefore(c)

TokenSpec == TokenInit /\ [][TokenNext]_tokenVars

----------------------------------------------------------------------------
\* A token is of the window it was made in.
TokenTypeOK ==
  \A c \in TokenClients : token[c].at # "none" =>
     token[c].window = Window(token[c].made) /\ token[c].made <= now

\* "Token berlaku 5 menit": a token is good for five minutes at least, also
\* when the window turns between the two tries.
FreshTokensPass ==
  \A c \in TokenClients : token[c].at = "refused" => token[c].read - token[c].made > WindowTicks

\* And for less than twice that.
OldTokensFail ==
  \A c \in TokenClients : token[c].at = "accepted" => token[c].read - token[c].made < 2 * WindowTicks

\* What the access middleware promises for one client: a token lives through
\* the five minutes it is documented to have and for less than ten, on
\* whichever side of a window it was made or is tried.
TokenLife == TokenTypeOK /\ FreshTokensPass /\ OldTokensFail
=============================================================================
