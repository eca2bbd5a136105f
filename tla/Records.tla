------------------------------- MODULE Records -------------------------------
(***************************************************************************)
(* The two records DBSC keeps for a host session, and what the server      *)
(* derives from them: PendingRegistration (pending.py), Binding            *)
(* (binding.py), the lifetimes of Config (config.py) and the checks of     *)
(* server.py that read a record, a request and the clock but change        *)
(* nothing.                                                                *)
(*                                                                         *)
(* Random tokens are numbers: 0 is the empty string and every positive     *)
(* number one draw of secrets.token_hex.  One draw stands for all the      *)
(* tokens minted together (the session identifier, the cookie value and    *)
(* the challenge of a registration, the cookie value and the challenge of  *)
(* a refresh): a token is only ever compared with tokens of its own kind.  *)
(* Times are whole seconds, as int(clock()) makes them.                    *)
(***************************************************************************)
EXTENDS Integers

CONSTANTS
    Users,             \* user ids of the host application
    Unknown,           \* the empty user id: the host did not say who it is
    Keys,              \* public keys of devices
    NoKey,             \* the key of a JWT that does not parse or verify
    Absent,            \* what a store returns for a record it does not have
    Corrupt,           \* a record that exists and cannot be read
    CookieMaxAge,      \* Config.cookie_max_age_seconds
    ChallengeTtl       \* Config.challenge_ttl_seconds

ASSUME UnknownAssumption == Unknown \notin Users
ASSUME NoKeyAssumption == NoKey \notin Keys

\* Config.__post_init__: the bounds on the lifetimes.
Config ==
    /\ {CookieMaxAge, ChallengeTtl} \subseteq Nat
    /\ 1 <= CookieMaxAge /\ CookieMaxAge <= 3600
    /\ CookieMaxAge < ChallengeTtl /\ ChallengeTtl <= 86400

ASSUME ConfigAssumption == Config

NoNonce == 0
Nonces == Nat \ {NoNonce}
UserIds == Users \union {Unknown}

\* A JWT as its verifier sees it: the key it proves possession of, and the
\* challenge it signs.
Jwts == [key : Keys \union {NoKey}, jti : Nat]
NoJwt == [key |-> NoKey, jti |-> NoNonce]

\* verify_registration_jwt: the JWT carries its own key; it only has to verify.
verify_registration_jwt(jwt) == jwt.key # NoKey

\* Mutant: the refresh JWT is verified against the key it names itself.
verify_any_jwt(jwt, key) == jwt.key # NoKey

\* verify_refresh_jwt: signed by the key of the binding.
verify_refresh_jwt(jwt, key) == jwt.key = key

PendingRegistration ==
    [user_id : UserIds, reg_challenge : Nonces, reg_challenge_time : Nat]

Binding ==
    [user_id : UserIds,
     session_identifier : Nonces,
     cookie_value : Nonces,
     public_key : Keys,
     challenge : Nat,
     challenge_time : Nat,
     created_at : Nat,
     cookie_issued_at : Nat,
     previous_cookie_value : Nat,
     previous_cookie_expires_at : Nat,
     has_refreshed : BOOLEAN,
     previous_challenge : Nat,
     previous_challenge_time : Nat,
     challenge_advertised : BOOLEAN]

ASSUME AbsentAssumption == Absent \notin PendingRegistration \union Binding
ASSUME CorruptAssumption ==
    Corrupt \notin PendingRegistration \union Binding \union {Absent}

IsRecord(r) == r \notin {Absent, Corrupt}

\* _same_user: false only when both ids are known and differ.
same_user(recorded, current) ==
    recorded = Unknown \/ current = Unknown \/ recorded = current

\* The binding register() builds for the offer p, made with the draw n.
new_binding(p, user, key, n, at) ==
    [user_id |-> IF p.user_id # Unknown THEN p.user_id ELSE user,
     session_identifier |-> n,
     cookie_value |-> n,
     public_key |-> key,
     challenge |-> n,
     challenge_time |-> at,
     created_at |-> at,
     cookie_issued_at |-> at,
     previous_cookie_value |-> NoNonce,
     previous_cookie_expires_at |-> 0,
     has_refreshed |-> FALSE,
     previous_challenge |-> NoNonce,
     previous_challenge_time |-> 0,
     challenge_advertised |-> FALSE]

\* Mutant: the demoted challenge is thrown away.
with_challenge_forgetting(b, n, at) ==
    [b EXCEPT !.challenge = n, !.challenge_time = at]

\* Mutant: a new challenge is taken for one to advertise again.
with_challenge_unadvertised(b, n, at) ==
    [b EXCEPT !.challenge = n,
              !.challenge_time = at,
              !.previous_challenge = b.challenge,
              !.previous_challenge_time = b.challenge_time,
              !.challenge_advertised = FALSE]

\* Binding.with_challenge: the demoted challenge stays acceptable.
with_challenge(b, n, at) ==
    [b EXCEPT !.challenge = n,
              !.challenge_time = at,
              !.previous_challenge = b.challenge,
              !.previous_challenge_time = b.challenge_time]

\* Binding.mark_challenge_advertised
mark_challenge_advertised(b) == [b EXCEPT !.challenge_advertised = TRUE]

\* Mutant: the spent challenge is demoted, as with_challenge does, "for
\* consistency with the cookie overlap".
with_rotated_keeping_challenge(b, n, at) ==
    [b EXCEPT !.cookie_value = n,
              !.challenge = n,
              !.challenge_time = at,
              !.cookie_issued_at = at,
              !.previous_cookie_value = b.cookie_value,
              !.previous_cookie_expires_at = b.cookie_issued_at + CookieMaxAge,
              !.has_refreshed = TRUE,
              !.previous_challenge = b.challenge,
              !.previous_challenge_time = b.challenge_time]

\* Mutant: the demoted cookie is kept a whole lifetime from the rotation on.
with_rotated_cookie_from_now(b, n, at) ==
    [b EXCEPT !.cookie_value = n,
              !.challenge = n,
              !.challenge_time = at,
              !.cookie_issued_at = at,
              !.previous_cookie_value = b.cookie_value,
              !.previous_cookie_expires_at = at + CookieMaxAge,
              !.has_refreshed = TRUE,
              !.previous_challenge = NoNonce,
              !.previous_challenge_time = 0]

\* Mutant: the demoted cookie is thrown away.
with_rotated_forgetting_cookie(b, n, at) ==
    [b EXCEPT !.cookie_value = n,
              !.challenge = n,
              !.challenge_time = at,
              !.cookie_issued_at = at,
              !.has_refreshed = TRUE,
              !.previous_challenge = NoNonce,
              !.previous_challenge_time = 0]

\* Mutant: the demoted cookie is good until the rotation.
with_rotated_cookie_until_now(b, n, at) ==
    [with_rotated_cookie_from_now(b, n, at) EXCEPT
        !.previous_cookie_expires_at = at]

\* Binding.with_rotated_cookie_and_challenge: the demoted cookie is kept until
\* it would have expired in the browser, the spent challenge is not.
with_rotated_cookie_and_challenge(b, n, at) ==
    [b EXCEPT !.cookie_value = n,
              !.challenge = n,
              !.challenge_time = at,
              !.cookie_issued_at = at,
              !.previous_cookie_value = b.cookie_value,
              !.previous_cookie_expires_at = b.cookie_issued_at + CookieMaxAge,
              !.has_refreshed = TRUE,
              !.previous_challenge = NoNonce,
              !.previous_challenge_time = 0]

\* The checks of register(), in the order of the code.
registration_outcome(p, user, jwt, at) ==
    IF p = Corrupt THEN "CorruptStateError"
    ELSE IF p = Absent THEN "MissingChallengeError"
    ELSE IF ~ same_user(p.user_id, user) THEN "SessionNotFoundError"
    ELSE IF at - p.reg_challenge_time > ChallengeTtl
         THEN "ChallengeExpiredError"
    ELSE IF ~ verify_registration_jwt(jwt) THEN "JwtInvalidError"
    ELSE IF jwt.jti # p.reg_challenge THEN "JwtInvalidError"
    ELSE "verified"

\* Mutant: the demoted challenge never expires.
challenge_matches_untimed(b, jti, at) ==
    \/ jti = b.challenge
    \/ /\ b.previous_challenge # NoNonce
       /\ jti = b.previous_challenge

\* The challenges a refresh proof may sign at a given time: the current one, or
\* the one before it until its own TTL.
challenge_matches(b, jti, at) ==
    \/ jti = b.challenge
    \/ /\ b.previous_challenge # NoNonce
       /\ at - b.previous_challenge_time <= ChallengeTtl
       /\ jti = b.previous_challenge

\* _binding_proved_by, in the order of the code.
refresh_outcome(b, user, id, jwt, at) ==
    IF b = Corrupt THEN "CorruptStateError"
    ELSE IF b = Absent THEN "SessionNotFoundError"
    ELSE IF ~ same_user(b.user_id, user) THEN "SessionNotFoundError"
    ELSE IF id # NoNonce /\ id # b.session_identifier
         THEN "SessionNotFoundError"
    ELSE IF b.challenge = NoNonce THEN "MissingChallengeError"
    ELSE IF at - b.challenge_time > ChallengeTtl THEN "ChallengeExpiredError"
    ELSE IF ~ verify_refresh_jwt(jwt, b.public_key) THEN "JwtInvalidError"
    ELSE IF ~ challenge_matches(b, jwt.jti, at) THEN "ChallengeMismatchError"
    ELSE "proved"

\* The bound cookies the gate accepts at a given time: the current one, or the
\* one before it until it would have expired in the browser.
bound_cookie_matches(b, user, presented, at) ==
    /\ same_user(b.user_id, user)
    /\ presented # NoNonce
    /\ \/ presented = b.cookie_value
       \/ /\ presented = b.previous_cookie_value
          /\ at < b.previous_cookie_expires_at

\* The condition under which advertise_refresh_challenge has something to say.
worth_advertising(b, user, at) ==
    /\ same_user(b.user_id, user)
    /\ ~ b.challenge_advertised
    /\ ~ b.has_refreshed
    /\ b.challenge # NoNonce
    /\ at - b.challenge_time <= ChallengeTtl
==============================================================================
