-------------------------------- MODULE Codec --------------------------------
(***************************************************************************)
(* How the two records are stored: to_json and from_json of Binding        *)
(* (binding.py) and PendingRegistration (pending.py), on what loads_object *)
(* of _json.py makes of the text.                                          *)
(*                                                                         *)
(* A stored text is an object whose members have a JSON type and a value,  *)
(* or no object at all (bad JSON, duplicate members, too deep).  A record  *)
(* is written once and the text then loses members, as if an older version *)
(* had written it, or is damaged.                                          *)
(***************************************************************************)
EXTENDS Records, FiniteSets

CONSTANTS
    Bindings, Offers,  \* the records that are written
    None,              \* Python's None
    Moments,           \* the times at which a decoded record is used
    Tokens,            \* the tokens that are then presented or drawn
    MaxDamage          \* bound: how many members are damaged

ASSUME WrittenAssumption ==
    /\ Bindings \subseteq Binding
    /\ \A b \in Bindings : b.created_at <= b.cookie_issued_at
    /\ Offers \subseteq PendingRegistration
ASSUME UseAssumption == Moments \subseteq Nat /\ Tokens \subseteq Nat
ASSUME NoneAssumption ==
    None \notin Nat \union UserIds \union Keys \union {-1, "ES256"}

VARIABLES
    written,  \* the record that was stored
    text,     \* what is in the store
    damaged   \* history: the members that were changed since

codec_vars == <<written, text, damaged>>

Unsafe == -1      \* a string that must not get into a header or a cookie

String(v) == [type |-> "string", value |-> v]
Number(v) == [type |-> "integer", value |-> v]
Boolean(v) == [type |-> "boolean", value |-> v]
Missing == [type |-> "missing", value |-> 0]
Null == [type |-> "null", value |-> 0]
NotAnObject == [error |-> "not an object"]

as_str(v) == IF v.type = "string" THEN v.value ELSE None

\* as_int: a bool is no int.
as_int(v) == IF v.type = "integer" THEN v.value ELSE None

is_true(v) == v.type = "boolean" /\ v.value

or(v, default) == IF v = None THEN default ELSE v

\* Mutant: the two times of the cookie are swapped.
binding_to_json_swapped(b) ==
    [userId |-> String(b.user_id),
     sessionIdentifier |-> String(b.session_identifier),
     cookieValue |-> String(b.cookie_value),
     publicKeyPem |-> String(b.public_key),
     algorithm |-> String("ES256"),
     challenge |-> String(b.challenge),
     challengeTime |-> Number(b.challenge_time),
     createdAt |-> Number(b.created_at),
     cookieIssuedAt |-> Number(b.previous_cookie_expires_at),
     previousCookieValue |-> String(b.previous_cookie_value),
     previousCookieExpiresAt |-> Number(b.cookie_issued_at),
     hasRefreshed |-> Boolean(b.has_refreshed),
     previousChallenge |-> String(b.previous_challenge),
     previousChallengeTime |-> Number(b.previous_challenge_time),
     challengeAdvertised |-> Boolean(b.challenge_advertised)]

binding_to_json(b) ==
    [userId |-> String(b.user_id),
     sessionIdentifier |-> String(b.session_identifier),
     cookieValue |-> String(b.cookie_value),
     publicKeyPem |-> String(b.public_key),
     algorithm |-> String("ES256"),
     challenge |-> String(b.challenge),
     challengeTime |-> Number(b.challenge_time),
     createdAt |-> Number(b.created_at),
     cookieIssuedAt |-> Number(b.cookie_issued_at),
     previousCookieValue |-> String(b.previous_cookie_value),
     previousCookieExpiresAt |-> Number(b.previous_cookie_expires_at),
     hasRefreshed |-> Boolean(b.has_refreshed),
     previousChallenge |-> String(b.previous_challenge),
     previousChallengeTime |-> Number(b.previous_challenge_time),
     challengeAdvertised |-> Boolean(b.challenge_advertised)]

\* Binding.__post_init__
safe(b) ==
    Unsafe \notin {b.session_identifier, b.challenge, b.previous_challenge,
                   b.cookie_value, b.previous_cookie_value}

\* Mutant: a record of an older version is not complete.
complete_to_the_last(t) ==
    \A member \in DOMAIN t :
       CASE member \in {"hasRefreshed", "challengeAdvertised"} ->
               t[member].type = "boolean"
         [] member \in {"challengeTime", "createdAt", "cookieIssuedAt",
                       "previousCookieExpiresAt", "previousChallengeTime"} ->
               as_int(t[member]) # None
         [] OTHER -> as_str(t[member]) # None

\* The members from_json insists on.
complete(t) ==
    /\ \A member \in {"userId", "sessionIdentifier", "cookieValue",
                      "publicKeyPem", "algorithm", "challenge"} :
          as_str(t[member]) # None
    /\ \A member \in {"challengeTime", "createdAt"} : as_int(t[member]) # None

decoded_binding(t) ==
    [user_id |-> as_str(t.userId),
     session_identifier |-> as_str(t.sessionIdentifier),
     cookie_value |-> as_str(t.cookieValue),
     public_key |-> as_str(t.publicKeyPem),
     challenge |-> as_str(t.challenge),
     challenge_time |-> as_int(t.challengeTime),
     created_at |-> as_int(t.createdAt),
     cookie_issued_at |-> or(as_int(t.cookieIssuedAt), as_int(t.createdAt)),
     previous_cookie_value |-> or(as_str(t.previousCookieValue), NoNonce),
     previous_cookie_expires_at |-> or(as_int(t.previousCookieExpiresAt), 0),
     has_refreshed |-> is_true(t.hasRefreshed),
     previous_challenge |-> or(as_str(t.previousChallenge), NoNonce),
     previous_challenge_time |-> or(as_int(t.previousChallengeTime), 0),
     challenge_advertised |-> is_true(t.challengeAdvertised)]

\* Mutant: a record that is not complete is taken for none.
binding_from_json_or_none(t) ==
    IF t = NotAnObject THEN Corrupt
    ELSE IF ~ complete(t) THEN Absent
    ELSE IF ~ safe(decoded_binding(t)) THEN Corrupt
    ELSE decoded_binding(t)

\* Binding.from_json; Corrupt stands for CorruptStateError.
binding_from_json(t) ==
    IF t = NotAnObject THEN Corrupt
    ELSE IF ~ complete(t) THEN Corrupt
    ELSE IF ~ safe(decoded_binding(t)) THEN Corrupt
    ELSE decoded_binding(t)

\* PendingRegistration.to_json and from_json: every member is required.
pending_to_json(p) ==
    [userId |-> String(p.user_id),
     regChallenge |-> String(p.reg_challenge),
     regChallengeTime |-> Number(p.reg_challenge_time)]

pending_from_json(t) ==
    IF t = NotAnObject THEN Corrupt
    ELSE LET p == [user_id |-> as_str(t.userId),
                   reg_challenge |-> as_str(t.regChallenge),
                   reg_challenge_time |-> as_int(t.regChallengeTime)]
         IN  IF None \in {p.user_id, p.reg_challenge, p.reg_challenge_time}
                \/ p.reg_challenge = Unsafe
             THEN Corrupt ELSE p

------------------------------------------------------------------------------
IsOffer(r) == r \in Offers
to_json(r) == IF IsOffer(r) THEN pending_to_json(r) ELSE binding_to_json(r)
decoded == IF IsOffer(written) THEN pending_from_json(text)
           ELSE binding_from_json(text)

\* The members that may get unsafe characters, and those an older version lacks.
HeaderSafe == {"sessionIdentifier", "challenge", "previousChallenge",
               "cookieValue", "previousCookieValue", "regChallenge"}
Optional == {"cookieIssuedAt", "previousCookieValue", "previousCookieExpiresAt",
             "hasRefreshed", "previousChallenge", "previousChallengeTime",
             "challengeAdvertised"}

Damage(member, v) ==
    /\ text # NotAnObject
    /\ Cardinality(damaged) < MaxDamage
    /\ member \in DOMAIN text \ damaged
    /\ text' = [text EXCEPT ![member] = v]
    /\ damaged' = damaged \union {member}
    /\ UNCHANGED written

loses(member) == Damage(member, Missing)
mistypes(member) == \E v \in {Null, Boolean(TRUE)} : Damage(member, v)
garbles(member) == member \in HeaderSafe /\ Damage(member, String(Unsafe))

\* The text is no JSON object any more.
breaks ==
    /\ text # NotAnObject
    /\ text' = NotAnObject
    /\ damaged' = DOMAIN text
    /\ UNCHANGED written

CodecInit ==
    /\ written \in Bindings \union Offers
    /\ text = to_json(written)
    /\ damaged = {}

CodecNext ==
    \/ breaks
    \/ \E member \in DOMAIN to_json(written) :
          loses(member) \/ mistypes(member) \/ garbles(member)

CodecSpec == CodecInit /\ [][CodecNext]_codec_vars

------------------------------------------------------------------------------
\* A record that nobody touched is read back as it was written, whatever it
\* holds: empty tokens, unknown users, zero times and false marks included.
RoundTrip == damaged = {} => decoded = written

\* The binding b takes no cookie and no proof that c would refuse, not even after
\* the next refresh.
AcceptsNoMore(b, c) ==
    /\ \A at \in Moments, user \in UserIds, n \in Tokens :
          LET proof == [key |-> c.public_key, jti |-> n]
              proves(r) ==
                 refresh_outcome(r, user, c.session_identifier, proof, at) = "proved"
          IN  /\ bound_cookie_matches(b, user, n, at) =>
                    bound_cookie_matches(c, user, n, at)
              /\ proves(b) => proves(c)
    /\ \A at \in Moments, next \in Tokens :
          LET after(r) == with_rotated_cookie_and_challenge(r, next, at)
          IN  \A user \in UserIds, n \in Tokens, later \in Moments :
                 bound_cookie_matches(after(b), user, n, later) =>
                    bound_cookie_matches(after(c), user, n, later)

\* "a graceful, fail-closed default": a damaged record is Corrupt, which the gate
\* and the endpoints refuse, or it grants no more than the record it was, to no
\* one else.  It is never taken for no record at all.
FailsClosed ==
    \/ decoded = Corrupt
    \/ IsOffer(written) /\ decoded = written
    \/ ~ IsOffer(written) /\ decoded # Absent /\ AcceptsNoMore(decoded, written)

\* "never a lockout": a record of an older version, without some of the optional
\* members, still takes the current cookie and a proof of the current challenge.
NeverLocksOut ==
    damaged \subseteq Optional /\ (\A m \in damaged : text[m].type = "missing") =>
       /\ decoded # Corrupt
       /\ ~ IsOffer(written) =>
             \A at \in Moments :
                LET proof == [key |-> written.public_key, jti |-> written.challenge]
                    proved(b) == refresh_outcome(b, b.user_id, NoNonce, proof, at)
                IN  /\ bound_cookie_matches(decoded, Unknown,
                                            written.cookie_value, at)
                    /\ proved(decoded) = proved(written)
==============================================================================
