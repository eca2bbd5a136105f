----------------------------- MODULE CodecProofs -----------------------------
(***************************************************************************)
(* The stored form of the records: read back as written, failing closed,   *)
(* and no lockout, for all records, all times and any amount of damage.    *)
(***************************************************************************)
EXTENDS Codec, TLAPS

\* What a member may have become.
Spoilt(member) ==
    {Missing, Null, Boolean(TRUE)}
       \union (IF member \in HeaderSafe THEN {String(Unsafe)} ELSE {})

\* Every member of the text is the one that was written, or was damaged.
CodecInv ==
    /\ written \in Bindings \union Offers
    /\ \/ text = NotAnObject /\ damaged = DOMAIN to_json(written)
       \/ /\ text # NotAnObject
          /\ damaged \subseteq DOMAIN to_json(written)
          /\ DOMAIN text = DOMAIN to_json(written)
          /\ \A member \in DOMAIN text :
                IF member \in damaged THEN text[member] \in Spoilt(member)
                ELSE text[member] = to_json(written)[member]

OfferMembers == {"userId", "regChallenge", "regChallengeTime"}
BindingMembers ==
    {"userId", "sessionIdentifier", "cookieValue", "publicKeyPem", "algorithm",
     "challenge", "challengeTime", "createdAt", "cookieIssuedAt",
     "previousCookieValue", "previousCookieExpiresAt", "hasRefreshed",
     "previousChallenge", "previousChallengeTime", "challengeAdvertised"}

\* A record is an offer or a binding, never both.
LEMMA OneOrTheOther ==
    ASSUME NEW r \in Bindings \union Offers
    PROVE  /\ IsOffer(r) => r \in PendingRegistration /\ r \notin Binding
           /\ ~ IsOffer(r) => r \in Bindings /\ r \in Binding
           /\ DOMAIN to_json(r) = IF IsOffer(r) THEN OfferMembers ELSE BindingMembers
<1>1. Bindings \subseteq Binding /\ Offers \subseteq PendingRegistration
  BY WrittenAssumption
<1>2. \A b \in Binding : "public_key" \in DOMAIN b
  BY DEF Binding
<1>3. \A p \in PendingRegistration : "public_key" \notin DOMAIN p
  BY DEF PendingRegistration
<1>4. DOMAIN pending_to_json(r) = OfferMembers
  BY DEF pending_to_json, OfferMembers
<1>5. DOMAIN binding_to_json(r) = BindingMembers
  BY DEF binding_to_json, BindingMembers
<1>6. QED
  BY <1>1, <1>2, <1>3, <1>4, <1>5 DEF IsOffer, to_json

\* CodecInv is inductive.
THEOREM CodecInvariant == CodecSpec => []CodecInv
<1>1. CodecInit => CodecInv
  <2> SUFFICES ASSUME CodecInit PROVE CodecInv
    OBVIOUS
  <2>1. DOMAIN text # {"error"}
    BY OneOrTheOther DEF CodecInit, OfferMembers, BindingMembers
  <2>2. text # NotAnObject
    BY <2>1 DEF NotAnObject
  <2>3. QED
    BY <2>2 DEF CodecInit, CodecInv
<1>2. CodecInv /\ [CodecNext]_codec_vars => CodecInv'
  <2> SUFFICES ASSUME CodecInv, [CodecNext]_codec_vars PROVE CodecInv'
    OBVIOUS
  <2>1. CASE UNCHANGED codec_vars
    BY <2>1 DEF CodecInv, codec_vars
  <2>2. CASE breaks
    BY <2>2 DEF CodecInv, breaks
  <2>3. ASSUME NEW member \in DOMAIN to_json(written), NEW v \in Spoilt(member),
               Damage(member, v)
        PROVE  CodecInv'
    <3>1. /\ written' = written /\ text # NotAnObject
          /\ member \in DOMAIN text
          /\ damaged' = damaged \union {member}
          /\ text' = [text EXCEPT ![member] = v]
      BY <2>3 DEF Damage
    <3>2. /\ DOMAIN text' = DOMAIN text /\ text'[member] = v
          /\ \A m \in DOMAIN text : m # member => text'[m] = text[m]
      BY <3>1
    <3>3. DOMAIN text' # {"error"}
      BY <3>1, <3>2, OneOrTheOther DEF CodecInv, OfferMembers, BindingMembers
    <3>4. text' # NotAnObject
      BY <3>3 DEF NotAnObject
    <3>5. QED
      BY <2>3, <3>1, <3>2, <3>4 DEF CodecInv
  <2>4. ASSUME NEW member \in DOMAIN to_json(written),
               loses(member) \/ mistypes(member) \/ garbles(member)
        PROVE  CodecInv'
    BY <2>3, <2>4 DEF loses, mistypes, garbles, Spoilt
  <2>5. QED
    BY <2>1, <2>2, <2>4 DEF CodecNext
<1>3. QED
  BY <1>1, <1>2, PTL DEF CodecSpec

\* What the accessors make of a member, damaged or not.
LEMMA Accessors ==
    /\ \A v : as_str(String(v)) = v /\ as_int(String(v)) = None
    /\ \A v : as_int(Number(v)) = v /\ as_str(Number(v)) = None
    /\ \A v : as_str(Boolean(v)) = None /\ as_int(Boolean(v)) = None
    /\ as_str(Missing) = None /\ as_int(Missing) = None /\ ~ is_true(Missing)
    /\ as_str(Null) = None /\ as_int(Null) = None /\ ~ is_true(Null)
    /\ \A v \in BOOLEAN : is_true(Boolean(v)) = v
<1>1. /\ \A v : as_str(String(v)) = v /\ as_int(String(v)) = None
      /\ \A v : as_int(Number(v)) = v /\ as_str(Number(v)) = None
      /\ \A v : as_str(Boolean(v)) = None /\ as_int(Boolean(v)) = None
      /\ as_str(Missing) = None /\ as_int(Missing) = None /\ ~ is_true(Missing)
      /\ as_str(Null) = None /\ as_int(Null) = None /\ ~ is_true(Null)
  BY DEF as_str, as_int, is_true, String, Number, Boolean, Missing, Null
<1>2. \A v \in BOOLEAN : is_true(Boolean(v)) = v
  BY DEF is_true, Boolean
<1>3. QED
  BY <1>1, <1>2

\* A string member is what it was, or none, or unsafe where that is noticed.
LEMMA StringMember ==
    ASSUME CodecInv, text # NotAnObject, NEW m \in DOMAIN text, NEW v,
           to_json(written)[m] = String(v)
    PROVE  /\ as_str(text[m]) \in {v, None, Unsafe}
           /\ as_str(text[m]) = Unsafe => v = Unsafe \/ m \in HeaderSafe
           /\ m \notin damaged => as_str(text[m]) = v
           /\ text[m].type = "missing" => as_str(text[m]) = None
<1>1. IF m \in damaged THEN text[m] \in Spoilt(m) ELSE text[m] = String(v)
  BY DEF CodecInv
<1>2. None # Unsafe
  BY NoneAssumption DEF Unsafe
<1>3. text[m].type = "missing" => as_str(text[m]) = None
  BY DEF as_str
<1>4. CASE m \notin damaged
  BY <1>1, <1>3, <1>4, Accessors
<1>5. CASE m \in damaged
  <2>1. text[m] \in {Missing, Null, Boolean(TRUE)}
           \/ (m \in HeaderSafe /\ text[m] = String(Unsafe))
    BY <1>1, <1>5 DEF Spoilt
  <2>2. QED
    BY <1>2, <1>3, <1>5, <2>1, Accessors
<1>6. QED
  BY <1>4, <1>5

\* An integer member is what it was, or none: a boolean is no integer.
LEMMA NumberMember ==
    ASSUME CodecInv, text # NotAnObject, NEW m \in DOMAIN text, NEW v,
           to_json(written)[m] = Number(v)
    PROVE  /\ as_int(text[m]) \in {v, None}
           /\ m \notin damaged => as_int(text[m]) = v
<1>1. IF m \in damaged THEN text[m] \in Spoilt(m) ELSE text[m] = Number(v)
  BY DEF CodecInv
<1>2. text[m] \in {Missing, Null, Boolean(TRUE), String(Unsafe), Number(v)}
  BY <1>1 DEF Spoilt
<1>3. QED
  BY <1>1, <1>2, Accessors

\* The members of a binding's text.
LEMMA BindingText ==
    ASSUME CodecInv, text # NotAnObject, ~ IsOffer(written)
    PROVE  /\ DOMAIN text = BindingMembers
           /\ written \in Binding
           /\ to_json(written) = binding_to_json(written)
BY OneOrTheOther DEF CodecInv, to_json

\* What from_json makes of a damaged text it does not refuse.
LEMMA Decoded ==
    ASSUME CodecInv, text # NotAnObject, ~ IsOffer(written),
           complete(text), safe(decoded_binding(text))
    PROVE  LET d == decoded_binding(text) IN
           /\ d \in Binding
           /\ d.user_id = written.user_id
           /\ d.session_identifier = written.session_identifier
           /\ d.cookie_value = written.cookie_value
           /\ d.public_key = written.public_key
           /\ d.challenge = written.challenge
           /\ d.challenge_time = written.challenge_time
           /\ d.created_at = written.created_at
           /\ d.cookie_issued_at \in {written.cookie_issued_at, written.created_at}
           /\ d.previous_cookie_value \in {written.previous_cookie_value, NoNonce}
           /\ d.previous_cookie_expires_at \in {written.previous_cookie_expires_at, 0}
           /\ d.previous_challenge \in {written.previous_challenge, NoNonce}
           /\ d.previous_challenge_time \in {written.previous_challenge_time, 0}
<1> DEFINE d == decoded_binding(text)
<1>1. /\ DOMAIN text = BindingMembers /\ written \in Binding
      /\ to_json(written) = binding_to_json(written)
  BY BindingText
<1>2. /\ to_json(written)["userId"] = String(written.user_id)
      /\ to_json(written)["sessionIdentifier"] = String(written.session_identifier)
      /\ to_json(written)["cookieValue"] = String(written.cookie_value)
      /\ to_json(written)["publicKeyPem"] = String(written.public_key)
      /\ to_json(written)["challenge"] = String(written.challenge)
      /\ to_json(written)["previousCookieValue"] = String(written.previous_cookie_value)
      /\ to_json(written)["previousChallenge"] = String(written.previous_challenge)
  BY <1>1 DEF binding_to_json
<1>3. /\ to_json(written)["challengeTime"] = Number(written.challenge_time)
      /\ to_json(written)["createdAt"] = Number(written.created_at)
      /\ to_json(written)["cookieIssuedAt"] = Number(written.cookie_issued_at)
      /\ to_json(written)["previousCookieExpiresAt"]
            = Number(written.previous_cookie_expires_at)
      /\ to_json(written)["previousChallengeTime"]
            = Number(written.previous_challenge_time)
  BY <1>1 DEF binding_to_json
<1>4. /\ as_str(text["userId"]) \in {written.user_id, None, Unsafe}
      /\ as_str(text["sessionIdentifier"]) \in
            {written.session_identifier, None, Unsafe}
      /\ as_str(text["cookieValue"]) \in {written.cookie_value, None, Unsafe}
      /\ as_str(text["publicKeyPem"]) \in {written.public_key, None, Unsafe}
      /\ as_str(text["challenge"]) \in {written.challenge, None, Unsafe}
      /\ as_str(text["previousCookieValue"]) \in
            {written.previous_cookie_value, None, Unsafe}
      /\ as_str(text["previousChallenge"]) \in
            {written.previous_challenge, None, Unsafe}
  BY <1>1, <1>2, StringMember DEF BindingMembers
<1>5. /\ as_int(text["challengeTime"]) \in {written.challenge_time, None}
      /\ as_int(text["createdAt"]) \in {written.created_at, None}
      /\ as_int(text["cookieIssuedAt"]) \in {written.cookie_issued_at, None}
      /\ as_int(text["previousCookieExpiresAt"]) \in
            {written.previous_cookie_expires_at, None}
      /\ as_int(text["previousChallengeTime"]) \in
            {written.previous_challenge_time, None}
  BY <1>1, <1>3, NumberMember DEF BindingMembers
<1>6. /\ as_str(text["userId"]) = written.user_id
      /\ as_str(text["publicKeyPem"]) = written.public_key
  <2>1. /\ as_str(text["userId"]) = Unsafe => written.user_id = Unsafe
        /\ as_str(text["publicKeyPem"]) = Unsafe => written.public_key = Unsafe
    BY <1>1, <1>2, StringMember DEF BindingMembers, HeaderSafe
  <2>2. as_str(text["userId"]) # None /\ as_str(text["publicKeyPem"]) # None
    BY DEF complete
  <2>3. QED
    BY <1>4, <2>1, <2>2
<1>7. /\ as_str(text["sessionIdentifier"]) = written.session_identifier
      /\ as_str(text["cookieValue"]) = written.cookie_value
      /\ as_str(text["challenge"]) = written.challenge
      /\ or(as_str(text["previousCookieValue"]), NoNonce) \in
            {written.previous_cookie_value, NoNonce}
      /\ or(as_str(text["previousChallenge"]), NoNonce) \in
            {written.previous_challenge, NoNonce}
  <2>1. /\ as_str(text["sessionIdentifier"]) \notin {None, Unsafe}
        /\ as_str(text["cookieValue"]) \notin {None, Unsafe}
        /\ as_str(text["challenge"]) \notin {None, Unsafe}
        /\ or(as_str(text["previousCookieValue"]), NoNonce) # Unsafe
        /\ or(as_str(text["previousChallenge"]), NoNonce) # Unsafe
    BY DEF complete, safe, decoded_binding
  <2>2. QED
    BY <1>4, <2>1 DEF or
<1>8. /\ as_int(text["challengeTime"]) = written.challenge_time
      /\ as_int(text["createdAt"]) = written.created_at
  BY <1>5 DEF complete
<1>9. /\ d.user_id = written.user_id
      /\ d.session_identifier = written.session_identifier
      /\ d.cookie_value = written.cookie_value
      /\ d.public_key = written.public_key
      /\ d.challenge = written.challenge
      /\ d.challenge_time = written.challenge_time
      /\ d.created_at = written.created_at
      /\ d.previous_cookie_value \in {written.previous_cookie_value, NoNonce}
      /\ d.previous_challenge \in {written.previous_challenge, NoNonce}
  BY <1>6, <1>7, <1>8 DEF decoded_binding
<1>10. /\ d.cookie_issued_at \in {written.cookie_issued_at, written.created_at}
       /\ d.previous_cookie_expires_at \in {written.previous_cookie_expires_at, 0}
       /\ d.previous_challenge_time \in {written.previous_challenge_time, 0}
  BY <1>5, <1>8 DEF decoded_binding, or
<1>11. d.has_refreshed \in BOOLEAN /\ d.challenge_advertised \in BOOLEAN
  BY DEF decoded_binding, is_true
<1>12. /\ written.user_id \in UserIds /\ written.session_identifier \in Nonces
       /\ written.cookie_value \in Nonces /\ written.public_key \in Keys
       /\ {written.challenge, written.challenge_time, written.created_at,
           written.cookie_issued_at, written.previous_cookie_value,
           written.previous_cookie_expires_at, written.previous_challenge,
           written.previous_challenge_time} \subseteq Nat
  BY <1>1 DEF Binding
<1>13. d \in Binding
  <2>1. d = [user_id |-> d.user_id,
             session_identifier |-> d.session_identifier,
             cookie_value |-> d.cookie_value,
             public_key |-> d.public_key,
             challenge |-> d.challenge,
             challenge_time |-> d.challenge_time,
             created_at |-> d.created_at,
             cookie_issued_at |-> d.cookie_issued_at,
             previous_cookie_value |-> d.previous_cookie_value,
             previous_cookie_expires_at |-> d.previous_cookie_expires_at,
             has_refreshed |-> d.has_refreshed,
             previous_challenge |-> d.previous_challenge,
             previous_challenge_time |-> d.previous_challenge_time,
             challenge_advertised |-> d.challenge_advertised]
    BY DEF decoded_binding
  <2> HIDE DEF d
  <2>2. QED
    BY <1>9, <1>10, <1>11, <1>12, <2>1 DEF Binding, NoNonce
<1>14. QED
  BY <1>9, <1>10, <1>13

\* A text without damage, or of an older version, is not refused.
LEMMA Accepted ==
    ASSUME CodecInv, ~ IsOffer(written), damaged \subseteq Optional,
           \A m \in damaged : text[m].type = "missing"
    PROVE  /\ text # NotAnObject
           /\ complete(text) /\ safe(decoded_binding(text))
           /\ decoded = decoded_binding(text)
<1>1. text # NotAnObject
  <2>1. DOMAIN to_json(written) = BindingMembers
    BY OneOrTheOther DEF CodecInv
  <2>2. QED
    BY <2>1 DEF CodecInv, BindingMembers, Optional
<1>2. /\ DOMAIN text = BindingMembers /\ written \in Binding
      /\ to_json(written) = binding_to_json(written)
  BY <1>1, BindingText
<1>3. /\ \A m \in BindingMembers \ Optional : text[m] = binding_to_json(written)[m]
  BY <1>1, <1>2 DEF CodecInv
<1>4. /\ as_str(text["userId"]) = written.user_id
      /\ as_str(text["sessionIdentifier"]) = written.session_identifier
      /\ as_str(text["cookieValue"]) = written.cookie_value
      /\ as_str(text["publicKeyPem"]) = written.public_key
      /\ as_str(text["algorithm"]) = "ES256"
      /\ as_str(text["challenge"]) = written.challenge
      /\ as_int(text["challengeTime"]) = written.challenge_time
      /\ as_int(text["createdAt"]) = written.created_at
  <2>1. /\ text["userId"] = String(written.user_id)
        /\ text["sessionIdentifier"] = String(written.session_identifier)
        /\ text["cookieValue"] = String(written.cookie_value)
        /\ text["publicKeyPem"] = String(written.public_key)
        /\ text["algorithm"] = String("ES256")
        /\ text["challenge"] = String(written.challenge)
        /\ text["challengeTime"] = Number(written.challenge_time)
        /\ text["createdAt"] = Number(written.created_at)
    BY <1>3 DEF BindingMembers, Optional, binding_to_json
  <2>2. QED
    BY <2>1, Accessors
<1>5. /\ written.user_id \in UserIds /\ written.session_identifier \in Nat
      /\ written.cookie_value \in Nat /\ written.public_key \in Keys
      /\ written.challenge \in Nat /\ written.challenge_time \in Nat
      /\ written.created_at \in Nat
      /\ written.previous_cookie_value \in Nat /\ written.previous_challenge \in Nat
  BY <1>2 DEF Binding, Nonces
<1>6. complete(text)
  BY <1>4, <1>5, NoneAssumption DEF complete
<1>7. /\ or(as_str(text["previousCookieValue"]), NoNonce) \in
            {written.previous_cookie_value, NoNonce}
      /\ or(as_str(text["previousChallenge"]), NoNonce) \in
            {written.previous_challenge, NoNonce}
  <2>1. ASSUME NEW m \in BindingMembers, NEW v, binding_to_json(written)[m] = String(v)
        PROVE  or(as_str(text[m]), NoNonce) \in {v, NoNonce}
    BY <1>1, <1>2, <2>1, StringMember DEF or
  <2>2. /\ binding_to_json(written)["previousCookieValue"]
              = String(written.previous_cookie_value)
        /\ binding_to_json(written)["previousChallenge"]
              = String(written.previous_challenge)
    BY DEF binding_to_json
  <2>3. QED
    BY <2>1, <2>2 DEF BindingMembers
<1>8. safe(decoded_binding(text))
  <2>1. \A n \in Nat : n # Unsafe
    BY DEF Unsafe
  <2>2. /\ decoded_binding(text).session_identifier # Unsafe
        /\ decoded_binding(text).challenge # Unsafe
        /\ decoded_binding(text).cookie_value # Unsafe
    BY <1>4, <1>5, <2>1 DEF decoded_binding
  <2>3. /\ decoded_binding(text).previous_challenge # Unsafe
        /\ decoded_binding(text).previous_cookie_value # Unsafe
    BY <1>5, <1>7, <2>1 DEF decoded_binding, NoNonce
  <2>4. QED
    BY <2>2, <2>3 DEF safe
<1>9. QED
  BY <1>1, <1>6, <1>8 DEF decoded, binding_from_json

\* An offer that nobody touched is read back.
LEMMA OfferReadBack ==
    ASSUME CodecInv, IsOffer(written), text # NotAnObject
    PROVE  \/ decoded = Corrupt
           \/ decoded = written
<1>1. /\ written \in PendingRegistration /\ DOMAIN text = OfferMembers
      /\ to_json(written) = pending_to_json(written)
  BY OneOrTheOther DEF CodecInv, to_json
<1>2. /\ to_json(written)["userId"] = String(written.user_id)
      /\ to_json(written)["regChallenge"] = String(written.reg_challenge)
      /\ to_json(written)["regChallengeTime"] = Number(written.reg_challenge_time)
  BY <1>1 DEF pending_to_json
<1>3. /\ as_str(text["userId"]) \in {written.user_id, None}
      /\ as_str(text["regChallenge"]) \in {written.reg_challenge, None, Unsafe}
      /\ as_int(text["regChallengeTime"]) \in {written.reg_challenge_time, None}
  <2>1. as_str(text["userId"]) \in {written.user_id, None, Unsafe}
        /\ (as_str(text["userId"]) = Unsafe => written.user_id = Unsafe)
    BY <1>1, <1>2, StringMember DEF OfferMembers, HeaderSafe
  <2>2. QED
    BY <1>1, <1>2, <2>1, StringMember, NumberMember DEF OfferMembers
<1> DEFINE p == [user_id |-> as_str(text["userId"]),
                 reg_challenge |-> as_str(text["regChallenge"]),
                 reg_challenge_time |-> as_int(text["regChallengeTime"])]
<1>4. decoded = IF \/ None \in {p.user_id, p.reg_challenge, p.reg_challenge_time}
                   \/ p.reg_challenge = Unsafe
                THEN Corrupt ELSE p
  BY DEF decoded, pending_from_json
<1>5. written = [user_id |-> written.user_id,
                 reg_challenge |-> written.reg_challenge,
                 reg_challenge_time |-> written.reg_challenge_time]
  BY <1>1 DEF PendingRegistration
<1>6. QED
  BY <1>3, <1>4, <1>5

\* ... and it is not refused.
LEMMA OfferAccepted ==
    ASSUME CodecInv, IsOffer(written), damaged = {}
    PROVE  decoded = written
<1>1. /\ written \in PendingRegistration /\ DOMAIN to_json(written) = OfferMembers
      /\ to_json(written) = pending_to_json(written)
  BY OneOrTheOther DEF CodecInv, to_json
<1>2. text # NotAnObject
  BY <1>1 DEF CodecInv, OfferMembers
<1>3. /\ text["userId"] = String(written.user_id)
      /\ text["regChallenge"] = String(written.reg_challenge)
      /\ text["regChallengeTime"] = Number(written.reg_challenge_time)
  BY <1>1, <1>2 DEF CodecInv, OfferMembers, pending_to_json
<1> DEFINE p == [user_id |-> written.user_id,
                 reg_challenge |-> written.reg_challenge,
                 reg_challenge_time |-> written.reg_challenge_time]
<1>4. written = p
  BY <1>1 DEF PendingRegistration
<1>5. /\ as_str(text["userId"]) = written.user_id
      /\ as_str(text["regChallenge"]) = written.reg_challenge
      /\ as_int(text["regChallengeTime"]) = written.reg_challenge_time
  BY <1>3, Accessors
<1>6. /\ None \notin {written.user_id, written.reg_challenge,
                     written.reg_challenge_time}
      /\ written.reg_challenge # Unsafe
  BY <1>1, NoneAssumption DEF PendingRegistration, Nonces, Unsafe
<1>7. QED
  BY <1>2, <1>4, <1>5, <1>6 DEF decoded, pending_from_json

\* A record that nobody touched is read back as it was written: RoundTrip.
THEOREM ReadBack == CodecSpec => []RoundTrip
<1>1. CodecInv => RoundTrip
  <2> SUFFICES ASSUME CodecInv, damaged = {} PROVE decoded = written
    BY DEF RoundTrip
  <2>1. CASE IsOffer(written)
    BY <2>1, OfferAccepted
  <2>2. CASE ~ IsOffer(written)
    <3>1. /\ text # NotAnObject /\ decoded = decoded_binding(text)
          /\ written \in Binding /\ DOMAIN text = BindingMembers
          /\ to_json(written) = binding_to_json(written)
      BY <2>2, Accepted, BindingText
    <3>2. \A m \in BindingMembers : text[m] = binding_to_json(written)[m]
      BY <3>1 DEF CodecInv
    <3>3. /\ as_str(text["userId"]) = written.user_id
          /\ as_str(text["sessionIdentifier"]) = written.session_identifier
          /\ as_str(text["cookieValue"]) = written.cookie_value
          /\ as_str(text["publicKeyPem"]) = written.public_key
          /\ as_str(text["challenge"]) = written.challenge
          /\ as_str(text["previousCookieValue"]) = written.previous_cookie_value
          /\ as_str(text["previousChallenge"]) = written.previous_challenge
      BY <3>2, Accessors DEF BindingMembers, binding_to_json
    <3>4. /\ as_int(text["challengeTime"]) = written.challenge_time
          /\ as_int(text["createdAt"]) = written.created_at
          /\ as_int(text["cookieIssuedAt"]) = written.cookie_issued_at
          /\ as_int(text["previousCookieExpiresAt"])
                = written.previous_cookie_expires_at
          /\ as_int(text["previousChallengeTime"]) = written.previous_challenge_time
      BY <3>2, Accessors DEF BindingMembers, binding_to_json
    <3>5. /\ is_true(text["hasRefreshed"]) = written.has_refreshed
          /\ is_true(text["challengeAdvertised"]) = written.challenge_advertised
      <4>1. /\ text["hasRefreshed"] = Boolean(written.has_refreshed)
            /\ text["challengeAdvertised"] = Boolean(written.challenge_advertised)
        BY <3>2 DEF BindingMembers, binding_to_json
      <4>2. written.has_refreshed \in BOOLEAN /\ written.challenge_advertised \in BOOLEAN
        BY <3>1 DEF Binding
      <4>3. QED
        BY <4>1, <4>2, Accessors
    <3>6. /\ written.previous_cookie_value # None /\ written.previous_challenge # None
          /\ written.cookie_issued_at # None
          /\ written.previous_cookie_expires_at # None
          /\ written.previous_challenge_time # None
      BY <3>1, NoneAssumption DEF Binding
    <3>7. /\ or(as_str(text["previousCookieValue"]), NoNonce)
                = written.previous_cookie_value
          /\ or(as_str(text["previousChallenge"]), NoNonce) = written.previous_challenge
          /\ or(as_int(text["cookieIssuedAt"]), as_int(text["createdAt"]))
                = written.cookie_issued_at
          /\ or(as_int(text["previousCookieExpiresAt"]), 0)
                = written.previous_cookie_expires_at
          /\ or(as_int(text["previousChallengeTime"]), 0)
                = written.previous_challenge_time
      BY <3>3, <3>4, <3>6 DEF or
    <3>8. decoded_binding(text) =
            [user_id |-> written.user_id,
             session_identifier |-> written.session_identifier,
             cookie_value |-> written.cookie_value,
             public_key |-> written.public_key,
             challenge |-> written.challenge,
             challenge_time |-> written.challenge_time,
             created_at |-> written.created_at,
             cookie_issued_at |-> written.cookie_issued_at,
             previous_cookie_value |-> written.previous_cookie_value,
             previous_cookie_expires_at |-> written.previous_cookie_expires_at,
             has_refreshed |-> written.has_refreshed,
             previous_challenge |-> written.previous_challenge,
             previous_challenge_time |-> written.previous_challenge_time,
             challenge_advertised |-> written.challenge_advertised]
      BY <3>3, <3>4, <3>5, <3>7 DEF decoded_binding
    <3>9. QED
      BY <3>1, <3>8 DEF Binding
  <2>3. QED
    BY <2>1, <2>2
<1>2. QED
  BY <1>1, CodecInvariant, PTL

\* A binding that lost optional members accepts no more than the one it was.
LEMMA GrantsNoMore ==
    ASSUME NEW b \in Binding, NEW d \in Binding, b.created_at <= b.cookie_issued_at,
           d.user_id = b.user_id, d.session_identifier = b.session_identifier,
           d.cookie_value = b.cookie_value, d.public_key = b.public_key,
           d.challenge = b.challenge, d.challenge_time = b.challenge_time,
           d.cookie_issued_at \in {b.cookie_issued_at, b.created_at},
           d.previous_cookie_value \in {b.previous_cookie_value, NoNonce},
           d.previous_cookie_expires_at \in {b.previous_cookie_expires_at, 0},
           d.previous_challenge \in {b.previous_challenge, NoNonce},
           d.previous_challenge_time \in {b.previous_challenge_time, 0},
           NEW user, NEW n \in Nat, NEW next \in Nat, NEW at \in Nat, NEW id, NEW jwt
    PROVE  /\ bound_cookie_matches(d, user, n, at) =>
                 bound_cookie_matches(b, user, n, at)
           /\ refresh_outcome(d, user, id, jwt, at) = "proved" =>
                 refresh_outcome(b, user, id, jwt, at) = "proved"
           /\ \A later \in Nat :
                 LET after(r) == with_rotated_cookie_and_challenge(r, next, at)
                 IN  bound_cookie_matches(after(d), user, n, later) =>
                        bound_cookie_matches(after(b), user, n, later)
<1>1. /\ b.previous_cookie_expires_at \in Nat /\ b.previous_challenge_time \in Nat
      /\ b.cookie_issued_at \in Nat /\ b.created_at \in Nat
      /\ CookieMaxAge \in Nat /\ ChallengeTtl \in Nat
  BY ConfigAssumption DEF Binding, Config
<1>2. bound_cookie_matches(d, user, n, at) => bound_cookie_matches(b, user, n, at)
  BY <1>1 DEF bound_cookie_matches, same_user, NoNonce
<1>3. challenge_matches(d, jwt.jti, at) => challenge_matches(b, jwt.jti, at)
  <2>1. at - d.previous_challenge_time <= ChallengeTtl =>
           at - b.previous_challenge_time <= ChallengeTtl
    BY <1>1
  <2>2. QED
    BY <2>1 DEF challenge_matches
<1>4. b \notin {Absent, Corrupt}
  BY AbsentAssumption, CorruptAssumption
<1>5. ASSUME refresh_outcome(d, user, id, jwt, at) = "proved"
      PROVE  refresh_outcome(b, user, id, jwt, at) = "proved"
  <2>1. /\ same_user(d.user_id, user)
        /\ ~ (id # NoNonce /\ id # d.session_identifier)
        /\ d.challenge # NoNonce
        /\ ~ (at - d.challenge_time > ChallengeTtl)
        /\ verify_refresh_jwt(jwt, d.public_key)
        /\ challenge_matches(d, jwt.jti, at)
    BY <1>5 DEF refresh_outcome
  <2>2. QED
    BY <1>3, <1>4, <2>1 DEF refresh_outcome
<1>6. ASSUME NEW later \in Nat,
             bound_cookie_matches(with_rotated_cookie_and_challenge(d, next, at),
                                  user, n, later)
      PROVE  bound_cookie_matches(with_rotated_cookie_and_challenge(b, next, at),
                                  user, n, later)
  <2> DEFINE e == with_rotated_cookie_and_challenge(d, next, at)
             c == with_rotated_cookie_and_challenge(b, next, at)
  <2>1. /\ e.user_id = d.user_id /\ e.cookie_value = next
        /\ e.previous_cookie_value = d.cookie_value
        /\ e.previous_cookie_expires_at = d.cookie_issued_at + CookieMaxAge
    BY DEF with_rotated_cookie_and_challenge, Binding
  <2>2. /\ c.user_id = b.user_id /\ c.cookie_value = next
        /\ c.previous_cookie_value = b.cookie_value
        /\ c.previous_cookie_expires_at = b.cookie_issued_at + CookieMaxAge
    BY DEF with_rotated_cookie_and_challenge, Binding
  <2>3. later < d.cookie_issued_at + CookieMaxAge =>
           later < b.cookie_issued_at + CookieMaxAge
    BY <1>1
  <2> HIDE DEF e, c
  <2>4. bound_cookie_matches(e, user, n, later) =>
           bound_cookie_matches(c, user, n, later)
    BY <2>1, <2>2, <2>3 DEF bound_cookie_matches
  <2>5. QED
    BY <1>6, <2>4 DEF e, c
<1>7. QED
  BY <1>2, <1>5, <1>6

\* A damaged record is refused, or grants no more than the one it was:
\* FailsClosed.
THEOREM ClosedOnDamage == CodecSpec => []FailsClosed
<1>1. CodecInv => FailsClosed
  <2> SUFFICES ASSUME CodecInv, decoded # Corrupt PROVE FailsClosed
    BY DEF FailsClosed
  <2>1. text # NotAnObject
    BY DEF decoded, pending_from_json, binding_from_json
  <2>2. CASE IsOffer(written)
    BY <2>1, <2>2, OfferReadBack DEF FailsClosed
  <2>3. CASE ~ IsOffer(written)
    <3>1. /\ decoded = decoded_binding(text)
          /\ complete(text) /\ safe(decoded_binding(text))
      BY <2>1, <2>3 DEF decoded, binding_from_json
    <3>2. /\ written \in Binding /\ written.created_at <= written.cookie_issued_at
      BY <2>3, OneOrTheOther, WrittenAssumption DEF CodecInv
    <3>3. decoded \in Binding /\ decoded # Absent
      BY <2>1, <2>3, <3>1, Decoded, AbsentAssumption
    <3>4. ASSUME NEW at \in Moments, NEW user \in UserIds, NEW n \in Tokens,
                 NEW next \in Tokens
          PROVE  LET after(b) == with_rotated_cookie_and_challenge(b, next, at)
                     proof == [key |-> written.public_key, jti |-> n]
                     id == written.session_identifier
                 IN  /\ bound_cookie_matches(decoded, user, n, at) =>
                           bound_cookie_matches(written, user, n, at)
                     /\ refresh_outcome(decoded, user, id, proof, at) = "proved" =>
                           refresh_outcome(written, user, id, proof, at) = "proved"
                     /\ \A later \in Moments :
                           bound_cookie_matches(after(decoded), user, n, later) =>
                              bound_cookie_matches(after(written), user, n, later)
      <4>1. /\ at \in Nat /\ n \in Nat /\ next \in Nat /\ Moments \subseteq Nat
        BY <3>4, UseAssumption
      <4>2. /\ decoded.user_id = written.user_id
            /\ decoded.session_identifier = written.session_identifier
            /\ decoded.cookie_value = written.cookie_value
            /\ decoded.public_key = written.public_key
            /\ decoded.challenge = written.challenge
            /\ decoded.challenge_time = written.challenge_time
            /\ decoded.cookie_issued_at \in
                  {written.cookie_issued_at, written.created_at}
            /\ decoded.previous_cookie_value \in
                  {written.previous_cookie_value, NoNonce}
            /\ decoded.previous_cookie_expires_at \in
                  {written.previous_cookie_expires_at, 0}
            /\ decoded.previous_challenge \in {written.previous_challenge, NoNonce}
            /\ decoded.previous_challenge_time \in
                  {written.previous_challenge_time, 0}
        BY <2>1, <2>3, <3>1, Decoded
      <4>3. QED
        BY <3>2, <3>3, <4>1, <4>2, GrantsNoMore
    <3>5. QED
      <4>1. AcceptsNoMore(decoded, written)
        BY <3>4 DEF AcceptsNoMore
      <4>2. QED
        BY <2>3, <3>3, <4>1 DEF FailsClosed
  <2>4. QED
    BY <2>2, <2>3
<1>2. QED
  BY <1>1, CodecInvariant, PTL

\* A record of an older version still takes its cookie and its challenge:
\* NeverLocksOut.
THEOREM OldRecordsWork == CodecSpec => []NeverLocksOut
<1>1. CodecInv => NeverLocksOut
  <2> SUFFICES ASSUME CodecInv, damaged \subseteq Optional,
                      \A m \in damaged : text[m].type = "missing"
               PROVE  /\ decoded # Corrupt
                      /\ ~ IsOffer(written) => \A at \in Moments :
                            LET proof == [key |-> written.public_key,
                                          jti |-> written.challenge]
                                proved(b) ==
                                   refresh_outcome(b, b.user_id, NoNonce, proof, at)
                            IN  /\ bound_cookie_matches(decoded, Unknown,
                                                        written.cookie_value, at)
                                /\ proved(decoded) = proved(written)
    BY DEF NeverLocksOut
  <2>1. CASE IsOffer(written)
    <3>1. DOMAIN to_json(written) = OfferMembers /\ written \in PendingRegistration
      BY <2>1, OneOrTheOther DEF CodecInv
    <3>2. damaged = {}
      BY <3>1 DEF CodecInv, OfferMembers, Optional
    <3>3. QED
      BY <2>1, <3>1, <3>2, OfferAccepted, CorruptAssumption
  <2>2. CASE ~ IsOffer(written)
    <3>1. /\ text # NotAnObject /\ decoded = decoded_binding(text)
          /\ complete(text) /\ safe(decoded_binding(text))
      BY <2>2, Accepted
    <3>2. /\ decoded \in Binding
          /\ decoded.user_id = written.user_id
          /\ decoded.cookie_value = written.cookie_value
          /\ decoded.public_key = written.public_key
          /\ decoded.challenge = written.challenge
          /\ decoded.challenge_time = written.challenge_time
      BY <2>2, <3>1, Decoded
    <3>3. written \in Binding
      BY <2>2, OneOrTheOther DEF CodecInv
    <3>4. {decoded, written} \intersect {Absent, Corrupt} = {}
      BY <3>2, <3>3, AbsentAssumption, CorruptAssumption
    <3>5. ASSUME NEW at \in Moments
          PROVE  LET proof == [key |-> written.public_key,
                               jti |-> written.challenge]
                     proved(b) ==
                        refresh_outcome(b, b.user_id, NoNonce, proof, at)
                 IN  /\ bound_cookie_matches(decoded, Unknown,
                                             written.cookie_value, at)
                     /\ proved(decoded) = proved(written)
      <4>1. bound_cookie_matches(decoded, Unknown, written.cookie_value, at)
        BY <3>2, <3>3 DEF bound_cookie_matches, same_user, Binding, Nonces
      <4>2. \A b, user, id, jwt : jwt.jti = b.challenge => challenge_matches(b, jwt.jti, at)
        BY DEF challenge_matches
      <4>3. QED
        BY <3>2, <3>4, <4>1, <4>2 DEF refresh_outcome
    <3>6. QED
      BY <2>2, <3>4, <3>5
  <2>3. QED
    BY <2>1, <2>2
<1>2. QED
  BY <1>1, CodecInvariant, PTL
==============================================================================
