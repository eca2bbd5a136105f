------------------------------- MODULE MCCodec -------------------------------
(* Small instances of Codec for TLC: bindings before and after a refresh and  *)
(* a reactive 403, with every combination of the optional members.            *)
EXTENDS Codec

MCBindings ==
    {[user_id |-> user, session_identifier |-> 1, cookie_value |-> 2,
      public_key |-> key, challenge |-> challenge, challenge_time |-> 2,
      created_at |-> 1, cookie_issued_at |-> issued,
      previous_cookie_value |-> previous[1],
      previous_cookie_expires_at |-> previous[2],
      has_refreshed |-> refreshed,
      previous_challenge |-> demoted[1], previous_challenge_time |-> demoted[2],
      challenge_advertised |-> advertised] :
        user \in UserIds, key \in Keys, challenge \in {NoNonce, 2},
        issued \in {1, 2}, previous \in {<<NoNonce, 0>>, <<1, 3>>},
        refreshed \in BOOLEAN, demoted \in {<<NoNonce, 0>>, <<1, 1>>},
        advertised \in BOOLEAN}

MCOffers ==
    [user_id : UserIds, reg_challenge : {1}, reg_challenge_time : {0, 2}]
==============================================================================
