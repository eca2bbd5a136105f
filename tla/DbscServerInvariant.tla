------------------------- MODULE DbscServerInvariant -------------------------
(***************************************************************************)
(* The inductive invariant behind the safety properties of DbscServer: what *)
(* the store, the calls in flight and the history know of each other.       *)
(***************************************************************************)
EXTENDS DbscServer

\* The types of the variables, and the bounds on tokens and times.
Types ==
    /\ TypeOK
    /\ used \subseteq 1 .. MaxNonces

\* What a call remembers is what its operation and its step allow.
Remembers(c) ==
    /\ c.at <= now
    /\ c.id \in used \union {NoNonce}
    /\ c.jwt.jti \in used \union {NoNonce}
    /\ c.read \in IF c.op = "register"
                  THEN PendingRegistration \union {Absent, Corrupt}
                  ELSE Binding \union {Absent, Corrupt}
    /\ c.op \notin Minting => c.nonce = NoNonce
    /\ c.pc = "get" => c.op \in {"issue", "refresh"}
    /\ c.op = "advertise" /\ c.out = "ok" => c.read \in Binding

CallsRemember == \A t \in Active : Remembers(call[t])

\* A call that is about to write holds a verdict on the record it read, and a
\* token that no store has seen and nobody else holds.
Justified(c) ==
    /\ c.op \in Minting => c.nonce \in (1 .. MaxNonces) \ used
    /\ c.op = "register" =>
          /\ c.read \in PendingRegistration
          /\ registration_outcome(c.read, c.user, c.jwt, c.at) = "verified"
    /\ c.op \in {"issue", "refresh", "advertise"} => c.read \in Binding
    /\ c.op = "refresh" =>
          refresh_outcome(c.read, c.user, c.id, c.jwt, c.at) = "proved"
    /\ c.op = "advertise" =>
          \E at \in 0 .. now : worth_advertising(c.read, c.user, at)

Writing(t) == call[t] # Absent /\ call[t].pc = "write"

WritesAreJustified == \A t \in Tasks : Writing(t) => Justified(call[t])

TokensAreOwn ==
    \A t, q \in Tasks :
        Writing(t) /\ Writing(q) /\ call[t].op \in Minting
           /\ call[t].nonce = call[q].nonce
        => t = q

\* Every stored token was minted at the time that is stored with it.
OffersAreMinted ==
    \A s \in Sessions : IsRecord(pending[s]) =>
        [nonce |-> pending[s].reg_challenge,
         at |-> pending[s].reg_challenge_time] \in minted

\* No token is in two places of the store.
OffersAreOwn ==
    \A s, q \in Sessions : LiveOffer(s) \intersect LiveOffer(q) # {} => s = q

Challenges(s) ==
    IF IsRecord(binding[s])
    THEN {binding[s].challenge, binding[s].previous_challenge} \ {NoNonce}
    ELSE {}

ChallengesAreOwn ==
    \A s, q \in Sessions : Challenges(s) \intersect Challenges(q) # {} => s = q

\* What the history refers to was stored once.
HistoryIsUsed ==
    /\ withdrawn \subseteq used
    /\ \A g \in registered : g.offer \in used /\ g.sid \in used
    /\ \A r \in refreshed : r.jti \in used
    /\ \A s \in Sessions : LiveOffer(s) \intersect withdrawn = {}

\* A stored binding is that of the device and the user that registered it.
BindingsAreRegistered ==
    \A s \in Sessions : IsRecord(binding[s]) =>
        \E g \in registered :
            /\ g.sid = binding[s].session_identifier
            /\ g.key = binding[s].public_key
            /\ g.user = binding[s].user_id

IInv ==
    /\ Types
    /\ CallsRemember
    /\ WritesAreJustified
    /\ TokensAreOwn
    /\ OffersAreMinted
    /\ OffersAreOwn
    /\ ChallengesAreOwn
    /\ HistoryIsUsed
    /\ BindingsAreRegistered
    /\ TimesTrue
    /\ ProofsAreYoung
    /\ ChallengeSingleUse
    /\ OfferSingleUse
    /\ DeviceBound
==============================================================================
