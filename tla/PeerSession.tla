----------------------------- MODULE PeerSession -----------------------------
(* The connection bookkeeping of src/ipc/session.cpp, as operators on records. *)
(* The addon keeps one PeerSession for the helper it talks to; the helper      *)
(* keeps one SequenceValidator for the commands of its current transaction.    *)
(* An absent optional and an empty bus name are both 0: identifiers count      *)
(* from 1.                                                                     *)
EXTENDS Naturals

protocolVersion == 1

SessionStates == {"Disconnected", "Negotiating", "Ready", "Incompatible"}

\* A session that has met no peer.
NewSession ==
  [state |-> "Disconnected", owner |-> 0, nonce |-> 0]

\* begin: a new negotiation with `owner`, known by `nonce`.
Begin(s, owner, nonce) ==
  [state |-> "Negotiating", owner |-> owner, nonce |-> nonce]

\* acceptWelcome: only the answer of that owner to that negotiation counts, and
\* an answer with another version marks the peer incompatible.
AcceptWelcome(s, sender, welcome) ==
  IF s.state # "Negotiating" \/ sender # s.owner \/ welcome.nonce # s.nonce
  THEN s
  ELSE [s EXCEPT !.state = IF welcome.version = protocolVersion
                           THEN "Ready" ELSE "Incompatible"]

IsReady(s) == s.state = "Ready"

\* accepts: frames count only from the negotiated owner.
Accepts(s, sender) == IsReady(s) /\ sender = s.owner

\* ownerLost: the owner left the bus.
OwnerLost(s, owner) == IF owner = s.owner THEN NewSession ELSE s

\* SequenceValidator::begin and reset.
BeginSequence(transaction) == [transaction |-> transaction, lastSequence |-> 0]
NoSequence == BeginSequence(0)

\* The test of SequenceValidator::accept: strictly increasing within the
\* transaction. An accepted sequence becomes the last one.
AcceptsSequence(v, transaction, sequence) ==
  /\ v.transaction # 0
  /\ v.transaction = transaction
  /\ sequence # 0
  /\ sequence > v.lastSequence
=============================================================================
