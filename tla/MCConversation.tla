--------------------------- MODULE MCConversation ---------------------------
(***************************************************************************)
(* Small instances of Conversation for TLC: what the clients send.         *)
(***************************************************************************)
EXTENDS Conversation, TLC

Request(key, idemKey, body, stream) ==
  [key |-> key, idem |-> idemKey, body |-> body, stream |-> stream]

\* A session's request with an idempotency key, a stream of the same session,
\* the same key and body without a session, and the key with another body in
\* another session.
MixedRequests ==
  {Request("alice", "i", "b1", FALSE), Request("alice", None, "b1", TRUE),
   Request(None, "i", "b1", FALSE), Request("bob", "i", "b2", FALSE)}

Interchangeable == Permutations(Attempts)
=============================================================================
