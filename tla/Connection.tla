----------------------------- MODULE Connection -----------------------------
(***************************************************************************)
(* What one connection of the library promises its two programs: a stream  *)
(* of bytes from the one that connects to the one that accepts, opened by  *)
(* a handshake and closed by the connecting side.  It says nothing of      *)
(* packets, descriptors, flags, threads or buffers.                        *)
(***************************************************************************)
EXTENDS Naturals, SequencesExt

CONSTANT Byte

VARIABLES
  client,     \* the connecting end
  server,     \* the accepting end
  sent,       \* bytes the client has written
  arrived,    \* how many of them the server holds
  received    \* bytes the server's program has read

vars == <<client, server, sent, arrived, received>>

End == {"idle", "open", "closing", "closed"}

TypeOK ==
  /\ client \in End /\ server \in End
  /\ sent \in Seq(Byte) /\ received \in Seq(Byte)
  /\ arrived \in 0 .. Len(sent)

Init ==
  /\ client = "idle" /\ server = "idle"
  /\ sent = <<>> /\ arrived = 0 /\ received = <<>>

ClientOpens ==
  /\ client = "idle"
  /\ client' = "open"
  /\ UNCHANGED <<server, sent, arrived, received>>

\* The server learns of a connection that exists at the client.
ServerOpens ==
  /\ server = "idle" /\ client # "idle"
  /\ server' = "open"
  /\ UNCHANGED <<client, sent, arrived, received>>

Write ==
  /\ client = "open"
  /\ IsStrictPrefix(sent, sent')
  /\ UNCHANGED <<client, server, arrived, received>>

\* Bytes arrive in order and only once the connection is open.
Arrive ==
  /\ server = "open"
  /\ arrived' \in (arrived + 1) .. Len(sent)
  /\ UNCHANGED <<client, server, sent, received>>

\* The program reads what has arrived, in order, also after the close.
Receive ==
  /\ IsStrictPrefix(received, received')
  /\ IsPrefix(received', SubSeq(sent, 1, arrived))
  /\ UNCHANGED <<client, server, sent, arrived>>

ClientCloses ==
  /\ client = "open"
  /\ client' = "closing"
  /\ UNCHANGED <<server, sent, arrived, received>>

\* The server takes the close for one only when nothing is missing.
ServerCloses ==
  /\ server = "open" /\ client = "closing"
  /\ arrived = Len(sent)
  /\ server' = "closing"
  /\ UNCHANGED <<client, sent, arrived, received>>

\* The client is done when the server has said that it is closing too.
ClientClosed ==
  /\ client = "closing" /\ server = "closing"
  /\ client' = "closed"
  /\ UNCHANGED <<server, sent, arrived, received>>

ServerClosed ==
  /\ server = "closing" /\ client = "closed"
  /\ server' = "closed"
  /\ UNCHANGED <<client, sent, arrived, received>>

Next ==
  \/ ClientOpens \/ ServerOpens \/ Write \/ Arrive \/ Receive
  \/ ClientCloses \/ ServerCloses \/ ClientClosed \/ ServerClosed

Spec == Init /\ [][Next]_vars
=============================================================================
