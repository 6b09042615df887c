------------------------- MODULE MCOptionNegotiation -------------------------
(***************************************************************************)
(* Constants of the TLC runs of OptionNegotiation: who is configured how,  *)
(* and which calls the two applications make.                              *)
(***************************************************************************)
EXTENDS OptionNegotiation

\* Policies.
Nobody == [e \in Ends |-> {}]
ClientOnly(S) == [e \in Ends |-> IF e = "client" THEN S ELSE {}]
NoLFLOW == ClientOnly({"LFLOW"})
OnlyGMCP == ClientOnly({"GMCP"})
ThreeBatches == [e \in Ends |-> IF e = "server" THEN 3 ELSE 0]
NoBatches == [e \in Ends |-> 0]
Accepts == [e \in Ends |-> "ACCEPTED"]

\* Calls that are legitimate for the end that makes them: to offer what it
\* may perform, to ask for what its peer may, and to withdraw either.
Legitimate ==
  {c \in Ends \X Verbs \X Options :
     (IF c[2] \in {"DO", "DONT"} THEN Peer(c[1]) ELSE c[1]) \in Performers(c[3])}

\* The connection ends by the client's DO LOGOUT.
LegitimateOrLogout == Legitimate \cup {<<"client", "DO", "LOGOUT">>}

\* The calls of that run are such as the proofs of Agreement and Answered ask.
ASSUME InEarnest ==
  AppCalls = LegitimateOrLogout /\ Options \cap Questioned = {} =>
    AsksInEarnest /\ OffersInEarnest

\* server.py: the server asks and offers; client_base.py: the client offers
\* always_will and asks for always_do.
Asks(e, S) == {e} \X {"DO"} \X (S \cap Options)
Offers(e, S) == {e} \X {"WILL"} \X (S \cap Options)
Queries == Asks("server", Options \ MudOptions) \cup Offers("client", {"TTYPE"})
QueriesAndGMCP == Queries \cup Offers("server", {"GMCP"})
Negotiation == Queries \cup {c \in Legitimate : c[3] = "BINARY"}

NoSubs == {}
ServerSubs == {"server"} \X (Options \cap Requestable)
\* Both ends may ask for a character set.
Questions == ServerSubs \cup ({"client"} \X (Options \cap {"CHARSET"}))
\* The server offers to inflate.
OffersMccp3 == Offers("server", {"MCCP3"})
=============================================================================
